-------------------------------- MODULE Raft --------------------------------
(***************************************************************************)
(* The consensus core of parallax-kv (raft/*.go) run by its driver          *)
(* (server/drive.go, sim/loop.go) on every node of a cluster.               *)
(*                                                                          *)
(* One action is one input of the drive loop: a tick, a delivered message,  *)
(* a client proposal or read, together with the drain that follows it       *)
(* (persist, send, apply, Advance).  Both drivers drain the core completely *)
(* before they take the next input, so nothing but a crash can come between *)
(* the two; CrashInDrain models the crash.                                  *)
(*                                                                          *)
(* The network is the set of all messages ever sent.  A message may be      *)
(* delivered at any time, any number of times, in any order, or never:      *)
(* transport/grpc drops on full queues and failed RPCs, sim/network.go      *)
(* drops, delays and duplicates.                                            *)
(***************************************************************************)
EXTENDS Integers, Sequences, FiniteSets

CONSTANTS
  Node,                 \* Config.Peers
  None,                 \* the node ID 0: no leader, no vote
  Command,              \* client commands
  Noop,                 \* the data of the entry a new leader appends
  PreVote,              \* Config.PreVote
  MaxEntriesPerAppend,  \* Config.MaxEntriesPerAppend, 0: no limit
  SnapshotEntries       \* sim Config.SnapshotEntries, 0: never compact

\* Bounds of the model.
CONSTANTS
  MaxTerm,              \* no node campaigns for a term above this one
  Campaigners,          \* the nodes whose election timer may fire, per term
  HeartbeatTerms,       \* the terms whose leader's heartbeat timer may fire
  MaxIndex,             \* no proposal is accepted by a longer log
  MaxReads,             \* per term: no leader of it has accepted more reads since
                        \* its node was restarted
  MaxRestarts           \* crashes, over all nodes

ASSUME NodeAssumption == IsFiniteSet(Node) /\ Node # {} /\ None \notin Node

ASSUME ConfigAssumption ==
  /\ PreVote \in BOOLEAN
  /\ MaxEntriesPerAppend \in Nat
  /\ SnapshotEntries \in Nat

ASSUME BoundAssumption ==
  /\ MaxTerm \in Nat /\ MaxIndex \in Nat
  /\ MaxReads \in [1..MaxTerm -> Nat]
  /\ MaxRestarts \in Nat
  /\ Campaigners \in [1..MaxTerm -> SUBSET Node]
  /\ HeartbeatTerms \subseteq Nat

VARIABLES
  Term, Vote,           \* the hard state in memory
  hardState,            \* the hard state on disk: Term, Vote, Commit
  state, lead,
  lease,                \* electionElapsed < ElectionTicks, while lead # None
  granted, rejected,    \* the votes map of a (pre-)candidate
  log,                  \* entries from index 1, those a snapshot covers included
  offset,               \* index of the last entry covered by the snapshot
  committed,
  match, next,          \* prs of a leader: Match and Next
  readOnly,             \* the leader's readIndexQueue with its statuses
  waiting,              \* pendingReadIndexMessages
  readToken,            \* server.readToken
  msgs,                 \* every message sent so far
  restarts,
  leaderByTerm,         \* history: <<term, node>> for every election won
  chosen,               \* history: the longest log prefix ever committed
  served                \* history: reads handed back to clients

hardVars == <<Term, Vote>>
roleVars == <<state, lead, lease, granted, rejected>>
progressVars == <<match, next>>
readVars == <<readOnly, waiting>>
historyVars == <<leaderByTerm, chosen, served>>
vars == <<hardVars, hardState, roleVars, log, offset, committed, progressVars,
          readVars, readToken, msgs, restarts, historyVars>>

-----------------------------------------------------------------------------
Follower     == "StateFollower"
PreCandidate == "StatePreCandidate"
Candidate    == "StateCandidate"
Leader       == "StateLeader"

Entry == [term : Nat \ {0}, data : Command \cup {Noop}]

Peers(i) == Node \ {i}
Quorum == Cardinality(Node) \div 2 + 1
Lesser(a, b) == IF a < b THEN a ELSE b
Greater(a, b) == IF a > b THEN a ELSE b
Prefix(s, n) == SubSeq(s, 1, Lesser(n, Len(s)))

\* raftLog.term: 0 outside the available range, the snapshot's term at its index.
TermOf(lg, off, k) ==
  IF k = 0 \/ k < off \/ k > Len(lg) THEN 0 ELSE lg[k].term

LastTerm(i) == TermOf(log[i], offset[i], Len(log[i]))

\* Mutant: the vote ignores the candidate's log.
IsUpToDateAlways(i, m) == TRUE

IsUpToDate(i, m) ==
  \/ m.logTerm > LastTerm(i)
  \/ m.logTerm = LastTerm(i) /\ m.logIndex >= Len(log[i])

\* Mutant: entries of earlier terms are committed by counting.
CommitIndexAnyTerm(mat, lg, off, com, t) ==
  LET backed(n) == Cardinality({j \in Node : mat[j] >= n}) >= Quorum
      mci == {n \in {mat[j] : j \in Node} :
                backed(n) /\ n > com /\ \A j \in Node : mat[j] > n => ~backed(mat[j])}
  IN IF mci = {} THEN com ELSE CHOOSE n \in mci : TRUE

\* maybeCommit: the highest index matched by a quorum, if that moves the commit
\* index and the entry has term t.
CommitIndex(mat, lg, off, com, t) ==
  LET backed(n) == Cardinality({j \in Node : mat[j] >= n}) >= Quorum
      mci == {n \in {mat[j] : j \in Node} :
                /\ backed(n) /\ \A j \in Node : mat[j] > n => ~backed(mat[j])
                /\ n > com /\ TermOf(lg, off, n) = t}
  IN IF mci = {} THEN com ELSE CHOOSE n \in mci : TRUE

\* Mutant: a read does not wait for an entry of the leader's term.
CommittedInTermSkipped(i) == TRUE

\* committedEntryInCurrentTerm
CommittedInTerm(i) == TermOf(log[i], offset[i], committed[i]) = Term[i]

-----------------------------------------------------------------------------
(* Messages.  A field the code leaves unset on a type is left out of it.     *)

VoteReq(t, i, j, term) ==
  [type |-> t, from |-> i, to |-> j, term |-> term,
   logIndex |-> Len(log[i]), logTerm |-> LastTerm(i)]

VoteReply(t, i, j, term, reject) ==
  [type |-> t, from |-> i, to |-> j, term |-> term, reject |-> reject]

AppendAck(i, j, term, n) ==
  [type |-> "MsgAppendResp", from |-> i, to |-> j, term |-> term,
   logIndex |-> n, reject |-> FALSE, rejectHint |-> 0, hintTerm |-> 0]

HeartbeatReply(i, j, term, ctx) ==
  [type |-> "MsgHeartbeatResp", from |-> i, to |-> j, term |-> term,
   context |-> ctx]

\* Mutant: the ack names the index after the snapshot.
SnapshotAckNext(i, j, term, n) ==
  [type |-> "MsgInstallSnapshotResp", from |-> i, to |-> j, term |-> term,
   logIndex |-> n + 1]

SnapshotAck(i, j, term, n) ==
  [type |-> "MsgInstallSnapshotResp", from |-> i, to |-> j, term |-> term,
   logIndex |-> n]

\* entriesToSend: the last index of a batch that starts at n.
LastToSend(lg, n) ==
  IF MaxEntriesPerAppend = 0 THEN Len(lg)
  ELSE Lesser(Len(lg), n + MaxEntriesPerAppend - 1)

\* Mutant: a snapshot includes what is not committed.
ReplicationMsgWholeLog(i, j, term, lg, n, com) ==
  IF n <= offset[i]
  THEN [type |-> "MsgInstallSnapshot", from |-> i, to |-> j, term |-> term,
        snapshot |-> lg]
  ELSE [type |-> "MsgAppend", from |-> i, to |-> j, term |-> term,
        logIndex |-> n - 1, logTerm |-> TermOf(lg, offset[i], n - 1),
        entries |-> SubSeq(lg, n, LastToSend(lg, n)), commit |-> com]

\* sendAppend and sendSnapshot.  A snapshot stands for the prefix it covers.
ReplicationMsg(i, j, term, lg, n, com) ==
  IF n <= offset[i]
  THEN [type |-> "MsgInstallSnapshot", from |-> i, to |-> j, term |-> term,
        snapshot |-> Prefix(lg, offset[i])]
  ELSE [type |-> "MsgAppend", from |-> i, to |-> j, term |-> term,
        logIndex |-> n - 1, logTerm |-> TermOf(lg, offset[i], n - 1),
        entries |-> SubSeq(lg, n, LastToSend(lg, n)), commit |-> com]

BcastAppend(i, term, lg, nxt, com) ==
  {ReplicationMsg(i, j, term, lg, nxt[j], com) : j \in Peers(i)}

\* Mutant: the commit index is not limited to what the peer matched.
BcastHeartbeatCommit(i, mat, com, ctx) ==
  {[type |-> "MsgHeartbeat", from |-> i, to |-> j, term |-> Term[i],
    commit |-> com, context |-> ctx] : j \in Peers(i)}

BcastHeartbeat(i, mat, com, ctx) ==
  {[type |-> "MsgHeartbeat", from |-> i, to |-> j, term |-> Term[i],
    commit |-> Lesser(mat[j], com), context |-> ctx] : j \in Peers(i)}

\* Mutant: a heartbeat does not repeat the context of a pending read.
LastPendingCtxNone(i) == 0

\* Context 0 is an absent context.
LastPendingCtx(i) ==
  IF readOnly[i] = <<>> THEN 0 ELSE readOnly[i][Len(readOnly[i])].ctx

-----------------------------------------------------------------------------
(* What an action does to one node.                                          *)

\* reset with the role left behind.  prs is read by leaders only and
\* becomeLeader sets it anew, so it rests at one value everywhere else.
BecomeFollower(i, term, vote, leader) ==
  /\ Term' = [Term EXCEPT ![i] = term]
  /\ Vote' = [Vote EXCEPT ![i] = vote]
  /\ state' = [state EXCEPT ![i] = Follower]
  /\ lead' = [lead EXCEPT ![i] = leader]
  /\ lease' = [lease EXCEPT ![i] = TRUE]
  /\ granted' = [granted EXCEPT ![i] = {}]
  /\ rejected' = [rejected EXCEPT ![i] = {}]
  /\ match' = [match EXCEPT ![i] = [j \in Node |-> 0]]
  /\ next' = [next EXCEPT ![i] = [j \in Node |-> 1]]
  /\ readOnly' = [readOnly EXCEPT ![i] = <<>>]
  /\ waiting' = [waiting EXCEPT ![i] = <<>>]

\* A term at least its own: a new term clears the vote.
VoteIn(i, term) == IF term > Term[i] THEN None ELSE Vote[i]

FollowLeader(i, m) == BecomeFollower(i, m.term, VoteIn(i, m.term), m.from)

\* Mutant: a new term or vote alone is not synced.
MustSyncEntries(i) == log'[i] # log[i]

\* Ready.MustSync: the batch holds entries, a snapshot, a new term or vote.
MustSync(i) ==
  \/ log'[i] # log[i]
  \/ Term'[i] # Term[i]
  \/ Vote'[i] # Vote[i]

\* drain: persist, apply, compact.  base is the index of the stored snapshot
\* once the batch is persisted.  A commit index that changes alone stays in the
\* write buffer of storage/disk.
Drain(i, base) ==
  /\ hardState' =
       IF MustSync(i)
       THEN [hardState EXCEPT ![i] = [Term |-> Term'[i], Vote |-> Vote'[i],
                                      Commit |-> committed'[i]]]
       ELSE hardState
  /\ offset' =
       [offset EXCEPT ![i] =
          IF SnapshotEntries > 0 /\ committed'[i] - base >= SnapshotEntries
          THEN committed'[i] ELSE base]
  /\ chosen' = IF committed'[i] > Len(chosen)
               THEN Prefix(log'[i], committed'[i]) ELSE chosen

Send(out) == msgs' = msgs \cup out

Received(i, m, type) == m.to = i /\ m.type = type

-----------------------------------------------------------------------------
(* Elections.                                                                *)

\* A timer that fires is past ElectionTicks, so no lease is left.
ElectionTimeout(i) ==
  /\ state[i] # Leader
  /\ lead[i] = None \/ ~lease[i]
  /\ Term[i] < MaxTerm
  /\ i \in Campaigners[Term[i] + 1]

\* electionElapsed reaches ElectionTicks, below the randomized timeout.
LeaseExpire(i) ==
  /\ state[i] # Leader /\ lead[i] # None /\ lease[i]
  /\ lease' = [lease EXCEPT ![i] = FALSE]
  /\ UNCHANGED <<hardVars, hardState, state, lead, granted, rejected, log,
                 offset, committed, progressVars, readVars, readToken, msgs,
                 restarts, historyVars>>

\* becomePreCandidate and the solicitation of pre-votes at Term + 1.
PreCampaign(i) ==
  /\ PreVote /\ Quorum > 1
  /\ ElectionTimeout(i)
  /\ state' = [state EXCEPT ![i] = PreCandidate]
  /\ lead' = [lead EXCEPT ![i] = None]
  /\ lease' = [lease EXCEPT ![i] = TRUE]
  /\ granted' = [granted EXCEPT ![i] = {i}]
  /\ rejected' = [rejected EXCEPT ![i] = {}]
  /\ Send({VoteReq("MsgPreVote", i, j, Term[i] + 1) : j \in Peers(i)})
  /\ UNCHANGED <<hardVars, hardState, log, offset, committed, progressVars,
                 readVars, readToken, restarts, historyVars>>

\* becomeCandidate and the solicitation of votes at the new term.
BecomeCandidate(i) ==
  /\ Term' = [Term EXCEPT ![i] = @ + 1]
  /\ Vote' = [Vote EXCEPT ![i] = i]
  /\ state' = [state EXCEPT ![i] = Candidate]
  /\ lead' = [lead EXCEPT ![i] = None]
  /\ lease' = [lease EXCEPT ![i] = TRUE]
  /\ granted' = [granted EXCEPT ![i] = {i}]
  /\ rejected' = [rejected EXCEPT ![i] = {}]
  /\ Send({VoteReq("MsgVote", i, j, Term[i] + 1) : j \in Peers(i)})
  /\ UNCHANGED <<log, committed, progressVars, readVars, readToken, restarts,
                 leaderByTerm, served>>
  /\ Drain(i, offset[i])

\* Mutant: the pre-vote phase is skipped.
CampaignDirect(i) == Quorum > 1 /\ ElectionTimeout(i) /\ BecomeCandidate(i)

Campaign(i) ==
  /\ ~PreVote /\ Quorum > 1
  /\ ElectionTimeout(i)
  /\ BecomeCandidate(i)

\* becomeLeader at term, with the no-op it appends.
BecomeLeader(i, term) ==
  LET last == Len(log[i])
      lg == Append(log[i], [term |-> term, data |-> Noop])
      mat == [j \in Node |-> IF j = i THEN last + 1 ELSE 0]
  IN /\ state' = [state EXCEPT ![i] = Leader]
     /\ lead' = [lead EXCEPT ![i] = i]
     /\ lease' = [lease EXCEPT ![i] = TRUE]
     /\ granted' = [granted EXCEPT ![i] = {}]
     /\ rejected' = [rejected EXCEPT ![i] = {}]
     /\ log' = [log EXCEPT ![i] = lg]
     /\ match' = [match EXCEPT ![i] = mat]
     /\ next' = [next EXCEPT ![i] =
                   [j \in Node |-> IF j = i THEN last + 2 ELSE last + 1]]
     /\ committed' = [committed EXCEPT ![i] =
                        CommitIndex(mat, lg, offset[i], @, term)]
     /\ leaderByTerm' = leaderByTerm \cup {<<term, i>>}
     /\ UNCHANGED <<readVars, readToken, restarts, served>>
     /\ Drain(i, offset[i])

\* One node is a quorum: solicitVotes goes straight through to leadership.
CampaignAlone(i) ==
  /\ Quorum = 1
  /\ ElectionTimeout(i)
  /\ Term' = [Term EXCEPT ![i] = @ + 1]
  /\ Vote' = [Vote EXCEPT ![i] = i]
  /\ BecomeLeader(i, Term[i] + 1)
  /\ UNCHANGED msgs

\* The disruption check of Step, made before the term rules.
Sticky(i, m) == lead[i] # None /\ Vote[i] # m.from /\ lease[i]

StickyReject(i, m) ==
  /\ m.to = i
  /\ Sticky(i, m)
  /\ \/ /\ m.type = "MsgVote"
        /\ Send({VoteReply("MsgVoteResp", i, m.from, Term[i], TRUE)})
     \/ /\ m.type = "MsgPreVote"
        /\ Send({VoteReply("MsgPreVoteResp", i, m.from, m.term, TRUE)})
  /\ UNCHANGED <<hardVars, hardState, roleVars, log, offset, committed,
                 progressVars, readVars, readToken, restarts, historyVars>>

\* The replies to requests of an older term.
StaleReply(i, m) ==
  /\ m.to = i /\ m.term < Term[i]
  /\ \/ /\ m.type = "MsgAppend"
        /\ Send({AppendAck(i, m.from, Term[i], 0)})
     \/ /\ m.type = "MsgHeartbeat"
        /\ Send({HeartbeatReply(i, m.from, Term[i], 0)})
     \/ /\ m.type = "MsgInstallSnapshot"
        /\ Send({SnapshotAck(i, m.from, Term[i], 0)})
     \/ /\ m.type = "MsgPreVote" /\ ~Sticky(i, m)
        /\ Send({VoteReply("MsgPreVoteResp", i, m.from, Term[i], TRUE)})
  /\ UNCHANGED <<hardVars, hardState, roleVars, log, offset, committed,
                 progressVars, readVars, readToken, restarts, historyVars>>

HandlePreVote(i, m) ==
  /\ Received(i, m, "MsgPreVote")
  /\ ~Sticky(i, m) /\ m.term >= Term[i]
  /\ Send({VoteReply("MsgPreVoteResp", i, m.from, m.term,
                     ~(IsUpToDate(i, m) /\ m.term > Term[i]))})
  /\ UNCHANGED <<hardVars, hardState, roleVars, log, offset, committed,
                 progressVars, readVars, readToken, restarts, historyVars>>

\* Mutant: an earlier vote of the term is forgotten.
CanVoteAgain(i, m) == m.term > Term[i] \/ lead[i] = None

\* canVote; a higher term has already cleared Vote and lead.
CanVote(i, m) ==
  \/ m.term > Term[i]
  \/ Vote[i] = m.from
  \/ Vote[i] = None /\ lead[i] = None

HandleVote(i, m) ==
  LET grant == CanVote(i, m) /\ IsUpToDate(i, m)
  IN /\ Received(i, m, "MsgVote")
     /\ ~Sticky(i, m) /\ m.term >= Term[i]
     /\ \/ /\ m.term > Term[i]
           /\ BecomeFollower(i, m.term, IF grant THEN m.from ELSE None, None)
        \/ /\ m.term = Term[i]
           /\ Vote' = [Vote EXCEPT ![i] = IF grant THEN m.from ELSE @]
           /\ lease' = [lease EXCEPT ![i] = @ \/ grant]
           /\ UNCHANGED <<Term, state, lead, granted, rejected, progressVars,
                          readVars>>
     /\ Send({VoteReply("MsgVoteResp", i, m.from, m.term, ~grant)})
     /\ UNCHANGED <<log, committed, readToken, restarts, leaderByTerm, served>>
     /\ Drain(i, offset[i])

\* The term rule for the responses: step down and name the sender leader.
\* A granted pre-vote carries the term of the campaign and is exempt.
StepDown(i, m) ==
  /\ m.to = i /\ m.term > Term[i]
  /\ \/ m.type \in {"MsgVoteResp", "MsgAppendResp", "MsgHeartbeatResp",
                    "MsgInstallSnapshotResp"}
     \/ m.type = "MsgPreVoteResp" /\ m.reject
  /\ FollowLeader(i, m)
  /\ UNCHANGED <<log, committed, readToken, msgs, restarts, leaderByTerm,
                 served>>
  /\ Drain(i, offset[i])

\* A ballot stepCandidate counts: of its phase, the first one of its sender.
Ballot(i, m) ==
  /\ m.to = i
  /\ \/ /\ state[i] = PreCandidate /\ m.type = "MsgPreVoteResp"
        /\ m.term = Term[i] \/ (m.term > Term[i] /\ ~m.reject)
     \/ state[i] = Candidate /\ m.type = "MsgVoteResp" /\ m.term = Term[i]
  /\ m.from \notin granted[i] \cup rejected[i]

Granted(i, m) == IF m.reject THEN granted[i] ELSE granted[i] \cup {m.from}
Rejected(i, m) == IF m.reject THEN rejected[i] \cup {m.from} ELSE rejected[i]

RecordVote(i, m) ==
  /\ Ballot(i, m)
  /\ Cardinality(Granted(i, m)) < Quorum
  /\ Cardinality(Rejected(i, m)) < Quorum
  /\ granted' = [granted EXCEPT ![i] = Granted(i, m)]
  /\ rejected' = [rejected EXCEPT ![i] = Rejected(i, m)]
  /\ UNCHANGED <<hardVars, hardState, state, lead, lease, log, offset,
                 committed, progressVars, readVars, readToken, msgs, restarts,
                 historyVars>>

WinPreVote(i, m) ==
  /\ Ballot(i, m) /\ state[i] = PreCandidate
  /\ Cardinality(Granted(i, m)) >= Quorum
  /\ BecomeCandidate(i)

WinElection(i, m) ==
  /\ Ballot(i, m) /\ state[i] = Candidate
  /\ Cardinality(Granted(i, m)) >= Quorum
  /\ UNCHANGED hardVars
  /\ BecomeLeader(i, Term[i])
  /\ Send(BcastAppend(i, Term[i], log'[i], next'[i], committed'[i]))

LoseElection(i, m) ==
  /\ Ballot(i, m)
  /\ Cardinality(Granted(i, m)) < Quorum
  /\ Cardinality(Rejected(i, m)) >= Quorum
  /\ BecomeFollower(i, Term[i], Vote[i], None)
  /\ UNCHANGED <<hardState, log, offset, committed, readToken, msgs, restarts,
                 historyVars>>

-----------------------------------------------------------------------------
(* Replication.                                                              *)

TickHeartbeat(i) ==
  /\ state[i] = Leader /\ Term[i] \in HeartbeatTerms
  /\ Send(BcastHeartbeat(i, match[i], committed[i], LastPendingCtx(i)))
  /\ UNCHANGED <<hardVars, hardState, roleVars, log, offset, committed,
                 progressVars, readVars, readToken, restarts, historyVars>>

\* releasePendingReadIndexMessages once the commit index moves to com.  A
\* single node never parks a read, so its answer-at-once branch is not needed.
ReleaseWaiting(i, com) ==
  LET pending == IF com > committed[i] THEN waiting[i] ELSE <<>>
      status(k) == [ctx |-> pending[k].ctx, index |-> com, acks |-> {i},
                    floor |-> pending[k].floor]
  IN /\ readOnly' = [readOnly EXCEPT ![i] =
                       @ \o [k \in 1..Len(pending) |-> status(k)]]
     /\ waiting' = [waiting EXCEPT ![i] = IF com > committed[i] THEN <<>> ELSE @]

ReleasedHeartbeats(i, mat, com) ==
  IF com > committed[i]
  THEN UNION {BcastHeartbeat(i, mat, com, waiting[i][k].ctx) :
                k \in 1..Len(waiting[i])}
  ELSE {}

Propose(i, c) ==
  LET lg == Append(log[i], [term |-> Term[i], data |-> c])
      mat == [match[i] EXCEPT ![i] = Len(lg)]
      nxt == [next[i] EXCEPT ![i] = Len(lg) + 1]
      com == CommitIndex(mat, lg, offset[i], committed[i], Term[i])
  IN /\ state[i] = Leader
     /\ Len(log[i]) < MaxIndex
     /\ log' = [log EXCEPT ![i] = lg]
     /\ match' = [match EXCEPT ![i] = mat]
     /\ next' = [next EXCEPT ![i] = nxt]
     /\ committed' = [committed EXCEPT ![i] = com]
     /\ ReleaseWaiting(i, com)
     /\ Send(BcastAppend(i, Term[i], lg, nxt, com)
             \cup ReleasedHeartbeats(i, mat, com))
     /\ UNCHANGED <<hardVars, roleVars, readToken, restarts, leaderByTerm,
                    served>>
     /\ Drain(i, offset[i])

\* A message of a leader this node follows from now on.  A leader ignores
\* the messages of its own term.
FromLeader(i, m, type) ==
  /\ Received(i, m, type)
  /\ m.term > Term[i] \/ (m.term = Term[i] /\ state[i] # Leader)

MatchTerm(i, n, term) == TermOf(log[i], offset[i], n) = term

\* findConflict: the first position in the batch where the logs differ, if any.
FindConflict(i, m) ==
  {k \in 1..Len(m.entries) :
     /\ ~MatchTerm(i, m.logIndex + k, m.entries[k].term)
     /\ \A j \in 1..(k - 1) : MatchTerm(i, m.logIndex + j, m.entries[j].term)}

\* maybeAppend: the log once the first n entries of the batch are in it.
Spliced(i, m, n) ==
  IF FindConflict(i, m) = {} THEN log[i]
  ELSE LET k == CHOOSE c \in FindConflict(i, m) : TRUE
       IN Prefix(log[i], m.logIndex + k - 1) \o SubSeq(m.entries, k, n)

\* findConflictByTerm and decrHint walk back from n to a term at most term.
LastAtMost(lg, off, n, term) ==
  LET hits == {k \in 1..n :
                 /\ TermOf(lg, off, k) <= term
                 /\ \A j \in (k + 1)..n : TermOf(lg, off, j) > term}
  IN IF hits = {} THEN 0 ELSE CHOOSE k \in hits : TRUE

AppendReject(i, m) ==
  LET hint == LastAtMost(log[i], offset[i], Lesser(m.logIndex, Len(log[i])),
                         m.logTerm)
  IN [AppendAck(i, m.from, m.term, m.logIndex) EXCEPT
        !.reject = TRUE, !.rejectHint = hint,
        !.hintTerm = TermOf(log[i], offset[i], hint)]

\* Mutant: the entry before the batch is not compared.
AppendAcceptedBlind(i, m) == m.logIndex >= committed[i]

AppendAccepted(i, m) ==
  m.logIndex >= committed[i] /\ MatchTerm(i, m.logIndex, m.logTerm)

HandleAppend(i, m) ==
  LET last == m.logIndex + Len(m.entries)
  IN /\ FromLeader(i, m, "MsgAppend")
     /\ FollowLeader(i, m)
     /\ \/ /\ m.logIndex < committed[i]
           /\ Send({AppendAck(i, m.from, m.term, committed[i])})
           /\ UNCHANGED <<log, committed>>
        \/ /\ AppendAccepted(i, m)
           /\ log' = [log EXCEPT ![i] = Spliced(i, m, Len(m.entries))]
           /\ committed' = [committed EXCEPT ![i] =
                              Greater(@, Lesser(m.commit, last))]
           /\ Send({AppendAck(i, m.from, m.term, last)})
        \/ /\ m.logIndex >= committed[i] /\ ~AppendAccepted(i, m)
           /\ Send({AppendReject(i, m)})
           /\ UNCHANGED <<log, committed>>
     /\ UNCHANGED <<readToken, restarts, leaderByTerm, served>>
     /\ Drain(i, offset[i])

HandleHeartbeat(i, m) ==
  /\ FromLeader(i, m, "MsgHeartbeat")
  /\ FollowLeader(i, m)
  /\ committed' = [committed EXCEPT ![i] =
                     Greater(@, Lesser(m.commit, Len(log[i])))]
  /\ Send({HeartbeatReply(i, m.from, m.term, m.context)})
  /\ UNCHANGED <<log, readToken, restarts, leaderByTerm, served>>
  /\ Drain(i, offset[i])

SnapshotTerm(m) == m.snapshot[Len(m.snapshot)].term

\* handleSnapshot: already covered, fast-forward, or restore.
HandleSnapshot(i, m) ==
  LET sindex == Len(m.snapshot)
  IN /\ FromLeader(i, m, "MsgInstallSnapshot")
     /\ FollowLeader(i, m)
     /\ \/ /\ sindex <= committed[i]
           /\ Send({SnapshotAck(i, m.from, m.term, committed[i])})
           /\ UNCHANGED <<log, committed>>
           /\ Drain(i, offset[i])
        \/ /\ sindex > committed[i]
           /\ committed' = [committed EXCEPT ![i] = sindex]
           /\ Send({SnapshotAck(i, m.from, m.term, sindex)})
           /\ \/ /\ MatchTerm(i, sindex, SnapshotTerm(m))
                 /\ UNCHANGED log
                 /\ Drain(i, offset[i])
              \/ /\ ~MatchTerm(i, sindex, SnapshotTerm(m))
                 /\ log' = [log EXCEPT ![i] = m.snapshot]
                 /\ Drain(i, sindex)
     /\ UNCHANGED <<readToken, restarts, leaderByTerm, served>>

\* A reply to this leader in its own term.
Reply(i, m, type) ==
  Received(i, m, type) /\ m.term = Term[i] /\ state[i] = Leader

\* Mutant: Match runs one ahead.
AckedNext(i, m) ==
  /\ match' = [match EXCEPT ![i][m.from] = Greater(@, m.logIndex + 1)]
  /\ next' = [next EXCEPT ![i][m.from] = Greater(@, m.logIndex + 1)]

\* maybeUpdate of the sender's progress.
Acked(i, m) ==
  /\ match' = [match EXCEPT ![i][m.from] = Greater(@, m.logIndex)]
  /\ next' = [next EXCEPT ![i][m.from] = Greater(@, m.logIndex + 1)]

HandleAppendAck(i, m) ==
  LET com == IF m.logIndex > match[i][m.from]
             THEN CommitIndex(match'[i], log[i], offset[i], committed[i], Term[i])
             ELSE committed[i]
  IN /\ Reply(i, m, "MsgAppendResp") /\ ~m.reject
     /\ Acked(i, m)
     /\ committed' = [committed EXCEPT ![i] = com]
     /\ ReleaseWaiting(i, com)
     /\ Send(IF com > committed[i]
             THEN ReleasedHeartbeats(i, match'[i], com)
                  \cup BcastAppend(i, Term[i], log[i], next'[i], com)
             ELSE {})
     /\ UNCHANGED <<hardVars, roleVars, log, readToken, restarts, leaderByTerm,
                    served>>
     /\ Drain(i, offset[i])

\* Mutant: the hint is decremented once more.
DecrHintShort(i, m) == m.rejectHint - 1

\* decrHint
DecrHint(i, m) ==
  IF m.hintTerm > 0
  THEN LastAtMost(log[i], offset[i], Lesser(m.rejectHint, Len(log[i])), m.hintTerm)
  ELSE m.rejectHint

HandleAppendReject(i, m) ==
  LET n == DecrHint(i, m) + 1
  IN /\ Reply(i, m, "MsgAppendResp") /\ m.reject
     /\ next[i][m.from] - 1 = m.logIndex
     /\ next' = [next EXCEPT ![i][m.from] = n]
     /\ Send({ReplicationMsg(i, m.from, Term[i], log[i], n, committed[i])})
     /\ UNCHANGED <<hardVars, hardState, roleVars, log, offset, committed, match,
                    readVars, readToken, restarts, historyVars>>

HandleSnapshotAck(i, m) ==
  /\ Reply(i, m, "MsgInstallSnapshotResp")
  /\ Acked(i, m)
  /\ Send({ReplicationMsg(i, m.from, Term[i], log[i], next'[i][m.from],
                          committed[i])})
  /\ UNCHANGED <<hardVars, hardState, roleVars, log, offset, committed, readVars,
                 readToken, restarts, historyVars>>

-----------------------------------------------------------------------------
(* Linearizable reads.  floor is what was committed when the read arrived.   *)

ReadIndex(i) ==
  LET ctx == readToken[i] + 1
      floor == Len(chosen)
      status == [ctx |-> ctx, index |-> committed[i], acks |-> {i},
                 floor |-> floor]
  IN /\ state[i] = Leader
     /\ readToken[i] < MaxReads[Term[i]]
     /\ readToken' = [readToken EXCEPT ![i] = ctx]
     /\ \/ /\ ~CommittedInTerm(i)
           /\ waiting' = [waiting EXCEPT ![i] =
                            Append(@, [ctx |-> ctx, floor |-> floor])]
           /\ UNCHANGED <<readOnly, msgs, served>>
        \/ /\ CommittedInTerm(i) /\ Quorum = 1
           /\ served' = served \cup {[floor |-> floor, index |-> committed[i]]}
           /\ UNCHANGED <<readOnly, waiting, msgs>>
        \/ /\ CommittedInTerm(i) /\ Quorum > 1
           /\ readOnly' = [readOnly EXCEPT ![i] = Append(@, status)]
           /\ Send(BcastHeartbeat(i, match[i], committed[i], ctx))
           /\ UNCHANGED <<waiting, served>>
     /\ UNCHANGED <<hardVars, hardState, roleVars, log, offset, committed,
                    progressVars, restarts, leaderByTerm, chosen>>

\* recvAck and advance: a quorum for one request confirms the earlier ones.
RecvAck(i, m) ==
  LET queue == [k \in 1..Len(readOnly[i]) |->
                  IF readOnly[i][k].ctx = m.context
                  THEN [readOnly[i][k] EXCEPT !.acks = @ \cup {m.from}]
                  ELSE readOnly[i][k]]
      confirmed == {k \in 1..Len(queue) :
                      queue[k].ctx = m.context
                      /\ Cardinality(queue[k].acks) >= Quorum}
  IN \/ /\ confirmed = {}
        /\ readOnly' = [readOnly EXCEPT ![i] = queue]
        /\ UNCHANGED served
     \/ \E k \in confirmed :
          /\ readOnly' = [readOnly EXCEPT ![i] = SubSeq(queue, k + 1, Len(queue))]
          /\ served' = served \cup {[floor |-> queue[n].floor,
                                     index |-> queue[n].index] : n \in 1..k}

\* Mutant: a follower that lags is not sent anything.
HandleHeartbeatRespQuiet(i, m) ==
  /\ Reply(i, m, "MsgHeartbeatResp")
  /\ RecvAck(i, m)
  /\ UNCHANGED <<hardVars, hardState, roleVars, log, offset, committed,
                 progressVars, waiting, readToken, msgs, restarts, leaderByTerm, chosen>>

HandleHeartbeatResp(i, m) ==
  /\ Reply(i, m, "MsgHeartbeatResp")
  /\ Send(IF match[i][m.from] < Len(log[i])
          THEN {ReplicationMsg(i, m.from, Term[i], log[i], next[i][m.from],
                               committed[i])}
          ELSE {})
  /\ RecvAck(i, m)
  /\ UNCHANGED <<hardVars, hardState, roleVars, log, offset, committed,
                 progressVars, waiting, readToken, restarts, leaderByTerm, chosen>>

-----------------------------------------------------------------------------
(* Crashes.  What storage holds is lg, above a snapshot at off, and hs.      *)

Reboot(i, lg, off, hs) ==
  /\ restarts < MaxRestarts
  /\ restarts' = restarts + 1
  /\ BecomeFollower(i, hs.Term, hs.Vote, None)
  /\ log' = [log EXCEPT ![i] = lg]
  /\ offset' = [offset EXCEPT ![i] = off]
  /\ hardState' = [hardState EXCEPT ![i] = hs]
  /\ committed' = [committed EXCEPT ![i] = Greater(off, hs.Commit)]
  /\ readToken' = [readToken EXCEPT ![i] = 0]
  /\ UNCHANGED <<msgs, historyVars>>

\* The hard state with the commit index still in the write buffer, or kept by
\* storage/mem.
Buffered(i) == [hardState[i] EXCEPT !.Commit = committed[i]]

\* Mutant: the last entry was acknowledged before it was synced.
RestartUnsynced(i) ==
  Reboot(i, Prefix(log[i], Len(log[i]) - 1), offset[i], hardState[i])

\* Between two drains.
Restart(i) ==
  \E hs \in {hardState[i], Buffered(i)} : Reboot(i, log[i], offset[i], hs)

\* While a batch is persisted: some of its entries, or its snapshot, are on disk
\* and its hard state is not.  Nothing of the batch has been sent.
CrashInDrain(i, m) ==
  \/ /\ FromLeader(i, m, "MsgAppend") /\ AppendAccepted(i, m)
     /\ \E k \in FindConflict(i, m) : \E n \in k..Len(m.entries) :
          Reboot(i, Spliced(i, m, n), offset[i], Buffered(i))
  \/ /\ FromLeader(i, m, "MsgInstallSnapshot")
     /\ Len(m.snapshot) > committed[i]
     /\ ~MatchTerm(i, Len(m.snapshot), SnapshotTerm(m))
     /\ Reboot(i, m.snapshot, Len(m.snapshot), hardState[i])

\* A lone node writes the no-op of its new term before the term itself.
CrashCampaignAlone(i) ==
  /\ Quorum = 1
  /\ ElectionTimeout(i)
  /\ Reboot(i, Append(log[i], [term |-> Term[i] + 1, data |-> Noop]),
            offset[i], Buffered(i))

-----------------------------------------------------------------------------
Init ==
  /\ Term = [i \in Node |-> 0]
  /\ Vote = [i \in Node |-> None]
  /\ hardState = [i \in Node |-> [Term |-> 0, Vote |-> None, Commit |-> 0]]
  /\ state = [i \in Node |-> Follower]
  /\ lead = [i \in Node |-> None]
  /\ lease = [i \in Node |-> TRUE]
  /\ granted = [i \in Node |-> {}]
  /\ rejected = [i \in Node |-> {}]
  /\ log = [i \in Node |-> <<>>]
  /\ offset = [i \in Node |-> 0]
  /\ committed = [i \in Node |-> 0]
  /\ match = [i \in Node |-> [j \in Node |-> 0]]
  /\ next = [i \in Node |-> [j \in Node |-> 1]]
  /\ readOnly = [i \in Node |-> <<>>]
  /\ waiting = [i \in Node |-> <<>>]
  /\ readToken = [i \in Node |-> 0]
  /\ msgs = {}
  /\ restarts = 0
  /\ leaderByTerm = {}
  /\ chosen = <<>>
  /\ served = {}

Next ==
  \/ \E i \in Node : LeaseExpire(i)
  \/ \E i \in Node : PreCampaign(i)
  \/ \E i \in Node : Campaign(i)
  \/ \E i \in Node : CampaignAlone(i)
  \/ \E i \in Node : TickHeartbeat(i)
  \/ \E i \in Node, c \in Command : Propose(i, c)
  \/ \E i \in Node : ReadIndex(i)
  \/ \E m \in msgs : StickyReject(m.to, m)
  \/ \E m \in msgs : StaleReply(m.to, m)
  \/ \E m \in msgs : StepDown(m.to, m)
  \/ \E m \in msgs : HandlePreVote(m.to, m)
  \/ \E m \in msgs : HandleVote(m.to, m)
  \/ \E m \in msgs : RecordVote(m.to, m)
  \/ \E m \in msgs : WinPreVote(m.to, m)
  \/ \E m \in msgs : WinElection(m.to, m)
  \/ \E m \in msgs : LoseElection(m.to, m)
  \/ \E m \in msgs : HandleAppend(m.to, m)
  \/ \E m \in msgs : HandleHeartbeat(m.to, m)
  \/ \E m \in msgs : HandleSnapshot(m.to, m)
  \/ \E m \in msgs : HandleAppendAck(m.to, m)
  \/ \E m \in msgs : HandleAppendReject(m.to, m)
  \/ \E m \in msgs : HandleHeartbeatResp(m.to, m)
  \/ \E m \in msgs : HandleSnapshotAck(m.to, m)
  \/ \E i \in Node : Restart(i)
  \/ \E i \in Node : CrashCampaignAlone(i)
  \/ \E m \in msgs : CrashInDrain(m.to, m)

Spec == Init /\ [][Next]_vars

-----------------------------------------------------------------------------
(* Type correctness.                                                         *)

HardState == [Term : Nat, Vote : Node \cup {None}, Commit : Nat]
ReadStatus == [ctx : Nat, index : Nat, acks : SUBSET Node, floor : Nat]

Message ==
  [type : {"MsgPreVote", "MsgVote"}, from : Node, to : Node, term : Nat,
   logIndex : Nat, logTerm : Nat]
  \cup
  [type : {"MsgPreVoteResp", "MsgVoteResp"}, from : Node, to : Node, term : Nat,
   reject : BOOLEAN]
  \cup
  [type : {"MsgAppend"}, from : Node, to : Node, term : Nat, logIndex : Nat,
   logTerm : Nat, entries : Seq(Entry), commit : Nat]
  \cup
  [type : {"MsgAppendResp"}, from : Node, to : Node, term : Nat, logIndex : Nat,
   reject : BOOLEAN, rejectHint : Nat, hintTerm : Nat]
  \cup
  [type : {"MsgHeartbeat"}, from : Node, to : Node, term : Nat, commit : Nat,
   context : Nat]
  \cup
  [type : {"MsgHeartbeatResp"}, from : Node, to : Node, term : Nat, context : Nat]
  \cup
  [type : {"MsgInstallSnapshot"}, from : Node, to : Node, term : Nat,
   snapshot : Seq(Entry)]
  \cup
  [type : {"MsgInstallSnapshotResp"}, from : Node, to : Node, term : Nat,
   logIndex : Nat]

RoleTypeOK ==
  /\ Term \in [Node -> Nat]
  /\ Vote \in [Node -> Node \cup {None}]
  /\ hardState \in [Node -> HardState]
  /\ state \in [Node -> {Follower, PreCandidate, Candidate, Leader}]
  /\ lead \in [Node -> Node \cup {None}]
  /\ lease \in [Node -> BOOLEAN]
  /\ granted \in [Node -> SUBSET Node]
  /\ rejected \in [Node -> SUBSET Node]
  /\ leaderByTerm \in SUBSET (Nat \X Node)

LogTypeOK ==
  /\ log \in [Node -> Seq(Entry)]
  /\ offset \in [Node -> Nat]
  /\ committed \in [Node -> Nat]
  /\ match \in [Node -> [Node -> Nat]]
  /\ next \in [Node -> [Node -> Nat \ {0}]]
  /\ chosen \in Seq(Entry)

ReadTypeOK ==
  /\ readOnly \in [Node -> Seq(ReadStatus)]
  /\ waiting \in [Node -> Seq([ctx : Nat, floor : Nat])]
  /\ readToken \in [Node -> Nat]
  /\ served \in SUBSET [floor : Nat, index : Nat]

\* Every variable has its type and every message has the fields the sender
\* of its type fills in.
TypeOK ==
  /\ RoleTypeOK /\ LogTypeOK /\ ReadTypeOK
  /\ msgs \subseteq Message
  /\ restarts \in Nat

-----------------------------------------------------------------------------
(* Safety.                                                                   *)

PrefixOf(s, t) == Len(s) <= Len(t) /\ s = Prefix(t, Len(s))

\* No term has two leaders, whatever is lost, repeated or reordered and whoever
\* crashes in between (becomeLeader after tallyGranted reaches a quorum).
ElectionSafety ==
  \A a, b \in leaderByTerm : a[1] = b[1] => a[2] = b[2]

\* A node grants its vote to one candidate per term, also when it restarts from
\* storage between two requests (handleVoteRequest, Ready.MustSync).
OneVotePerTerm ==
  \A m, n \in msgs :
    /\ m.type = "MsgVoteResp" /\ ~m.reject
    /\ n.type = "MsgVoteResp" /\ ~n.reject
    /\ m.from = n.from /\ m.term = n.term
    => m.to = n.to

\* With PreVote a node raises its term to campaign only when a quorum, itself
\* included, has granted it a pre-vote for the term or for the one before
\* (stepCandidate also counts a late grant of the previous campaign).
CandidacyIsBacked ==
  \A i \in Node : PreVote /\ state[i] = Candidate =>
    Cardinality({i} \cup {m.from : m \in {n \in msgs :
      /\ n.type = "MsgPreVoteResp" /\ ~n.reject
      /\ n.to = i /\ n.term \in {Term[i] - 1, Term[i]}}}) >= Quorum

NewestLeader(i) ==
  /\ state[i] = Leader
  /\ \A a \in leaderByTerm : a[1] <= Term[i]

\* The leader of the newest term holds every entry that was ever committed
\* (isUpToDate in handleVoteRequest, the term check of raftLog.maybeCommit).
LeaderCompleteness ==
  \A i \in Node : NewestLeader(i) => PrefixOf(chosen, log[i])

\* What a node applies is a prefix of the one committed history, so no two nodes
\* ever apply different entries at an index (Ready.CommittedEntries).
StateMachineSafety ==
  \A i \in Node :
    /\ offset[i] <= committed[i] /\ committed[i] <= Len(log[i])
    /\ Prefix(log[i], committed[i]) = Prefix(chosen, committed[i])

\* Two logs that agree on the term at an index agree up to that index
\* (raftLog.maybeAppend, handleSnapshot and the partial writes of a crash).
LogMatching ==
  \A i, j \in Node : \A k \in 1..Lesser(Len(log[i]), Len(log[j])) :
    log[i][k].term = log[j][k].term => Prefix(log[i], k) = Prefix(log[j], k)

\* While no newer leader exists, an index the leader counts for a follower is in
\* that follower's storage: acks are sent after the fsync, and late or repeated
\* acks and rejections never inflate Match (progress.maybeUpdate).
MatchIsStored ==
  \A i, j \in Node :
    NewestLeader(i) => PrefixOf(Prefix(log[i], match[i][j]), log[j])
                       /\ match[i][j] <= Len(log[i])

\* A read is answered at an index that covers every entry committed anywhere
\* before the read arrived: linearizability of ReadIndex (stepReadIndex,
\* handleHeartbeatResp), also on a leader that has been deposed unknowingly.
ReadsAreFresh == \A r \in served : r.index >= r.floor

\* A crash never takes a node back to an earlier term (newRaft reads the term
\* that Ready.MustSync made durable before any message left).
TermNeverDecreases == [][\A i \in Node : Term'[i] >= Term[i]]_vars

\* An entry once committed is never replaced: the committed history only grows
\* (handleAppend, restore, maybeCommit).
CommittedIsStable == [][PrefixOf(chosen, chosen')]_vars
=============================================================================
