----------------------------- MODULE RaftVotes ------------------------------
(***************************************************************************)
(* The votes of Raft: the inductive invariant of elections, and the         *)
(* actions that neither vote nor count votes.                               *)
(*                                                                          *)
(* The argument: the votes a node has cast are on record as messages; a     *)
(* node's durable term and vote always cover the votes it has cast, so it   *)
(* casts one per term even across crashes; a leader has a quorum of votes,  *)
(* and two quorums meet.                                                    *)
(***************************************************************************)
EXTENDS RaftTypes

\* m is the record of v's vote for c in term t: a granted response, or the
\* solicitation of a candidate, which has voted for itself.
CastBy(m, v, c, t) ==
  \/ m.type = "MsgVoteResp" /\ ~m.reject /\ m.from = v /\ m.to = c /\ m.term = t
  \/ m.type = "MsgVote" /\ m.from = v /\ c = v /\ m.term = t

Cast(v, c, t) == \E m \in msgs : CastBy(m, v, c, t)

\* Between two inputs the term and the vote in memory are the ones on disk.
Durable ==
  \A i \in Node : hardState[i].Term = Term[i] /\ hardState[i].Vote = Vote[i]

\* The hard state remembers a vote as long as its term lasts.
VotesRemembered ==
  \A v, c \in Node : \A t \in Nat :
    Cast(v, c, t) => t < Term[v] \/ (t = Term[v] /\ Vote[v] = c)

\* One vote per node and term.
VotesUnique ==
  \A v, c, d \in Node : \A t \in Nat : Cast(v, c, t) /\ Cast(v, d, t) => c = d

\* A candidate counts votes of its own term only.  A lone node needs none.
BallotsCast ==
  Quorum > 1 => \A i \in Node : state[i] = Candidate =>
                  \A v \in granted[i] : Cast(v, i, Term[i])

\* A quorum voted for every leader.
Elected(t, i) ==
  \E Q \in SUBSET Node : Cardinality(Q) >= Quorum /\ \A v \in Q : Cast(v, i, t)

LeadersElected ==
  Quorum > 1 => \A a \in leaderByTerm : Elected(a[1], a[2])

VoteInv ==
  /\ Durable /\ VotesRemembered /\ VotesUnique /\ BallotsCast /\ LeadersElected

-----------------------------------------------------------------------------
(* What a step may do to votes.                                              *)

\* Terms only grow and a vote is not withdrawn within a term.
VoteMonotone ==
  \A v \in Node :
    \/ Term'[v] > Term[v]
    \/ Term'[v] = Term[v] /\ (Vote'[v] = Vote[v] \/ Vote[v] = None)

\* A step that sends no vote.
Quiet ==
  /\ msgs \subseteq msgs'
  /\ \A m \in msgs' \ msgs :
       m.type # "MsgVote" /\ (m.type = "MsgVoteResp" => m.reject)

\* Every vote a step sends is the one its node has just recorded.
VotesJustified ==
  /\ msgs \subseteq msgs'
  /\ \A v, c \in Node : \A t \in Nat :
       Cast(v, c, t)' /\ ~Cast(v, c, t) =>
         /\ Term'[v] = t /\ Vote'[v] = c
         /\ Term[v] < t \/ Vote[v] \in {None, c}

\* A step that counts no vote and elects nobody.
Bystander ==
  /\ leaderByTerm' = leaderByTerm
  /\ \A i \in Node : state'[i] = Candidate =>
       state[i] = Candidate /\ Term'[i] = Term[i] /\ granted'[i] = granted[i]

\* A quiet step casts no vote.
LEMMA QuietCast ==
  ASSUME Quiet, NEW v, NEW c, NEW t
  PROVE  Cast(v, c, t)' <=> Cast(v, c, t)
BY DEF Quiet, Cast, CastBy

\* A vote that was cast stays on record.
LEMMA CastStays ==
  ASSUME msgs \subseteq msgs', NEW v, NEW c, NEW t, Cast(v, c, t)
  PROVE  Cast(v, c, t)'
BY DEF Cast, CastBy

\* A step that sends no vote has none to justify.
LEMMA QuietJustified == Quiet => VotesJustified
BY QuietCast DEF Quiet, VotesJustified

\* Remembered votes stay remembered and unique.
LEMMA VoteStep ==
  ASSUME TypeOK, TypeOK', VotesRemembered, VotesUnique, VoteMonotone,
         VotesJustified
  PROVE  VotesRemembered' /\ VotesUnique'
<1>0. /\ Term \in [Node -> Nat] /\ Term' \in [Node -> Nat]
      /\ None \notin Node
  BY NodeAssumption DEF TypeOK, RoleTypeOK
<1>1. ASSUME NEW v \in Node, NEW c \in Node, NEW t \in Nat, Cast(v, c, t)'
      PROVE  t < Term'[v] \/ (t = Term'[v] /\ Vote'[v] = c)
  <2>1. CASE Cast(v, c, t)
    <3>1. t < Term[v] \/ (t = Term[v] /\ Vote[v] = c)
      BY <2>1 DEF VotesRemembered
    <3>2. \/ Term'[v] > Term[v]
          \/ Term'[v] = Term[v] /\ (Vote'[v] = Vote[v] \/ Vote[v] = None)
      BY DEF VoteMonotone
    <3> QED
      BY <1>0, <3>1, <3>2
  <2>2. CASE ~Cast(v, c, t)
    BY <1>1, <2>2 DEF VotesJustified
  <2> QED
    BY <2>1, <2>2
<1>2. VotesRemembered'
  BY <1>1 DEF VotesRemembered
<1>3. ASSUME NEW v \in Node, NEW c \in Node, NEW d \in Node, NEW t \in Nat,
             Cast(v, c, t)', ~Cast(v, c, t), Cast(v, d, t)'
      PROVE  c = d
  <2>1. Term'[v] = t /\ Vote'[v] = c /\ (Term[v] < t \/ Vote[v] \in {None, c})
    BY <1>3 DEF VotesJustified
  <2>2. CASE Cast(v, d, t)
    <3>1. t < Term[v] \/ (t = Term[v] /\ Vote[v] = d)
      BY <2>2 DEF VotesRemembered
    <3>2. Term[v] \in Nat /\ Term'[v] >= Term[v]
      BY <1>0 DEF VoteMonotone
    <3> QED
      BY <1>0, <2>1, <3>1, <3>2
  <2>3. CASE ~Cast(v, d, t)
    BY <1>3, <2>1, <2>3 DEF VotesJustified
  <2> QED
    BY <2>2, <2>3
<1>4. VotesUnique'
  <2> SUFFICES ASSUME NEW v \in Node, NEW c \in Node, NEW d \in Node, NEW t \in Nat,
                      Cast(v, c, t)', Cast(v, d, t)'
               PROVE  c = d
    BY DEF VotesUnique
  <2>1. CASE Cast(v, c, t) /\ Cast(v, d, t)
    BY <2>1 DEF VotesUnique
  <2> QED
    BY <1>3, <2>1
<1> QED
  BY <1>2, <1>4

\* The quorums behind earlier leaders stay.
LEMMA ElectedStays ==
  ASSUME msgs \subseteq msgs', NEW t, NEW i, Elected(t, i)
  PROVE  Elected(t, i)'
<1>1. PICK Q \in SUBSET Node : Cardinality(Q) >= Quorum /\ \A v \in Q : Cast(v, i, t)
  BY DEF Elected
<1>2. \A v \in Q : Cast(v, i, t)'
  BY <1>1, CastStays
<1> QED
  BY <1>1, <1>2 DEF Elected

\* Candidates keep their ballots and leaders their quorums over a bystander step.
LEMMA BystanderStep ==
  ASSUME VoteInv, msgs \subseteq msgs', Bystander
  PROVE  BallotsCast' /\ LeadersElected'
<1> USE DEF Bystander
<1>1. BallotsCast'
  <2> SUFFICES ASSUME Quorum > 1, NEW i \in Node, state'[i] = Candidate,
                      NEW v \in granted'[i]
               PROVE  Cast(v, i, Term[i])'
    BY DEF BallotsCast
  <2>1. PICK t : t = Term[i] /\ t = Term'[i] /\ Cast(v, i, t)
    BY DEF VoteInv, BallotsCast
  <2>2. Cast(v, i, t)'
    BY <2>1, CastStays
  <2> QED
    BY <2>1, <2>2 DEF Cast
<1>2. LeadersElected'
  BY ElectedStays DEF VoteInv, LeadersElected
<1> QED
  BY <1>1, <1>2
-----------------------------------------------------------------------------
(* Which actions send no vote.                                               *)

\* Replication messages are not votes.
LEMMA ReplicationMsgQuiet ==
  ASSUME NEW i, NEW j, NEW term, NEW lg, NEW n, NEW com
  PROVE  ReplicationMsg(i, j, term, lg, n, com).type
           \in {"MsgAppend", "MsgInstallSnapshot"}
BY DEF ReplicationMsg

\* Neither are the broadcasts of a leader.
LEMMA BcastQuiet ==
  ASSUME NEW i, NEW term, NEW lg, NEW nxt, NEW mat, NEW com
  PROVE  /\ \A m \in BcastAppend(i, term, lg, nxt, com) :
              m.type \in {"MsgAppend", "MsgInstallSnapshot"}
         /\ \A ctx : \A m \in BcastHeartbeat(i, mat, com, ctx) :
              m.type = "MsgHeartbeat"
         /\ \A m \in ReleasedHeartbeats(i, mat, com) : m.type = "MsgHeartbeat"
<1>1. ASSUME NEW ctx
      PROVE  \A m \in BcastHeartbeat(i, mat, com, ctx) : m.type = "MsgHeartbeat"
  BY DEF BcastHeartbeat
<1> QED
  BY <1>1, ReplicationMsgQuiet DEF BcastAppend, ReleasedHeartbeats

\* Sending anything but votes is quiet.
LEMMA SendQuiet ==
  ASSUME NEW out, Send(out),
         \A m \in out : m.type # "MsgVote" /\ (m.type = "MsgVoteResp" => m.reject)
  PROVE  Quiet
BY DEF Send, Quiet

\* So is a single answer that is not a vote.
LEMMA ReplyQuiet ==
  ASSUME NEW x, Send({x}), x.type # "MsgVote", x.type = "MsgVoteResp" => x.reject
  PROVE  Quiet
BY SendQuiet

\* The replies other than votes.
LEMMA RepliesAreQuiet ==
  ASSUME NEW i, NEW j, NEW term, NEW n, NEW reject, NEW m
  PROVE  /\ Send({VoteReply("MsgPreVoteResp", i, j, term, reject)}) => Quiet
         /\ Send({VoteReply("MsgVoteResp", i, j, term, TRUE)}) => Quiet
         /\ Send({AppendAck(i, j, term, n)}) => Quiet
         /\ Send({HeartbeatReply(i, j, term, n)}) => Quiet
         /\ Send({SnapshotAck(i, j, term, n)}) => Quiet
         /\ Send({AppendReject(i, m)}) => Quiet
<1>1. VoteReply("MsgPreVoteResp", i, j, term, reject).type = "MsgPreVoteResp"
  BY DEF VoteReply
<1>2. VoteReply("MsgVoteResp", i, j, term, TRUE).type = "MsgVoteResp"
      /\ VoteReply("MsgVoteResp", i, j, term, TRUE).reject
  BY DEF VoteReply
<1>3. AppendAck(i, j, term, n).type = "MsgAppendResp"
  BY DEF AppendAck
<1>4. HeartbeatReply(i, j, term, n).type = "MsgHeartbeatResp"
  BY DEF HeartbeatReply
<1>5. SnapshotAck(i, j, term, n).type = "MsgInstallSnapshotResp"
  BY DEF SnapshotAck
<1>6. AppendReject(i, m).type = "MsgAppendResp"
  BY DEF AppendReject, AppendAck
<1> QED
  BY <1>1, <1>2, <1>3, <1>4, <1>5, <1>6, ReplyQuiet

\* Only BecomeCandidate and HandleVote send votes.
LEMMA QuietActions ==
  /\ \A i \in Node : \/ LeaseExpire(i) \/ PreCampaign(i) \/ CampaignAlone(i)
                     \/ TickHeartbeat(i) \/ ReadIndex(i) \/ Restart(i)
                     \/ CrashCampaignAlone(i)
       => Quiet
  /\ \A i \in Node, c \in Command : Propose(i, c) => Quiet
  /\ \A m \in msgs : \/ StickyReject(m.to, m) \/ StaleReply(m.to, m)
                     \/ HandlePreVote(m.to, m)
       => Quiet
  /\ \A m \in msgs : \/ StepDown(m.to, m) \/ RecordVote(m.to, m)
                     \/ LoseElection(m.to, m) \/ CrashInDrain(m.to, m)
       => Quiet
  /\ \A m \in msgs : \/ WinElection(m.to, m) \/ HandleAppendAck(m.to, m)
                     \/ HandleAppendReject(m.to, m) \/ HandleHeartbeatResp(m.to, m)
                     \/ HandleSnapshotAck(m.to, m)
       => Quiet
  /\ \A m \in msgs : \/ HandleAppend(m.to, m) \/ HandleHeartbeat(m.to, m)
                     \/ HandleSnapshot(m.to, m)
       => Quiet
<1>1. UNCHANGED msgs => Quiet
  BY DEF Quiet
<1>2. ASSUME NEW i \in Node, \/ LeaseExpire(i) \/ CampaignAlone(i) \/ Restart(i)
                             \/ CrashCampaignAlone(i)
      PROVE  Quiet
  BY <1>1, <1>2 DEF LeaseExpire, CampaignAlone, Restart, CrashCampaignAlone, Reboot
<1>3. ASSUME NEW i \in Node, PreCampaign(i) PROVE Quiet
  <2>1. Send({VoteReq("MsgPreVote", i, j, Term[i] + 1) : j \in Peers(i)})
    BY <1>3 DEF PreCampaign
  <2>2. \A m \in {VoteReq("MsgPreVote", i, j, Term[i] + 1) : j \in Peers(i)} :
          m.type = "MsgPreVote"
    BY DEF VoteReq
  <2> QED
    BY <2>1, <2>2, SendQuiet
<1>4. ASSUME NEW i \in Node, TickHeartbeat(i) \/ ReadIndex(i) PROVE Quiet
  BY <1>1, <1>4, BcastQuiet, SendQuiet DEF TickHeartbeat, ReadIndex
<1>5. ASSUME NEW i \in Node, NEW c \in Command, Propose(i, c) PROVE Quiet
  <2>1. PICK lg, nxt, mat, com :
          Send(BcastAppend(i, Term[i], lg, nxt, com)
               \cup ReleasedHeartbeats(i, mat, com))
    BY <1>5 DEF Propose
  <2> QED
    BY <2>1, BcastQuiet, SendQuiet
<1>6. ASSUME NEW m \in msgs, \/ StickyReject(m.to, m) \/ StaleReply(m.to, m)
                             \/ HandlePreVote(m.to, m)
      PROVE  Quiet
  <2>1. CASE StickyReject(m.to, m)
    BY <2>1, RepliesAreQuiet DEF StickyReject
  <2>2. CASE StaleReply(m.to, m)
    <3>1. \/ Send({AppendAck(m.to, m.from, Term[m.to], 0)})
          \/ Send({HeartbeatReply(m.to, m.from, Term[m.to], 0)})
          \/ Send({SnapshotAck(m.to, m.from, Term[m.to], 0)})
          \/ Send({VoteReply("MsgPreVoteResp", m.to, m.from, Term[m.to], TRUE)})
      BY <2>2 DEF StaleReply
    <3> QED
      BY <3>1, RepliesAreQuiet
  <2>3. CASE HandlePreVote(m.to, m)
    BY <2>3, RepliesAreQuiet DEF HandlePreVote
  <2> QED
    BY <1>6, <2>1, <2>2, <2>3
<1>7. ASSUME NEW m \in msgs, \/ StepDown(m.to, m) \/ RecordVote(m.to, m)
                             \/ LoseElection(m.to, m) \/ CrashInDrain(m.to, m)
      PROVE  Quiet
  BY <1>1, <1>7 DEF StepDown, RecordVote, LoseElection, CrashInDrain, Reboot
<1>8. ASSUME NEW m \in msgs, \/ WinElection(m.to, m) \/ HandleAppendReject(m.to, m)
                             \/ HandleHeartbeatResp(m.to, m)
                             \/ HandleSnapshotAck(m.to, m)
      PROVE  Quiet
  <2>1. CASE WinElection(m.to, m)
    <3>1. PICK lg, nxt, com : Send(BcastAppend(m.to, Term[m.to], lg, nxt, com))
      BY <2>1 DEF WinElection
    <3> QED
      BY <3>1, BcastQuiet, SendQuiet
  <2>2. CASE HandleAppendReject(m.to, m)
    BY <2>2, ReplicationMsgQuiet, ReplyQuiet DEF HandleAppendReject
  <2>3. CASE HandleHeartbeatResp(m.to, m)
    <3>1. PICK n : \/ Send({})
                   \/ Send({ReplicationMsg(m.to, m.from, Term[m.to], log[m.to], n,
                                           committed[m.to])})
      BY <2>3 DEF HandleHeartbeatResp
    <3> QED
      BY <3>1, ReplicationMsgQuiet, SendQuiet, ReplyQuiet
  <2>4. CASE HandleSnapshotAck(m.to, m)
    <3>1. PICK n : Send({ReplicationMsg(m.to, m.from, Term[m.to], log[m.to], n,
                                        committed[m.to])})
      BY <2>4 DEF HandleSnapshotAck
    <3> QED
      BY <3>1, ReplicationMsgQuiet, ReplyQuiet
  <2> QED
    BY <1>8, <2>1, <2>2, <2>3, <2>4
<1>9. ASSUME NEW m \in msgs, HandleAppendAck(m.to, m) PROVE Quiet
  <2>1. PICK com :
          Send(IF com > committed[m.to]
               THEN ReleasedHeartbeats(m.to, match'[m.to], com)
                    \cup BcastAppend(m.to, Term[m.to], log[m.to], next'[m.to], com)
               ELSE {})
    BY <1>9 DEF HandleAppendAck
  <2> QED
    BY <2>1, BcastQuiet, SendQuiet
<1>10. ASSUME NEW m \in msgs, \/ HandleAppend(m.to, m) \/ HandleHeartbeat(m.to, m)
                              \/ HandleSnapshot(m.to, m)
       PROVE  Quiet
  <2>1. CASE HandleAppend(m.to, m)
    <3>1. PICK n : \/ Send({AppendAck(m.to, m.from, m.term, n)})
                   \/ Send({AppendReject(m.to, m)})
      BY <2>1 DEF HandleAppend
    <3> QED
      BY <3>1, RepliesAreQuiet
  <2>2. CASE HandleHeartbeat(m.to, m)
    BY <2>2, RepliesAreQuiet DEF HandleHeartbeat
  <2>3. CASE HandleSnapshot(m.to, m)
    <3>1. PICK n : Send({SnapshotAck(m.to, m.from, m.term, n)})
      BY <2>3 DEF HandleSnapshot
    <3> QED
      BY <3>1, RepliesAreQuiet
  <2> QED
    BY <1>10, <2>1, <2>2, <2>3
<1> QED
  BY <1>2, <1>3, <1>4, <1>5, <1>6, <1>7, <1>8, <1>9, <1>10

-----------------------------------------------------------------------------
(* What the actions do to the hard state.                                    *)

\* Ready.MustSync: a drain leaves on disk the term and the vote in memory.
LEMMA DrainDurable ==
  ASSUME TypeOK, Durable, NEW i \in Node, NEW base, Drain(i, base),
         \A j \in Node : j # i => Term'[j] = Term[j] /\ Vote'[j] = Vote[j]
  PROVE  Durable'
<1>1. hardState \in [Node -> HardState]
  BY DEF TypeOK, RoleTypeOK
<1>2. CASE MustSync(i)
  <2>1. hardState' = [hardState EXCEPT ![i] = [Term |-> Term'[i], Vote |-> Vote'[i],
                                               Commit |-> committed'[i]]]
    BY <1>2 DEF Drain
  <2> QED
    BY <1>1, <2>1 DEF Durable
<1>3. CASE ~MustSync(i)
  <2>1. hardState' = hardState /\ Term'[i] = Term[i] /\ Vote'[i] = Vote[i]
    BY <1>3 DEF Drain, MustSync
  <2> QED
    BY <2>1 DEF Durable
<1> QED
  BY <1>2, <1>3

\* becomeFollower, in a new term or with the vote of the current one.
LEMMA FollowStep ==
  ASSUME TypeOK, NEW i \in Node, NEW term \in Nat, NEW vote, NEW leader,
         BecomeFollower(i, term, vote, leader),
         \/ term > Term[i]
         \/ term = Term[i] /\ vote = Vote[i]
  PROVE  /\ VoteMonotone
         /\ \A j \in Node : j # i => Term'[j] = Term[j] /\ Vote'[j] = Vote[j]
         /\ \A j \in Node : state'[j] = Candidate =>
              state[j] = Candidate /\ Term'[j] = Term[j] /\ granted'[j] = granted[j]
<1>1. /\ Term \in [Node -> Nat] /\ Vote \in [Node -> Node \cup {None}]
      /\ DOMAIN state = Node /\ DOMAIN granted = Node
  BY DEF TypeOK, RoleTypeOK
<1>2. /\ Term' = [Term EXCEPT ![i] = term] /\ Vote' = [Vote EXCEPT ![i] = vote]
      /\ state' = [state EXCEPT ![i] = Follower]
      /\ granted' = [granted EXCEPT ![i] = {}]
  BY DEF BecomeFollower
<1>3. VoteMonotone
  BY <1>1, <1>2 DEF VoteMonotone
<1>4. ASSUME NEW j \in Node, j # i
      PROVE  Term'[j] = Term[j] /\ Vote'[j] = Vote[j] /\ granted'[j] = granted[j]
             /\ state'[j] = state[j]
  BY <1>1, <1>2, <1>4
<1>5. state'[i] = Follower /\ Follower # Candidate
  BY <1>1, <1>2 DEF Follower, Candidate
<1> QED
  BY <1>3, <1>4, <1>5

\* A restart reads back the term and the vote the node crashed with.
LEMMA RebootStep ==
  ASSUME TypeOK, Durable, NEW i \in Node, NEW lg, NEW off,
         NEW hs \in {hardState[i], Buffered(i)}, Reboot(i, lg, off, hs)
  PROVE  Durable' /\ VoteMonotone /\ Bystander
<1>1. hardState \in [Node -> HardState] /\ Term[i] \in Nat
  BY DEF TypeOK, RoleTypeOK
<1>2. hs.Term = Term[i] /\ hs.Vote = Vote[i]
  BY <1>1 DEF Durable, Buffered, HardState
<1>3. BecomeFollower(i, Term[i], Vote[i], None)
  BY <1>2 DEF Reboot
<1>4. /\ VoteMonotone
      /\ \A j \in Node : j # i => Term'[j] = Term[j] /\ Vote'[j] = Vote[j]
      /\ \A j \in Node : state'[j] = Candidate =>
           state[j] = Candidate /\ Term'[j] = Term[j] /\ granted'[j] = granted[j]
  BY <1>1, <1>3, FollowStep
<1>5. Term'[i] = Term[i] /\ Vote'[i] = Vote[i]
  BY <1>3 DEF BecomeFollower, TypeOK, RoleTypeOK
<1>6. hardState' = [hardState EXCEPT ![i] = hs]
  BY DEF Reboot
<1>7. Durable'
  BY <1>1, <1>2, <1>4, <1>5, <1>6 DEF Durable
<1>8. leaderByTerm' = leaderByTerm
  BY DEF Reboot, historyVars
<1> QED
  BY <1>4, <1>7, <1>8 DEF Bystander

\* The actions that neither vote nor count votes.
LEMMA BystanderActions ==
  ASSUME TypeOK, Durable
  PROVE  /\ \A i \in Node : \/ LeaseExpire(i) \/ PreCampaign(i) \/ TickHeartbeat(i)
                            \/ ReadIndex(i) \/ Restart(i) \/ CrashCampaignAlone(i)
              => Durable' /\ VoteMonotone /\ Bystander
         /\ \A i \in Node, c \in Command :
              Propose(i, c) => Durable' /\ VoteMonotone /\ Bystander
         /\ \A m \in msgs : \/ StickyReject(m.to, m) \/ StaleReply(m.to, m)
                            \/ HandlePreVote(m.to, m) \/ StepDown(m.to, m)
                            \/ LoseElection(m.to, m) \/ HandleAppend(m.to, m)
                            \/ HandleHeartbeat(m.to, m) \/ HandleSnapshot(m.to, m)
                            \/ HandleAppendAck(m.to, m)
                            \/ HandleAppendReject(m.to, m)
                            \/ HandleHeartbeatResp(m.to, m)
                            \/ HandleSnapshotAck(m.to, m) \/ CrashInDrain(m.to, m)
              => Durable' /\ VoteMonotone /\ Bystander
<1>m. ASSUME NEW m \in msgs
      PROVE  /\ m.to \in Node /\ m.term \in Nat /\ Term[m.to] \in Nat
  BY MessageFields DEF TypeOK, RoleTypeOK
<1>1. ASSUME UNCHANGED <<Term, Vote, hardState, state, granted, leaderByTerm>>
      PROVE  Durable' /\ VoteMonotone /\ Bystander
  BY <1>1 DEF Durable, VoteMonotone, Bystander
<1>2. ASSUME NEW i \in Node, NEW base,
             UNCHANGED <<Term, Vote, state, granted, leaderByTerm>>, Drain(i, base)
      PROVE  Durable' /\ VoteMonotone /\ Bystander
  <2>1. Durable'
    BY <1>2, DrainDurable
  <2> QED
    BY <1>2, <2>1 DEF VoteMonotone, Bystander
<1>3. ASSUME NEW i \in Node, NEW m, m.term \in Nat, m.term >= Term[i],
             FollowLeader(i, m), leaderByTerm' = leaderByTerm,
             \E base : Drain(i, base)
      PROVE  Durable' /\ VoteMonotone /\ Bystander
  <2>1. BecomeFollower(i, m.term, VoteIn(i, m.term), m.from)
    BY <1>3 DEF FollowLeader
  <2>2. \/ m.term > Term[i]
        \/ m.term = Term[i] /\ VoteIn(i, m.term) = Vote[i]
    BY <1>3 DEF VoteIn, TypeOK, RoleTypeOK
  <2>3. /\ VoteMonotone
        /\ \A j \in Node : j # i => Term'[j] = Term[j] /\ Vote'[j] = Vote[j]
        /\ \A j \in Node : state'[j] = Candidate =>
             state[j] = Candidate /\ Term'[j] = Term[j] /\ granted'[j] = granted[j]
    BY <1>3, <2>1, <2>2, FollowStep
  <2>4. Durable'
    BY <1>3, <2>3, DrainDurable
  <2> QED
    BY <1>3, <2>3, <2>4 DEF Bystander
<1>4. ASSUME NEW i \in Node, LeaseExpire(i) \/ TickHeartbeat(i) \/ ReadIndex(i)
      PROVE  Durable' /\ VoteMonotone /\ Bystander
  BY <1>1, <1>4 DEF LeaseExpire, TickHeartbeat, ReadIndex, hardVars, roleVars,
                    historyVars
<1>5. ASSUME NEW i \in Node, PreCampaign(i)
      PROVE  Durable' /\ VoteMonotone /\ Bystander
  <2>1. /\ UNCHANGED <<Term, Vote, hardState, leaderByTerm>>
        /\ state' = [state EXCEPT ![i] = PreCandidate]
        /\ granted' = [granted EXCEPT ![i] = {i}]
    BY <1>5 DEF PreCampaign, hardVars, historyVars
  <2>2. DOMAIN state = Node /\ DOMAIN granted = Node
    BY DEF TypeOK, RoleTypeOK
  <2>3. Bystander
    BY <2>1, <2>2 DEF Bystander, PreCandidate, Candidate
  <2> QED
    BY <2>1, <2>3 DEF Durable, VoteMonotone
<1>6. ASSUME NEW i \in Node, Restart(i) \/ CrashCampaignAlone(i)
      PROVE  Durable' /\ VoteMonotone /\ Bystander
  BY <1>6, RebootStep DEF Restart, CrashCampaignAlone
<1>7. ASSUME NEW i \in Node, NEW c \in Command, Propose(i, c)
      PROVE  Durable' /\ VoteMonotone /\ Bystander
  <2>1. UNCHANGED <<Term, Vote, state, granted, leaderByTerm>> /\ Drain(i, offset[i])
    BY <1>7 DEF Propose, hardVars, roleVars
  <2> QED
    BY <1>2, <2>1
<1>8. ASSUME NEW m \in msgs, \/ StickyReject(m.to, m) \/ StaleReply(m.to, m)
                             \/ HandlePreVote(m.to, m) \/ HandleAppendReject(m.to, m)
                             \/ HandleHeartbeatResp(m.to, m)
                             \/ HandleSnapshotAck(m.to, m)
      PROVE  Durable' /\ VoteMonotone /\ Bystander
  BY <1>1, <1>8
  DEF StickyReject, StaleReply, HandlePreVote, HandleAppendReject,
      HandleHeartbeatResp, HandleSnapshotAck, hardVars, roleVars, historyVars
<1>9. ASSUME NEW m \in msgs, HandleAppendAck(m.to, m)
      PROVE  Durable' /\ VoteMonotone /\ Bystander
  <2>1. /\ UNCHANGED <<Term, Vote, state, granted, leaderByTerm>>
        /\ Drain(m.to, offset[m.to])
    BY <1>9 DEF HandleAppendAck, hardVars, roleVars
  <2> QED
    BY <1>m, <1>2, <2>1
<1>10. ASSUME NEW m \in msgs, \/ StepDown(m.to, m) \/ HandleAppend(m.to, m)
                              \/ HandleHeartbeat(m.to, m) \/ HandleSnapshot(m.to, m)
       PROVE  Durable' /\ VoteMonotone /\ Bystander
  <2>1. /\ m.term >= Term[m.to] /\ FollowLeader(m.to, m)
        /\ leaderByTerm' = leaderByTerm /\ \E base : Drain(m.to, base)
    <3>m. m.to \in Node /\ m.term \in Nat /\ Term[m.to] \in Nat
      BY <1>m
    <3>1. CASE StepDown(m.to, m)
      BY <3>m, <3>1 DEF StepDown
    <3>2. CASE HandleAppend(m.to, m)
      BY <3>m, <3>2, SMTT(30) DEF HandleAppend, FromLeader
    <3>3. CASE HandleHeartbeat(m.to, m)
      BY <3>m, <3>3 DEF HandleHeartbeat, FromLeader
    <3>4. CASE HandleSnapshot(m.to, m)
      <4>1. FromLeader(m.to, m, "MsgInstallSnapshot") /\ FollowLeader(m.to, m)
        BY <3>4 DEF HandleSnapshot
      <4>2. Drain(m.to, offset[m.to]) \/ Drain(m.to, Len(m.snapshot))
        BY <3>4 DEF HandleSnapshot
      <4>3. leaderByTerm' = leaderByTerm
        BY <3>4 DEF HandleSnapshot
      <4>4. m.term >= Term[m.to]
        BY <3>m, <4>1 DEF FromLeader
      <4> QED
        BY <4>1, <4>2, <4>3, <4>4
    <3> QED
      BY <1>10, <3>1, <3>2, <3>3, <3>4
  <2> QED
    BY <1>m, <1>3, <2>1
<1>11. ASSUME NEW m \in msgs, LoseElection(m.to, m)
       PROVE  Durable' /\ VoteMonotone /\ Bystander
  <2> DEFINE i == m.to
  <2>1. /\ BecomeFollower(i, Term[i], Vote[i], None)
        /\ UNCHANGED <<hardState, leaderByTerm>>
    BY <1>11 DEF LoseElection, historyVars
  <2>2. /\ VoteMonotone
        /\ \A j \in Node : j # i => Term'[j] = Term[j] /\ Vote'[j] = Vote[j]
        /\ \A j \in Node : state'[j] = Candidate =>
             state[j] = Candidate /\ Term'[j] = Term[j] /\ granted'[j] = granted[j]
    BY <1>m, <2>1, FollowStep
  <2>3. Term'[i] = Term[i] /\ Vote'[i] = Vote[i]
    BY <1>m, <2>1 DEF BecomeFollower, TypeOK, RoleTypeOK
  <2> QED
    BY <2>1, <2>2, <2>3 DEF Durable, Bystander
<1>12. ASSUME NEW m \in msgs, CrashInDrain(m.to, m)
       PROVE  Durable' /\ VoteMonotone /\ Bystander
  BY <1>m, <1>12, RebootStep DEF CrashInDrain
<1> QED
  BY <1>4, <1>5, <1>6, <1>7, <1>8, <1>9, <1>10, <1>11, <1>12

=============================================================================
