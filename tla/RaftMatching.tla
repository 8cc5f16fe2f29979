---------------------------- MODULE RaftMatching ----------------------------
(***************************************************************************)
(* Log Matching for every set of nodes, every configuration and every value *)
(* of the bounds: each action keeps the archive of RaftArchive.             *)
(***************************************************************************)
EXTENDS RaftArchive

-----------------------------------------------------------------------------
(* One step per action.                                                      *)

\* Sends that carry no part of a log, and steps that send nothing.
LEMMA OtherSends ==
  ASSUME NEW P
  PROVE  /\ UNCHANGED msgs => Sent(P)
         /\ \A out : /\ Send(out)
                     /\ \A m \in out : m.type \notin {"MsgAppend", "MsgInstallSnapshot"}
                     => Sent(P)
BY DEF Send, Sent, Carried

\* The single replies.
LEMMA RepliesSent ==
  ASSUME NEW P, NEW i, NEW j, NEW term, NEW n, NEW reject, NEW m
  PROVE  /\ Send({VoteReply("MsgPreVoteResp", i, j, term, reject)}) => Sent(P)
         /\ Send({VoteReply("MsgVoteResp", i, j, term, reject)}) => Sent(P)
         /\ Send({AppendAck(i, j, term, n)}) => Sent(P)
         /\ Send({HeartbeatReply(i, j, term, n)}) => Sent(P)
         /\ Send({SnapshotAck(i, j, term, n)}) => Sent(P)
         /\ Send({AppendReject(i, m)}) => Sent(P)
<1>1. VoteReply("MsgPreVoteResp", i, j, term, reject).type = "MsgPreVoteResp"
  BY DEF VoteReply
<1>2. VoteReply("MsgVoteResp", i, j, term, reject).type = "MsgVoteResp"
  BY DEF VoteReply
<1>3. AppendAck(i, j, term, n).type = "MsgAppendResp"
  BY DEF AppendAck
<1>4. HeartbeatReply(i, j, term, n).type = "MsgHeartbeatResp"
  BY DEF HeartbeatReply
<1>5. SnapshotAck(i, j, term, n).type = "MsgInstallSnapshotResp"
  BY DEF SnapshotAck
<1>6. AppendReject(i, m).type = "MsgAppendResp"
  BY DEF AppendReject, AppendAck
<1>7. ASSUME NEW x, x.type \notin {"MsgAppend", "MsgInstallSnapshot"}, Send({x})
      PROVE  Sent(P)
  BY <1>7, OtherSends
<1> QED
  BY <1>1, <1>2, <1>3, <1>4, <1>5, <1>6, <1>7

\* Steps that leave roles, terms and logs alone.
LEMMA Unmoved ==
  ASSUME NEW P, Archive(P), UNCHANGED <<Term, state, log, leaderByTerm>>
  PROVE  Steady /\ Stored(P)
BY DEF Archive, Steady, Stored

\* Steps that make a node a follower and touch no other log.
LEMMA Followed ==
  ASSUME TypeOK, NEW i \in Node, NEW term, NEW vote, NEW leader,
         BecomeFollower(i, term, vote, leader), leaderByTerm' = leaderByTerm,
         \A j \in Node : j # i => log'[j] = log[j]
  PROVE  Steady
<1>1. /\ Term \in [Node -> Nat] /\ DOMAIN state = Node
      /\ Term' = [Term EXCEPT ![i] = term]
      /\ state' = [state EXCEPT ![i] = Follower]
  BY DEF TypeOK, RoleTypeOK, BecomeFollower
<1>2. state'[i] = Follower
  BY <1>1
<1>3. \A j \in Node : j # i => Term'[j] = Term[j] /\ state'[j] = state[j]
  BY <1>1
<1> QED
  BY <1>2, <1>3 DEF Steady, Follower, Candidate, Leader

\* Elections before they are won, reads, heartbeats and plain restarts.
LEMMA SteadyActions ==
  ASSUME TypeOK, NEW P, Archive(P)
  PROVE  /\ \A i \in Node : \/ LeaseExpire(i) \/ PreCampaign(i) \/ BecomeCandidate(i)
                            \/ TickHeartbeat(i) \/ ReadIndex(i) \/ Restart(i)
              => Steady /\ Stored(P) /\ Sent(P)
         /\ \A m \in msgs : \/ StickyReject(m.to, m) \/ StaleReply(m.to, m)
                            \/ StepDown(m.to, m) \/ HandlePreVote(m.to, m)
                            \/ HandleVote(m.to, m) \/ RecordVote(m.to, m)
                            \/ LoseElection(m.to, m) \/ HandleHeartbeat(m.to, m)
              => Steady /\ Stored(P) /\ Sent(P)
<1>0. /\ Term \in [Node -> Nat] /\ DOMAIN state = Node /\ DOMAIN log = Node
      /\ \A m \in msgs : m.to \in Node
      /\ \A i \in Node : log[i] \in P
  BY MessageFields DEF TypeOK, RoleTypeOK, LogTypeOK, Archive
<1>1. ASSUME NEW i \in Node, LeaseExpire(i)
      PROVE  Steady /\ Stored(P) /\ Sent(P)
  BY <1>1, Unmoved, OtherSends DEF LeaseExpire, hardVars, historyVars
<1>2. ASSUME NEW i \in Node, NEW t \in {"MsgPreVote", "MsgVote"},
             Send({VoteReq(t, i, j, Term[i] + 1) : j \in Peers(i)})
      PROVE  Sent(P)
  <2>1. \A j : VoteReq(t, i, j, Term[i] + 1).type = t
    BY DEF VoteReq
  <2> QED
    BY <1>2, <2>1, OtherSends
<1>3. ASSUME NEW i \in Node, PreCampaign(i)
      PROVE  Steady /\ Stored(P) /\ Sent(P)
  <2>1. /\ UNCHANGED <<Term, log, leaderByTerm>>
        /\ state' = [state EXCEPT ![i] = PreCandidate]
        /\ Send({VoteReq("MsgPreVote", i, j, Term[i] + 1) : j \in Peers(i)})
    BY <1>3 DEF PreCampaign, hardVars, historyVars
  <2>2. Steady /\ Stored(P)
    BY <1>0, <2>1 DEF Steady, Stored, PreCandidate, Candidate, Leader
  <2> QED
    BY <1>2, <2>1, <2>2
<1>4. ASSUME NEW i \in Node, BecomeCandidate(i)
      PROVE  Steady /\ Stored(P) /\ Sent(P)
  <2>1. /\ UNCHANGED <<log, leaderByTerm>> /\ Term' = [Term EXCEPT ![i] = @ + 1]
        /\ state' = [state EXCEPT ![i] = Candidate]
        /\ Send({VoteReq("MsgVote", i, j, Term[i] + 1) : j \in Peers(i)})
    BY <1>4 DEF BecomeCandidate
  <2>2. /\ Term'[i] > Term[i] /\ state'[i] = Candidate
        /\ \A j \in Node : j # i => Term'[j] = Term[j] /\ state'[j] = state[j]
    BY <1>0, <2>1
  <2>3. Steady
    BY <2>1, <2>2 DEF Steady, Candidate, Leader
  <2>4. Stored(P)
    BY <1>0, <2>1 DEF Stored
  <2> QED
    BY <1>2, <2>1, <2>3, <2>4
<1>5. ASSUME NEW i \in Node, NEW mat, NEW com, NEW ctx,
             Send(BcastHeartbeat(i, mat, com, ctx))
      PROVE  Sent(P)
  <2>1. \A m \in BcastHeartbeat(i, mat, com, ctx) : m.type = "MsgHeartbeat"
    BY BcastQuiet
  <2> QED
    BY <1>5, <2>1, OtherSends
<1>6. ASSUME NEW i \in Node, TickHeartbeat(i)
      PROVE  Steady /\ Stored(P) /\ Sent(P)
  <2>1. /\ UNCHANGED <<Term, state, log, leaderByTerm>>
        /\ Send(BcastHeartbeat(i, match[i], committed[i], LastPendingCtx(i)))
    BY <1>6 DEF TickHeartbeat, hardVars, roleVars, historyVars
  <2> QED
    BY <1>5, <2>1, Unmoved
<1>7. ASSUME NEW i \in Node, ReadIndex(i)
      PROVE  Steady /\ Stored(P) /\ Sent(P)
  <2>1. /\ UNCHANGED <<Term, state, log, leaderByTerm>>
        /\ \/ UNCHANGED msgs
           \/ Send(BcastHeartbeat(i, match[i], committed[i], readToken[i] + 1))
    BY <1>7 DEF ReadIndex, hardVars, roleVars
  <2> QED
    BY <1>5, <2>1, Unmoved, OtherSends
<1>8. ASSUME NEW i \in Node, Restart(i)
      PROVE  Steady /\ Stored(P) /\ Sent(P)
  <2>1. PICK hs : Reboot(i, log[i], offset[i], hs)
    BY <1>8 DEF Restart
  <2>2. /\ BecomeFollower(i, hs.Term, hs.Vote, None)
        /\ log' = [log EXCEPT ![i] = log[i]] /\ UNCHANGED <<msgs, leaderByTerm>>
    BY <2>1 DEF Reboot, historyVars
  <2>3. \A j \in Node : log'[j] = log[j]
    BY <1>0, <2>2
  <2> QED
    BY <1>0, <2>2, <2>3, Followed, OtherSends DEF Stored
<1>9. ASSUME NEW m \in msgs, StickyReject(m.to, m) \/ HandlePreVote(m.to, m)
                             \/ StaleReply(m.to, m) \/ RecordVote(m.to, m)
      PROVE  Steady /\ Stored(P) /\ Sent(P)
  <2>1. UNCHANGED <<Term, state, log, leaderByTerm>>
    BY <1>9 DEF StickyReject, HandlePreVote, StaleReply, RecordVote, hardVars,
                roleVars, historyVars
  <2>2. CASE StickyReject(m.to, m) \/ HandlePreVote(m.to, m)
    <3>1. Sent(P)
      BY <2>2, RepliesSent DEF StickyReject, HandlePreVote
    <3> QED
      BY <2>1, <3>1, Unmoved
  <2>3. CASE StaleReply(m.to, m)
    <3>1. Sent(P)
      BY <2>3, RepliesSent DEF StaleReply
    <3> QED
      BY <2>1, <3>1, Unmoved
  <2>4. CASE RecordVote(m.to, m)
    BY <2>1, <2>4, Unmoved, OtherSends DEF RecordVote
  <2> QED
    BY <1>9, <2>2, <2>3, <2>4
<1>10. ASSUME NEW m \in msgs, StepDown(m.to, m) \/ LoseElection(m.to, m)
       PROVE  Steady /\ Stored(P) /\ Sent(P)
  <2>1. /\ \E term, vote, leader : BecomeFollower(m.to, term, vote, leader)
        /\ UNCHANGED <<log, leaderByTerm, msgs>>
    BY <1>10 DEF StepDown, FollowLeader, LoseElection, historyVars
  <2> QED
    BY <1>0, <2>1, Followed, OtherSends DEF Stored
<1>11. ASSUME NEW m \in msgs, HandleHeartbeat(m.to, m)
       PROVE  Steady /\ Stored(P) /\ Sent(P)
  <2>1. /\ BecomeFollower(m.to, m.term, VoteIn(m.to, m.term), m.from)
        /\ UNCHANGED <<log, leaderByTerm>>
        /\ Send({HeartbeatReply(m.to, m.from, m.term, m.context)})
    BY <1>11 DEF HandleHeartbeat, FollowLeader
  <2> QED
    BY <1>0, <2>1, Followed, RepliesSent DEF Stored
<1>12. ASSUME NEW m \in msgs, HandleVote(m.to, m)
       PROVE  Steady /\ Stored(P) /\ Sent(P)
  <2>1. /\ UNCHANGED <<log, leaderByTerm>>
        /\ \E reject : Send({VoteReply("MsgVoteResp", m.to, m.from, m.term, reject)})
        /\ \/ \E vote : BecomeFollower(m.to, m.term, vote, None)
           \/ UNCHANGED <<Term, state>>
    BY <1>12 DEF HandleVote
  <2>2. Sent(P)
    BY <2>1, RepliesSent
  <2>3. CASE \E vote : BecomeFollower(m.to, m.term, vote, None)
    BY <1>0, <2>1, <2>2, <2>3, Followed DEF Stored
  <2>4. CASE UNCHANGED <<Term, state>>
    BY <2>1, <2>2, <2>4, Unmoved
  <2> QED
    BY <2>1, <2>3, <2>4
<1> QED
  BY <1>1, <1>3, <1>4, <1>6, <1>7, <1>8, <1>9, <1>10, <1>11, <1>12

\* findConflict yields one position.
LEMMA OneConflict ==
  ASSUME NEW i, NEW m, Len(m.entries) \in Nat,
         NEW k \in FindConflict(i, m), NEW c \in FindConflict(i, m)
  PROVE  k = c
<1>1. /\ k \in 1..Len(m.entries) /\ c \in 1..Len(m.entries)
      /\ ~MatchTerm(i, m.logIndex + k, m.entries[k].term)
      /\ ~MatchTerm(i, m.logIndex + c, m.entries[c].term)
      /\ \A j \in 1..(k - 1) : MatchTerm(i, m.logIndex + j, m.entries[j].term)
      /\ \A j \in 1..(c - 1) : MatchTerm(i, m.logIndex + j, m.entries[j].term)
  BY DEF FindConflict
<1>2. c \notin 1..(k - 1) /\ k \notin 1..(c - 1)
  BY <1>1
<1>3. k \in Nat /\ c \in Nat /\ k > 0 /\ c > 0
  BY <1>1
<1> QED
  BY <1>2, <1>3

\* What a follower stores, also when it crashes before the batch is complete.
LEMMA FollowerActions ==
  ASSUME TypeOK, NEW P, Archive(P), NEW m \in msgs,
         \/ HandleAppend(m.to, m) \/ HandleSnapshot(m.to, m) \/ CrashInDrain(m.to, m)
  PROVE  Steady /\ Stored(P) /\ Sent(P)
<1> DEFINE i == m.to
<1>0. /\ m \in Message /\ i \in Node /\ DOMAIN log = Node
      /\ Logs(P) /\ \A j \in Node : log[j] \in P
      /\ Carried(P, m)
  BY MessageFields DEF TypeOK, LogTypeOK, Archive
<1> HIDE DEF i
<1>1. ASSUME NEW lg \in P, log' = [log EXCEPT ![i] = lg]
      PROVE  Stored(P) /\ \A j \in Node : j # i => log'[j] = log[j]
  BY <1>0, <1>1 DEF Stored
<1>2. UNCHANGED log => Stored(P) /\ \A j \in Node : j # i => log'[j] = log[j]
  BY <1>0 DEF Stored
<1>3. CASE HandleAppend(i, m)
  <2>1. /\ m.type = "MsgAppend"
        /\ BecomeFollower(i, m.term, VoteIn(i, m.term), m.from)
        /\ leaderByTerm' = leaderByTerm
        /\ \/ UNCHANGED log
           \/ AppendAccepted(i, m)
              /\ log' = [log EXCEPT ![i] = Spliced(i, m, Len(m.entries))]
    BY <1>3 DEF HandleAppend, FromLeader, Received, FollowLeader
  <2>2. Sent(P)
    BY <1>3, RepliesSent DEF HandleAppend
  <2>3. CASE UNCHANGED log
    BY <1>0, <1>2, <2>1, <2>2, <2>3, Followed
  <2>4. CASE AppendAccepted(i, m)
             /\ log' = [log EXCEPT ![i] = Spliced(i, m, Len(m.entries))]
    <3>1. m.entries \in Seq(Entry)
      BY <1>0, <2>1 DEF Message
    <3>2. Len(m.entries) \in Nat
      BY <3>1, LenProperties
    <3>3. \A k \in FindConflict(i, m) : k <= Len(m.entries)
      BY <3>2 DEF FindConflict
    <3>4. MatchTerm(i, m.logIndex, m.logTerm)
      BY <2>4 DEF AppendAccepted
    <3>5. Len(m.entries) <= Len(m.entries)
      BY <3>2
    <3>6. Spliced(i, m, Len(m.entries)) \in P
      BY <1>0, <2>1, <3>2, <3>3, <3>4, <3>5, SplicedIn
    <3>7. Stored(P) /\ \A j \in Node : j # i => log'[j] = log[j]
      BY <1>1, <2>4, <3>6
    <3> QED
      BY <1>0, <2>1, <2>2, <3>7, Followed
  <2> QED
    BY <2>1, <2>3, <2>4
<1>4. CASE HandleSnapshot(i, m)
  <2>1. /\ m.type = "MsgInstallSnapshot"
        /\ BecomeFollower(i, m.term, VoteIn(i, m.term), m.from)
        /\ leaderByTerm' = leaderByTerm
        /\ UNCHANGED log \/ log' = [log EXCEPT ![i] = m.snapshot]
    BY <1>4 DEF HandleSnapshot, FromLeader, Received, FollowLeader
  <2>2. Sent(P)
    BY <1>4, RepliesSent DEF HandleSnapshot
  <2>3. m.snapshot \in P
    BY <1>0, <2>1 DEF Carried
  <2>4. Stored(P) /\ \A j \in Node : j # i => log'[j] = log[j]
    BY <1>1, <1>2, <2>1, <2>3
  <2> QED
    BY <1>0, <2>1, <2>2, <2>4, Followed
<1>5. CASE CrashInDrain(i, m)
  <2>1. ASSUME NEW lg \in P, NEW off, NEW hs, Reboot(i, lg, off, hs)
        PROVE  Steady /\ Stored(P) /\ Sent(P)
    <3>1. /\ BecomeFollower(i, hs.Term, hs.Vote, None)
          /\ log' = [log EXCEPT ![i] = lg] /\ UNCHANGED <<msgs, leaderByTerm>>
      BY <2>1 DEF Reboot, historyVars
    <3>2. Stored(P) /\ \A j \in Node : j # i => log'[j] = log[j]
      BY <1>1, <3>1
    <3> QED
      BY <1>0, <3>1, <3>2, Followed, OtherSends
  <2>2. CASE /\ FromLeader(i, m, "MsgAppend") /\ AppendAccepted(i, m)
             /\ \E k \in FindConflict(i, m) : \E n \in k..Len(m.entries) :
                  Reboot(i, Spliced(i, m, n), offset[i], Buffered(i))
    <3>1. m.type = "MsgAppend" /\ MatchTerm(i, m.logIndex, m.logTerm)
      BY <2>2 DEF FromLeader, Received, AppendAccepted
    <3>2. m.entries \in Seq(Entry)
      BY <1>0, <3>1 DEF Message
    <3>3. Len(m.entries) \in Nat
      BY <3>2, LenProperties
    <3>4. PICK k \in FindConflict(i, m) : \E n \in k..Len(m.entries) :
            Reboot(i, Spliced(i, m, n), offset[i], Buffered(i))
      BY <2>2
    <3>5. PICK n \in k..Len(m.entries) :
            Reboot(i, Spliced(i, m, n), offset[i], Buffered(i))
      BY <3>4
    <3>6. k \in 1..Len(m.entries)
      BY DEF FindConflict
    <3>7. n \in Nat /\ n <= Len(m.entries) /\ k <= n
      BY <3>3, <3>6
    <3>8. \A c \in FindConflict(i, m) : c <= n
      BY <3>3, <3>7, OneConflict
    <3>9. Spliced(i, m, n) \in P
      BY <1>0, <3>1, <3>7, <3>8, SplicedIn
    <3> QED
      BY <2>1, <3>5, <3>9
  <2>3. CASE /\ FromLeader(i, m, "MsgInstallSnapshot")
             /\ Reboot(i, m.snapshot, Len(m.snapshot), hardState[i])
    <3>1. m.snapshot \in P
      BY <1>0, <2>3 DEF FromLeader, Received, Carried
    <3> QED
      BY <2>1, <2>3, <3>1
  <2> QED
    BY <1>5, <2>2, <2>3 DEF CrashInDrain
<1> QED
  BY <1>3, <1>4, <1>5 DEF i

\* What a leader sends when its followers answer.
LEMMA LeaderActions ==
  ASSUME TypeOK, TypeOK', NEW P, Archive(P), NEW m \in msgs,
         \/ HandleAppendAck(m.to, m) \/ HandleAppendReject(m.to, m)
         \/ HandleHeartbeatResp(m.to, m) \/ HandleSnapshotAck(m.to, m)
  PROVE  Steady /\ Stored(P) /\ Sent(P)
<1> DEFINE i == m.to
<1>0. /\ i \in Node /\ m.from \in Node /\ Logs(P) /\ log[i] \in P
      /\ next \in [Node -> [Node -> Nat \ {0}]]
      /\ next' \in [Node -> [Node -> Nat \ {0}]]
  BY MessageFields DEF TypeOK, LogTypeOK, Archive
<1> HIDE DEF i
<1>1. UNCHANGED <<Term, state, log, leaderByTerm>>
  BY DEF HandleAppendAck, HandleAppendReject, HandleHeartbeatResp,
         HandleSnapshotAck, hardVars, roleVars, historyVars
<1>2. Steady /\ Stored(P)
  BY <1>1, Unmoved
<1>3. ASSUME NEW n \in Nat \ {0},
             Send({ReplicationMsg(i, m.from, Term[i], log[i], n, committed[i])})
      PROVE  Sent(P)
  <2>1. Carried(P, ReplicationMsg(i, m.from, Term[i], log[i], n, committed[i]))
    BY <1>0, ReplicationMsgCarried
  <2> QED
    BY <1>3, <2>1 DEF Send, Sent
<1>4. CASE HandleAppendAck(i, m)
  <2>1. PICK com : Send(IF com > committed[i]
                        THEN ReleasedHeartbeats(i, match'[i], com)
                             \cup BcastAppend(i, Term[i], log[i], next'[i], com)
                        ELSE {})
    BY <1>4 DEF HandleAppendAck
  <2>2. \A x \in ReleasedHeartbeats(i, match'[i], com) : Carried(P, x)
    <3>1. \A x \in ReleasedHeartbeats(i, match'[i], com) : x.type = "MsgHeartbeat"
      BY BcastQuiet
    <3> QED
      BY <3>1 DEF Carried
  <2>3. next'[i] \in [Node -> Nat \ {0}]
    BY <1>0
  <2>4. \A x \in BcastAppend(i, Term[i], log[i], next'[i], com) : Carried(P, x)
    BY <1>0, <2>3, BcastAppendCarried
  <2> QED
    BY <1>2, <2>1, <2>2, <2>4 DEF Send, Sent
<1>5. CASE HandleAppendReject(i, m)
  <2> DEFINE n == DecrHint(i, m) + 1
  <2>1. /\ next' = [next EXCEPT ![i][m.from] = n]
        /\ Send({ReplicationMsg(i, m.from, Term[i], log[i], n, committed[i])})
    BY <1>5 DEF HandleAppendReject
  <2> HIDE DEF n
  <2>2. n = next'[i][m.from]
    BY <1>0, <2>1
  <2>3. n \in Nat \ {0}
    BY <1>0, <2>2
  <2> QED
    BY <1>2, <1>3, <2>1, <2>3
<1>6. CASE HandleHeartbeatResp(i, m)
  <2>1. \/ Send({ReplicationMsg(i, m.from, Term[i], log[i], next[i][m.from],
                                committed[i])})
        \/ Send({})
    BY <1>6 DEF HandleHeartbeatResp
  <2>2. next[i][m.from] \in Nat \ {0}
    BY <1>0
  <2> QED
    BY <1>2, <1>3, <2>1, <2>2 DEF Send, Sent
<1>7. CASE HandleSnapshotAck(i, m)
  <2>1. Send({ReplicationMsg(i, m.from, Term[i], log[i], next'[i][m.from],
                             committed[i])})
    BY <1>7 DEF HandleSnapshotAck
  <2>2. next'[i][m.from] \in Nat \ {0}
    BY <1>0
  <2> QED
    BY <1>2, <1>3, <2>1, <2>2
<1> QED
  BY <1>4, <1>5, <1>6, <1>7 DEF i

\* What a leader sends of a log it has just written.
LEMMA GrownSent ==
  ASSUME TypeOK, NEW P, Archive(P), NEW i \in Node, NEW e \in Entry, NEW lg,
         lg = Append(log[i], e), NEW nxt \in [Node -> Nat \ {0}], NEW com, NEW mat,
         \A L \in P : \A k \in 1..Len(L) : L[k].term = e.term => k <= Len(log[i]),
         NEW term, \/ Send(BcastAppend(i, term, lg, nxt, com))
                   \/ Send(BcastAppend(i, term, lg, nxt, com)
                           \cup ReleasedHeartbeats(i, mat, com))
  PROVE  Sent(P \cup {lg})
<1>1. Logs(P \cup {lg})
  BY Grown DEF Archive
<1>2. lg \in P \cup {lg}
  OBVIOUS
<1>3. \A m \in BcastAppend(i, term, lg, nxt, com) : Carried(P \cup {lg}, m)
  BY <1>1, <1>2, BcastAppendCarried
<1>4. \A m \in ReleasedHeartbeats(i, mat, com) : m.type = "MsgHeartbeat"
  BY BcastQuiet
<1>5. \A m \in ReleasedHeartbeats(i, mat, com) : Carried(P \cup {lg}, m)
  BY <1>4 DEF Carried
<1> QED
  BY <1>3, <1>5 DEF Send, Sent

\* The leader of a term is the only one to write entries of it.
LEMMA ProposeStep ==
  ASSUME TypeInv, TypeOK', ElectionSafety, Incumbents, NEW P, Archive(P),
         NEW i \in Node, NEW c \in Command, Propose(i, c)
  PROVE  Incumbents' /\ \E Q : Archive(Q)'
<1> DEFINE e == [term |-> Term[i], data |-> c]
<1>1. PICK lg : lg = Append(log[i], e)
  OBVIOUS
<1>2. PICK nxt, com, mat :
        /\ next' = [next EXCEPT ![i] = nxt]
        /\ Send(BcastAppend(i, Term[i], lg, nxt, com)
                \cup ReleasedHeartbeats(i, mat, com))
  BY <1>1 DEF Propose
<1>3. /\ state[i] = Leader /\ log' = [log EXCEPT ![i] = lg]
      /\ UNCHANGED <<Term, state, leaderByTerm>>
  BY <1>1 DEF Propose, hardVars, roleVars
<1>4. TypeOK /\ Term[i] \in Nat \ {0}
  BY <1>3 DEF TypeInv, TypeOK, RoleTypeOK, CampaignTerms
<1>5. e \in Entry /\ e.term = Term[i]
  BY <1>4 DEF Entry
<1>6. nxt \in [Node -> Nat \ {0}]
  <2>1. next \in [Node -> [Node -> Nat \ {0}]] /\ next' \in [Node -> [Node -> Nat \ {0}]]
    BY <1>4 DEF TypeOK, LogTypeOK
  <2>2. next'[i] = nxt
    BY <1>2, <2>1
  <2> QED
    BY <2>1, <2>2
<1> HIDE DEF e
<1>7. \A L \in P : \A k \in 1..Len(L) : L[k].term = e.term => k <= Len(log[i])
  BY <1>3, <1>5 DEF Archive, Owned
<1>8. Sent(P \cup {lg})
  BY <1>1, <1>2, <1>4, <1>5, <1>6, <1>7, GrownSent
<1>9. <<e.term, i>> \in leaderByTerm
  BY <1>3, <1>5 DEF Incumbents
<1>10. ASSUME NEW j \in Node, j # i, state[j] = Leader PROVE Term[j] # e.term
  <2>1. <<Term[j], j>> \in leaderByTerm
    BY <1>10 DEF Incumbents
  <2> QED
    BY <1>9, <1>10, <2>1 DEF ElectionSafety
<1>11. \A j \in Node : state'[j] = Leader =>
         \/ j = i /\ Term'[i] = e.term
         \/ state[j] = Leader /\ Term'[j] = Term[j] /\ Term[j] # e.term
  BY <1>3, <1>5, <1>10
<1>12. Grows(P, i, e, lg)
  BY <1>1, <1>3, <1>7, <1>9, <1>11 DEF Grows
<1>13. \E Q : Archive(Q)'
  BY <1>4, <1>5, <1>8, <1>12, GrowthStep
<1>14. Incumbents'
  BY <1>3 DEF Incumbents
<1> QED
  BY <1>13, <1>14

\* Nobody has written in the term of a candidate that wins.
LEMMA VictoryStep ==
  ASSUME TypeInv, TypeOK', ElectionSafety', Incumbents, NEW P, Archive(P),
         NEW m \in msgs, WinElection(m.to, m)
  PROVE  Incumbents' /\ \E Q : Archive(Q)'
<1> DEFINE i == m.to
           e == [term |-> Term[i], data |-> Noop]
<1>1. PICK lg : lg = Append(log[i], e)
  OBVIOUS
<1>2. /\ state[i] = Candidate /\ UNCHANGED <<Term>> /\ BecomeLeader(i, Term[i])
      /\ Send(BcastAppend(i, Term[i], log'[i], next'[i], committed'[i]))
  BY DEF WinElection, hardVars
<1>3. /\ TypeOK /\ i \in Node /\ Term[i] \in Nat \ {0} /\ DOMAIN state = Node
      /\ DOMAIN log = Node
  <2>1. TypeOK /\ CampaignTerms
    BY DEF TypeInv
  <2>2. i \in Node
    BY <2>1, MessageFields DEF TypeOK
  <2> HIDE DEF i
  <2>3. Term[i] \in Nat /\ Term[i] > 0
    BY <1>2, <2>1, <2>2 DEF TypeOK, RoleTypeOK, CampaignTerms
  <2>4. DOMAIN state = Node /\ DOMAIN log = Node
    BY <2>1 DEF TypeOK, RoleTypeOK, LogTypeOK
  <2> QED
    BY <2>1, <2>2, <2>3, <2>4
<1> HIDE DEF i
<1>4. /\ state' = [state EXCEPT ![i] = Leader] /\ log' = [log EXCEPT ![i] = lg]
      /\ leaderByTerm' = leaderByTerm \cup {<<Term[i], i>>}
  BY <1>1, <1>2 DEF BecomeLeader
<1>5. e \in Entry /\ e.term = Term[i]
  BY <1>3 DEF Entry
<1> HIDE DEF e
<1>6. <<Term[i], i>> \in leaderByTerm' /\ <<Term[i], i>> \notin leaderByTerm
  BY <1>2, <1>3, <1>4 DEF Incumbents
<1>7. ASSUME NEW j \in Node PROVE <<Term[i], j>> \notin leaderByTerm
  <2>1. <<Term[i], j>> \in leaderByTerm => j = i
    BY <1>4, <1>6 DEF ElectionSafety
  <2> QED
    BY <1>6, <2>1
<1>8. \A L \in P : \A k \in 1..Len(L) : L[k].term = e.term => k <= Len(log[i])
  BY <1>5, <1>7 DEF Archive, Authored
<1>9. next'[i] \in [Node -> Nat \ {0}] /\ log'[i] = lg
  BY <1>3, <1>4 DEF TypeOK, LogTypeOK
<1>10. Sent(P \cup {lg})
  <2>1. Send(BcastAppend(i, Term[i], lg, next'[i], committed'[i]))
    BY <1>2, <1>9
  <2>2. PICK nxt, com : /\ nxt \in [Node -> Nat \ {0}]
                        /\ Send(BcastAppend(i, Term[i], lg, nxt, com))
    BY <1>9, <2>1
  <2> QED
    BY <1>1, <1>3, <1>5, <1>8, <2>2, GrownSent
<1>11. /\ state'[i] = Leader
       /\ \A j \in Node : j # i => state'[j] = state[j]
  BY <1>3, <1>4
<1>12. \A j \in Node : state[j] = Leader => Term[j] # Term[i]
  BY <1>7 DEF Incumbents
<1>13. \A j \in Node : state'[j] = Leader =>
         \/ j = i /\ Term'[i] = e.term
         \/ state[j] = Leader /\ Term'[j] = Term[j] /\ Term[j] # e.term
  BY <1>2, <1>5, <1>11, <1>12
<1>14. leaderByTerm \subseteq leaderByTerm' /\ <<e.term, i>> \in leaderByTerm'
  BY <1>4, <1>5
<1>15. Grows(P, i, e, lg)
  BY <1>1, <1>4, <1>8, <1>13, <1>14 DEF Grows
<1>16. \E Q : Archive(Q)'
  BY <1>3, <1>5, <1>10, <1>15, GrowthStep
<1>17. Incumbents'
  <2>1. \A a \in leaderByTerm' : a[1] <= Term'[a[2]]
    BY <1>2, <1>3, <1>4 DEF Incumbents
  <2>2. ASSUME NEW j \in Node, state'[j] = Candidate
        PROVE  <<Term'[j], j>> \notin leaderByTerm'
    <3>1. j # i
      BY <1>11, <2>2 DEF Candidate, Leader
    <3>2. <<Term[j], j>> \notin leaderByTerm
      BY <1>11, <2>2, <3>1 DEF Incumbents
    <3> QED
      BY <1>2, <1>4, <3>1, <3>2
  <2>3. ASSUME NEW j \in Node, state'[j] = Leader
        PROVE  <<Term'[j], j>> \in leaderByTerm'
    BY <1>2, <1>4, <1>11, <2>3 DEF Incumbents
  <2> QED
    BY <2>1, <2>2, <2>3 DEF Incumbents
<1> QED
  BY <1>16, <1>17

-----------------------------------------------------------------------------
(* The theorem.                                                              *)

\* The empty log is all there is at the start.
LEMMA MatchInit == Init => MatchInv
<1> SUFFICES ASSUME Init PROVE MatchInv
  OBVIOUS
<1>1. Incumbents
  BY DEF Init, Incumbents, Follower, Candidate, Leader
<1>2. PICK P : P = {<<>>}
  OBVIOUS
<1>3. <<>> \in Seq(Entry) /\ Len(<<>>) = 0
  BY EmptySeq
<1>4. SubSeq(<<>>, 1, 0) = <<>>
  BY SubSeqEmpty
<1>5. PrefixClosed(P) /\ Matching(P)
  BY <1>2, <1>3, <1>4 DEF PrefixClosed, Matching
<1>6. Logs(P)
  BY <1>2, <1>3, <1>5 DEF Logs
<1>7. Authored(P) /\ Owned(P)
  BY <1>2, <1>3 DEF Authored, Owned
<1>8. Archive(P)
  BY <1>2, <1>6, <1>7 DEF Init, Archive
<1> QED
  BY <1>1, <1>8 DEF MatchInv

\* Every action extends the archive or leaves it alone.
LEMMA MatchNext ==
  ASSUME TypeInv, TypeInv', VoteInv, ElectionSafety, ElectionSafety', MatchInv, Next
  PROVE  MatchInv'
<1> SUFFICES ASSUME Quorum > 1 PROVE Incumbents' /\ \E P : Archive(P)'
  BY DEF MatchInv
<1>0. TypeOK /\ TypeOK' /\ VoteMonotone
  BY VoteNext DEF TypeInv
<1>1. PICK P : Archive(P)
  BY DEF MatchInv
<1>2. Incumbents
  BY DEF MatchInv
<1>3. ASSUME Steady /\ Stored(P) /\ Sent(P) PROVE Incumbents' /\ \E Q : Archive(Q)'
  BY <1>0, <1>1, <1>2, <1>3, SteadyStep, SteadyIncumbents
<1>4. CASE \E i \in Node : \/ LeaseExpire(i) \/ PreCampaign(i) \/ Campaign(i)
                           \/ TickHeartbeat(i) \/ ReadIndex(i) \/ Restart(i)
  BY <1>0, <1>1, <1>3, <1>4, SteadyActions DEF Campaign
<1>5. CASE \E m \in msgs : \/ StickyReject(m.to, m) \/ StaleReply(m.to, m)
                           \/ StepDown(m.to, m) \/ HandlePreVote(m.to, m)
                           \/ HandleVote(m.to, m) \/ RecordVote(m.to, m)
                           \/ LoseElection(m.to, m) \/ HandleHeartbeat(m.to, m)
  BY <1>0, <1>1, <1>3, <1>5, SteadyActions
<1>6. CASE \E m \in msgs : WinPreVote(m.to, m)
  <2>1. PICK m \in msgs : m.to \in Node /\ BecomeCandidate(m.to)
    BY <1>0, <1>6, MessageFields DEF WinPreVote, TypeOK
  <2> QED
    BY <1>0, <1>1, <1>3, <2>1, SteadyActions
<1>7. CASE \E m \in msgs : \/ HandleAppend(m.to, m) \/ HandleSnapshot(m.to, m)
                           \/ CrashInDrain(m.to, m)
  BY <1>0, <1>1, <1>3, <1>7, FollowerActions
<1>8. CASE \E m \in msgs : \/ HandleAppendAck(m.to, m) \/ HandleAppendReject(m.to, m)
                           \/ HandleHeartbeatResp(m.to, m)
                           \/ HandleSnapshotAck(m.to, m)
  BY <1>0, <1>1, <1>3, <1>8, LeaderActions
<1>9. CASE \E i \in Node, c \in Command : Propose(i, c)
  BY <1>0, <1>1, <1>2, <1>9, ProposeStep
<1>10. CASE \E m \in msgs : WinElection(m.to, m)
  BY <1>0, <1>1, <1>2, <1>10, VictoryStep
<1>11. CASE \E i \in Node : CampaignAlone(i) \/ CrashCampaignAlone(i)
  BY <1>11, QuorumType DEF CampaignAlone, CrashCampaignAlone
<1> QED
  BY <1>4, <1>5, <1>6, <1>7, <1>8, <1>9, <1>10, <1>11 DEF Next

\* Log Matching: in every execution two logs that agree on the term at an index
\* agree on every entry up to it, for every cluster, batch size and compaction
\* threshold, with messages lost, repeated and reordered, with snapshots installed
\* in between and with crashes that leave part of a batch on disk.
THEOREM LogsMatch == Spec => []LogMatching
<1>1. /\ TypeInv /\ VoteInv /\ ElectionSafety /\ MatchInv
      /\ TypeInv' /\ ElectionSafety' /\ [Next]_vars
      => MatchInv'
  <2> SUFFICES ASSUME TypeInv, VoteInv, ElectionSafety, MatchInv, TypeInv',
                      ElectionSafety', [Next]_vars
               PROVE  MatchInv'
    OBVIOUS
  <2>1. CASE UNCHANGED vars
    <3>1. UNCHANGED <<Term, state, log, leaderByTerm, msgs>>
      BY <2>1 DEF vars, hardVars, roleVars, historyVars
    <3> QED
      BY <3>1 DEF MatchInv, Incumbents, Archive, Authored, Owned
  <2> QED
    BY <2>1, MatchNext
<1>2. TypeInv /\ MatchInv => LogMatching
  BY ArchiveMatches DEF TypeInv
<1> QED
  BY <1>1, <1>2, MatchInit, VoteInvariant, AtMostOneLeader, PTL DEF Spec
=============================================================================
