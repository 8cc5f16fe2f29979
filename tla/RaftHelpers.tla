---------------------------- MODULE RaftHelpers -----------------------------
(***************************************************************************)
(* Proofs about Raft for every set of nodes, every configuration and every  *)
(* value of the bounds: the operators the actions are built from.           *)
(***************************************************************************)
EXTENDS Raft, TLAPS, FiniteSetTheorems, SequenceTheorems

-----------------------------------------------------------------------------
(* The operators the actions are built from.                                 *)

\* The quorum is a number, and it is positive.
LEMMA QuorumType == Quorum \in Nat /\ Quorum > 0 /\ Cardinality(Node) \in Nat
BY NodeAssumption, FS_CardinalityType DEF Quorum

\* Two quorums share a node: what elections and commitment both rest on.
LEMMA QuorumsIntersect ==
  ASSUME NEW P \in SUBSET Node, NEW Q \in SUBSET Node,
         Cardinality(P) >= Quorum, Cardinality(Q) >= Quorum
  PROVE  \E v \in Node : v \in P /\ v \in Q
<1>1. Cardinality(P) \in Nat /\ Cardinality(Q) \in Nat
  BY NodeAssumption, FS_Subset, FS_CardinalityType
<1>2. Cardinality(P) + Cardinality(Q) > Cardinality(Node)
  BY <1>1, QuorumType DEF Quorum
<1>3. P \cap Q # {}
  BY <1>2, NodeAssumption, FS_MajoritiesIntersect
<1> QED
  BY <1>3

\* raftLog.term yields a term.
LEMMA TermOfType ==
  ASSUME NEW lg \in Seq(Entry), NEW off \in Nat, NEW k \in Nat
  PROVE  TermOf(lg, off, k) \in Nat
<1>1. CASE k = 0 \/ k < off \/ k > Len(lg)
  BY <1>1 DEF TermOf
<1>2. CASE ~(k = 0 \/ k < off \/ k > Len(lg))
  <2>1. k \in 1..Len(lg)
    BY <1>2
  <2>2. lg[k] \in Entry
    BY <2>1, ElementOfSeq
  <2> QED
    BY <1>2, <2>2 DEF TermOf, Entry
<1> QED
  BY <1>1, <1>2

\* A slice within a sequence has the sequence's type.
LEMMA SliceType ==
  ASSUME NEW S, NEW s \in Seq(S), NEW m \in Nat \ {0}, NEW n \in Int, n <= Len(s)
  PROVE  SubSeq(s, m, n) \in Seq(S)
<1>1. \A k \in m..n : s[k] \in S
  BY ElementOfSeq
<1> QED
  BY <1>1, SubSeqProperties

\* A prefix of a log is a log.
LEMMA PrefixType ==
  ASSUME NEW S, NEW s \in Seq(S), NEW n \in Int
  PROVE  Prefix(s, n) \in Seq(S)
BY SliceType DEF Prefix, Lesser

\* The commit index a leader computes is a number.
LEMMA CommitIndexType ==
  ASSUME NEW mat \in [Node -> Nat], NEW lg, NEW off, NEW com \in Nat, NEW t
  PROVE  CommitIndex(mat, lg, off, com, t) \in Nat
BY DEF CommitIndex

\* The walk back over terms ends at an index.
LEMMA LastAtMostType ==
  ASSUME NEW lg, NEW off, NEW n \in Nat, NEW t
  PROVE  LastAtMost(lg, off, n, t) \in Nat
BY DEF LastAtMost

-----------------------------------------------------------------------------
(* Every message a node builds is well formed.                               *)

\* What the handlers may rely on for any message.
LEMMA MessageFields ==
  ASSUME NEW m \in Message
  PROVE  m.from \in Node /\ m.to \in Node /\ m.term \in Nat
BY DEF Message

\* solicitVotes builds messages of their type.
LEMMA VoteReqType ==
  ASSUME TypeOK, NEW t \in {"MsgPreVote", "MsgVote"}, NEW i \in Node,
         NEW j \in Node, NEW term \in Nat
  PROVE  VoteReq(t, i, j, term) \in Message
<1>1. Len(log[i]) \in Nat /\ LastTerm(i) \in Nat
  BY TermOfType, LenProperties DEF TypeOK, LogTypeOK, LastTerm
<1> QED
  BY <1>1 DEF VoteReq, Message

\* So do the handlers that answer a request.
LEMMA ReplyTypes ==
  ASSUME NEW i \in Node, NEW j \in Node, NEW term \in Nat, NEW n \in Nat,
         NEW t \in {"MsgPreVoteResp", "MsgVoteResp"}, NEW reject \in BOOLEAN
  PROVE  /\ VoteReply(t, i, j, term, reject) \in Message
         /\ AppendAck(i, j, term, n) \in Message
         /\ HeartbeatReply(i, j, term, n) \in Message
         /\ SnapshotAck(i, j, term, n) \in Message
BY DEF VoteReply, AppendAck, HeartbeatReply, SnapshotAck, Message

\* The rejection handleAppend sends carries a hint and its term.
LEMMA AppendRejectType ==
  ASSUME TypeOK, NEW i \in Node, NEW m \in Message, m.type = "MsgAppend"
  PROVE  AppendReject(i, m) \in Message
<1>1. m.logIndex \in Nat /\ m.logTerm \in Nat /\ m.from \in Node /\ m.term \in Nat
  BY DEF Message
<1>2. Lesser(m.logIndex, Len(log[i])) \in Nat
  BY <1>1, LenProperties DEF TypeOK, LogTypeOK, Lesser
<1> DEFINE hint == LastAtMost(log[i], offset[i],
                              Lesser(m.logIndex, Len(log[i])), m.logTerm)
<1>3. hint \in Nat
  BY <1>2, LastAtMostType
<1>4. TermOf(log[i], offset[i], hint) \in Nat
  BY <1>3, TermOfType DEF TypeOK, LogTypeOK
<1> HIDE DEF hint
<1>5. [AppendAck(i, m.from, m.term, m.logIndex) EXCEPT
         !.reject = TRUE, !.rejectHint = hint,
         !.hintTerm = TermOf(log[i], offset[i], hint)] \in Message
  BY <1>1, <1>3, <1>4 DEF AppendAck, Message
<1> QED
  BY <1>5 DEF AppendReject, hint

\* sendAppend and sendSnapshot build messages of their type.
LEMMA ReplicationMsgType ==
  ASSUME TypeOK, NEW i \in Node, NEW j \in Node, NEW term \in Nat,
         NEW lg \in Seq(Entry), NEW n \in Nat \ {0}, NEW com \in Nat
  PROVE  ReplicationMsg(i, j, term, lg, n, com) \in Message
<1>1. offset[i] \in Nat
  BY DEF TypeOK, LogTypeOK
<1>2. CASE n <= offset[i]
  <2>1. offset[i] \in Int
    BY <1>1
  <2>2. Prefix(lg, offset[i]) \in Seq(Entry)
    BY <2>1, PrefixType
  <2> QED
    BY <1>2, <2>2 DEF ReplicationMsg, Message
<1>3. CASE ~(n <= offset[i])
  <2>1. LastToSend(lg, n) \in Int /\ LastToSend(lg, n) <= Len(lg)
    BY ConfigAssumption, LenProperties DEF LastToSend, Lesser
  <2>2. SubSeq(lg, n, LastToSend(lg, n)) \in Seq(Entry)
    BY <2>1, SliceType
  <2>3. n - 1 \in Nat
    OBVIOUS
  <2>4. TermOf(lg, offset[i], n - 1) \in Nat
    BY <1>1, <2>3, TermOfType
  <2> QED
    BY <1>3, <2>2, <2>3, <2>4 DEF ReplicationMsg, Message
<1> QED
  BY <1>2, <1>3

\* bcastAppend, one message per peer.
LEMMA BcastAppendType ==
  ASSUME TypeOK, NEW i \in Node, NEW term \in Nat, NEW lg \in Seq(Entry),
         NEW nxt \in [Node -> Nat \ {0}], NEW com \in Nat
  PROVE  BcastAppend(i, term, lg, nxt, com) \subseteq Message
<1>1. ASSUME NEW j \in Peers(i)
      PROVE  ReplicationMsg(i, j, term, lg, nxt[j], com) \in Message
  BY ReplicationMsgType DEF Peers
<1> QED
  BY <1>1 DEF BcastAppend

\* bcastHeartbeatWithCtx, one message per peer.
LEMMA BcastHeartbeatType ==
  ASSUME TypeOK, NEW i \in Node, NEW mat \in [Node -> Nat], NEW com \in Nat,
         NEW ctx \in Nat
  PROVE  BcastHeartbeat(i, mat, com, ctx) \subseteq Message
<1>1. ASSUME NEW j \in Peers(i)
      PROVE  [type |-> "MsgHeartbeat", from |-> i, to |-> j, term |-> Term[i],
              commit |-> Lesser(mat[j], com), context |-> ctx] \in Message
  BY DEF Peers, Lesser, Message, TypeOK, RoleTypeOK
<1> QED
  BY <1>1 DEF BcastHeartbeat

-----------------------------------------------------------------------------
(* What the actions share keeps the types.                                   *)

\* What becomeFollower leaves in the variables it assigns.
LEMMA BecomeFollowerType ==
  ASSUME TypeOK, NEW i \in Node, NEW term \in Nat, NEW vote \in Node \cup {None},
         NEW leader \in Node \cup {None}, BecomeFollower(i, term, vote, leader)
  PROVE  /\ Term' \in [Node -> Nat]
         /\ Vote' \in [Node -> Node \cup {None}]
         /\ state' \in [Node -> {Follower, PreCandidate, Candidate, Leader}]
         /\ lead' \in [Node -> Node \cup {None}]
         /\ lease' \in [Node -> BOOLEAN]
         /\ granted' \in [Node -> SUBSET Node]
         /\ rejected' \in [Node -> SUBSET Node]
         /\ match' \in [Node -> [Node -> Nat]]
         /\ next' \in [Node -> [Node -> Nat \ {0}]]
         /\ readOnly' \in [Node -> Seq(ReadStatus)]
         /\ waiting' \in [Node -> Seq([ctx : Nat, floor : Nat])]
<1>1. <<>> \in Seq(ReadStatus) /\ <<>> \in Seq([ctx : Nat, floor : Nat])
  OBVIOUS
<1>2. /\ [j \in Node |-> 0] \in [Node -> Nat]
      /\ [j \in Node |-> 1] \in [Node -> Nat \ {0}]
  OBVIOUS
<1>3. /\ match' \in [Node -> [Node -> Nat]]
      /\ next' \in [Node -> [Node -> Nat \ {0}]]
  BY <1>2 DEF BecomeFollower, TypeOK, LogTypeOK
<1>4. /\ readOnly' \in [Node -> Seq(ReadStatus)]
      /\ waiting' \in [Node -> Seq([ctx : Nat, floor : Nat])]
  BY <1>1 DEF BecomeFollower, TypeOK, ReadTypeOK
<1> QED
  BY <1>3, <1>4 DEF BecomeFollower, TypeOK, RoleTypeOK

\* What a drain leaves in storage and in the committed history.
LEMMA DrainType ==
  ASSUME TypeOK, NEW i \in Node, NEW base \in Nat, Drain(i, base),
         Term' \in [Node -> Nat], Vote' \in [Node -> Node \cup {None}],
         log' \in [Node -> Seq(Entry)], committed' \in [Node -> Nat]
  PROVE  /\ hardState' \in [Node -> HardState]
         /\ offset' \in [Node -> Nat]
         /\ chosen' \in Seq(Entry)
<1>1. hardState' \in [Node -> HardState]
  BY DEF Drain, TypeOK, RoleTypeOK, HardState
<1>2. offset' \in [Node -> Nat]
  BY ConfigAssumption DEF Drain, TypeOK, LogTypeOK
<1>3. chosen' \in Seq(Entry)
  <2>1. log'[i] \in Seq(Entry) /\ committed'[i] \in Int
    OBVIOUS
  <2>2. Prefix(log'[i], committed'[i]) \in Seq(Entry)
    BY <2>1, PrefixType
  <2> QED
    BY <2>2 DEF Drain, TypeOK, LogTypeOK
<1> QED
  BY <1>1, <1>2, <1>3

\* becomeCandidate and its drain keep the types.
LEMMA BecomeCandidateType ==
  ASSUME TypeOK, NEW i \in Node, BecomeCandidate(i)
  PROVE  TypeOK'
<1>1. /\ Term' \in [Node -> Nat] /\ Vote' \in [Node -> Node \cup {None}]
      /\ log' \in [Node -> Seq(Entry)] /\ committed' \in [Node -> Nat]
  BY DEF BecomeCandidate, TypeOK, RoleTypeOK, LogTypeOK
<1>2. /\ state' \in [Node -> {Follower, PreCandidate, Candidate, Leader}]
      /\ lead' \in [Node -> Node \cup {None}]
      /\ lease' \in [Node -> BOOLEAN]
      /\ granted' \in [Node -> SUBSET Node]
      /\ rejected' \in [Node -> SUBSET Node]
  BY DEF BecomeCandidate, TypeOK, RoleTypeOK
<1>3. offset[i] \in Nat /\ Drain(i, offset[i])
  BY DEF BecomeCandidate, TypeOK, LogTypeOK
<1>4. hardState' \in [Node -> HardState] /\ offset' \in [Node -> Nat]
      /\ chosen' \in Seq(Entry)
  BY <1>1, <1>3, DrainType
<1>5. msgs' \subseteq Message
  <2>1. Term[i] + 1 \in Nat
    BY DEF TypeOK, RoleTypeOK
  <2>2. ASSUME NEW j \in Peers(i)
        PROVE  VoteReq("MsgVote", i, j, Term[i] + 1) \in Message
    BY <2>1, VoteReqType DEF Peers
  <2> QED
    BY <2>2 DEF BecomeCandidate, Send, TypeOK
<1> QED
  BY <1>1, <1>2, <1>4, <1>5
  DEF BecomeCandidate, TypeOK, RoleTypeOK, LogTypeOK, ReadTypeOK, progressVars,
      readVars

\* What becomeLeader leaves in the log and the progress of its node.
LEMMA BecomeLeaderVars ==
  ASSUME TypeOK, NEW i \in Node, NEW term \in Nat \ {0}, BecomeLeader(i, term)
  PROVE  /\ log' \in [Node -> Seq(Entry)] /\ committed' \in [Node -> Nat]
         /\ match' \in [Node -> [Node -> Nat]]
         /\ next' \in [Node -> [Node -> Nat \ {0}]]
<1> DEFINE last == Len(log[i])
           lg == Append(log[i], [term |-> term, data |-> Noop])
           mat == [j \in Node |-> IF j = i THEN last + 1 ELSE 0]
           nxt == [j \in Node |-> IF j = i THEN last + 2 ELSE last + 1]
           com == CommitIndex(mat, lg, offset[i], committed[i], term)
<1>1. last \in Nat /\ offset[i] \in Nat /\ committed[i] \in Nat
  BY LenProperties DEF TypeOK, LogTypeOK
<1>2. lg \in Seq(Entry)
  <2>1. log[i] \in Seq(Entry)
    BY DEF TypeOK, LogTypeOK
  <2>2. [term |-> term, data |-> Noop] \in Entry
    BY DEF Entry
  <2> QED
    BY <2>1, <2>2, AppendProperties
<1>3. mat \in [Node -> Nat] /\ nxt \in [Node -> Nat \ {0}]
  BY <1>1
<1>4. com \in Nat
  BY <1>1, <1>3, CommitIndexType
<1>5. /\ log' = [log EXCEPT ![i] = lg]
      /\ match' = [match EXCEPT ![i] = mat]
      /\ next' = [next EXCEPT ![i] = nxt]
      /\ committed' = [committed EXCEPT ![i] = com]
  BY DEF BecomeLeader
<1> HIDE DEF last, lg, mat, nxt, com
<1> QED
  BY <1>2, <1>3, <1>4, <1>5 DEF TypeOK, LogTypeOK

\* becomeLeader and its drain keep the types.
LEMMA BecomeLeaderType ==
  ASSUME TypeOK, NEW i \in Node, NEW term \in Nat \ {0}, BecomeLeader(i, term),
         Term' \in [Node -> Nat], Vote' \in [Node -> Node \cup {None}],
         msgs' \subseteq Message
  PROVE  TypeOK'
<1>1. /\ log' \in [Node -> Seq(Entry)] /\ committed' \in [Node -> Nat]
      /\ match' \in [Node -> [Node -> Nat]]
      /\ next' \in [Node -> [Node -> Nat \ {0}]]
  BY BecomeLeaderVars
<1>2. offset[i] \in Nat /\ Drain(i, offset[i])
  BY DEF BecomeLeader, TypeOK, LogTypeOK
<1>3. hardState' \in [Node -> HardState] /\ offset' \in [Node -> Nat]
      /\ chosen' \in Seq(Entry)
  BY <1>1, <1>2, DrainType
<1>4. /\ state' \in [Node -> {Follower, PreCandidate, Candidate, Leader}]
      /\ lead' \in [Node -> Node \cup {None}]
      /\ lease' \in [Node -> BOOLEAN]
      /\ granted' \in [Node -> SUBSET Node]
      /\ rejected' \in [Node -> SUBSET Node]
      /\ leaderByTerm' \in SUBSET (Nat \X Node)
  BY DEF BecomeLeader, TypeOK, RoleTypeOK
<1>5. ReadTypeOK' /\ restarts' \in Nat
  BY DEF BecomeLeader, TypeOK, ReadTypeOK, readVars
<1> QED
  BY <1>1, <1>3, <1>4, <1>5 DEF TypeOK, RoleTypeOK, LogTypeOK

\* The log a follower holds after all or part of a batch.
LEMMA SplicedType ==
  ASSUME TypeOK, NEW i \in Node, NEW m \in Message, m.type = "MsgAppend",
         NEW n \in Int, n <= Len(m.entries)
  PROVE  Spliced(i, m, n) \in Seq(Entry)
<1>1. log[i] \in Seq(Entry)
  BY DEF TypeOK, LogTypeOK
<1>2. m.entries \in Seq(Entry) /\ m.logIndex \in Nat
  BY DEF Message
<1>3. CASE FindConflict(i, m) = {}
  BY <1>1, <1>3 DEF Spliced
<1>4. CASE FindConflict(i, m) # {}
  <2> DEFINE k == CHOOSE c \in FindConflict(i, m) : TRUE
  <2>1. k \in FindConflict(i, m)
    BY <1>4
  <2> HIDE DEF k
  <2>2. k \in Nat \ {0}
    BY <2>1, <1>2, LenProperties DEF FindConflict
  <2>3. SubSeq(m.entries, k, n) \in Seq(Entry)
    BY <1>2, <2>2, SliceType
  <2>4. m.logIndex + k - 1 \in Int
    BY <1>2, <2>2
  <2>5. Prefix(log[i], m.logIndex + k - 1) \in Seq(Entry)
    BY <1>1, <2>4, PrefixType
  <2>6. Prefix(log[i], m.logIndex + k - 1) \o SubSeq(m.entries, k, n) \in Seq(Entry)
    BY <2>3, <2>5, ConcatProperties
  <2> QED
    BY <1>4, <2>6 DEF Spliced, k
<1> QED
  BY <1>3, <1>4

\* The reads a leader releases when the commit index moves.
LEMMA ReleaseWaitingType ==
  ASSUME TypeOK, NEW i \in Node, NEW com \in Nat, NEW mat \in [Node -> Nat],
         ReleaseWaiting(i, com)
  PROVE  /\ readOnly' \in [Node -> Seq(ReadStatus)]
         /\ waiting' \in [Node -> Seq([ctx : Nat, floor : Nat])]
         /\ ReleasedHeartbeats(i, mat, com) \subseteq Message
<1> DEFINE Pending == [ctx : Nat, floor : Nat]
           pending == IF com > committed[i] THEN waiting[i] ELSE <<>>
           status(k) == [ctx |-> pending[k].ctx, index |-> com, acks |-> {i},
                         floor |-> pending[k].floor]
           released == [k \in 1..Len(pending) |-> status(k)]
<1>1. waiting[i] \in Seq(Pending) /\ readOnly[i] \in Seq(ReadStatus)
      /\ <<>> \in Seq(Pending)
  BY DEF TypeOK, ReadTypeOK
<1>2. pending \in Seq(Pending)
  BY <1>1
<1>3. Len(pending) \in Nat /\ \A k \in 1..Len(pending) : pending[k] \in Pending
  BY <1>2, LenProperties, ElementOfSeq
<1> HIDE DEF pending
<1>4. \A k \in 1..Len(pending) : status(k) \in ReadStatus
  BY <1>3 DEF ReadStatus
<1> HIDE DEF status
<1>5. released \in Seq(ReadStatus)
  BY <1>3, <1>4, IsASeq
<1>6. readOnly' = [readOnly EXCEPT ![i] = @ \o released]
      /\ waiting' = [waiting EXCEPT ![i] = IF com > committed[i] THEN <<>> ELSE @]
  BY DEF ReleaseWaiting, pending, status
<1> HIDE DEF released
<1>7. readOnly[i] \o released \in Seq(ReadStatus)
  BY <1>1, <1>5, ConcatProperties
<1>8. readOnly' \in [Node -> Seq(ReadStatus)]
  BY <1>6, <1>7 DEF TypeOK, ReadTypeOK
<1>9. waiting' \in [Node -> Seq(Pending)]
  BY <1>1, <1>6 DEF TypeOK, ReadTypeOK
<1>10. ASSUME NEW k \in 1..Len(waiting[i])
       PROVE  BcastHeartbeat(i, mat, com, waiting[i][k].ctx) \subseteq Message
  <2>1. waiting[i][k] \in Pending
    BY <1>1, ElementOfSeq
  <2>2. waiting[i][k].ctx \in Nat
    BY <2>1
  <2> QED
    BY <2>2, BcastHeartbeatType
<1>11. ReleasedHeartbeats(i, mat, com) \subseteq Message
  BY <1>10 DEF ReleasedHeartbeats
<1> QED
  BY <1>8, <1>9, <1>11

=============================================================================
