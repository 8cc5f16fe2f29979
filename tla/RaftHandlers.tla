---------------------------- MODULE RaftHandlers ----------------------------
(***************************************************************************)
(* Proofs about Raft: the handlers that change the log, the progress of the *)
(* followers and the reads keep the types, and so does a restart.           *)
(***************************************************************************)
EXTENDS RaftHelpers

\* stepPropose keeps the types.
LEMMA ProposeType ==
  ASSUME TypeOK, NEW i \in Node, NEW c \in Command, Term[i] # 0, Propose(i, c)
  PROVE  TypeOK'
<1> DEFINE lg == Append(log[i], [term |-> Term[i], data |-> c])
           mat == [match[i] EXCEPT ![i] = Len(lg)]
           nxt == [next[i] EXCEPT ![i] = Len(lg) + 1]
           com == CommitIndex(mat, lg, offset[i], committed[i], Term[i])
<1>1. Term[i] \in Nat \ {0} /\ offset[i] \in Nat /\ committed[i] \in Nat
  BY DEF TypeOK, RoleTypeOK, LogTypeOK
<1>2. lg \in Seq(Entry) /\ Len(lg) \in Nat
  <2>1. log[i] \in Seq(Entry)
    BY DEF TypeOK, LogTypeOK
  <2>2. [term |-> Term[i], data |-> c] \in Entry
    BY <1>1 DEF Entry
  <2> QED
    BY <2>1, <2>2, AppendProperties, LenProperties
<1>3. mat \in [Node -> Nat] /\ nxt \in [Node -> Nat \ {0}]
  BY <1>2 DEF TypeOK, LogTypeOK
<1>4. com \in Nat
  BY <1>1, <1>3, CommitIndexType
<1>5. /\ log' = [log EXCEPT ![i] = lg]
      /\ match' = [match EXCEPT ![i] = mat]
      /\ next' = [next EXCEPT ![i] = nxt]
      /\ committed' = [committed EXCEPT ![i] = com]
      /\ ReleaseWaiting(i, com)
      /\ Send(BcastAppend(i, Term[i], lg, nxt, com)
              \cup ReleasedHeartbeats(i, mat, com))
      /\ UNCHANGED <<hardVars, roleVars, readToken, restarts, leaderByTerm, served>>
      /\ Drain(i, offset[i])
  BY DEF Propose
<1> HIDE DEF lg, mat, nxt, com
<1>6. /\ log' \in [Node -> Seq(Entry)] /\ committed' \in [Node -> Nat]
      /\ match' \in [Node -> [Node -> Nat]]
      /\ next' \in [Node -> [Node -> Nat \ {0}]]
  BY <1>2, <1>3, <1>4, <1>5 DEF TypeOK, LogTypeOK
<1>7. Term' \in [Node -> Nat] /\ Vote' \in [Node -> Node \cup {None}]
  BY <1>5 DEF TypeOK, RoleTypeOK, hardVars
<1>8. hardState' \in [Node -> HardState] /\ offset' \in [Node -> Nat]
      /\ chosen' \in Seq(Entry)
  BY <1>1, <1>5, <1>6, <1>7, DrainType
<1>9. RoleTypeOK'
  BY <1>5, <1>7, <1>8 DEF TypeOK, RoleTypeOK, roleVars
<1>10. /\ readOnly' \in [Node -> Seq(ReadStatus)]
       /\ waiting' \in [Node -> Seq([ctx : Nat, floor : Nat])]
       /\ ReleasedHeartbeats(i, mat, com) \subseteq Message
  BY <1>3, <1>4, <1>5, ReleaseWaitingType
<1>11. BcastAppend(i, Term[i], lg, nxt, com) \subseteq Message
  BY <1>1, <1>2, <1>3, <1>4, BcastAppendType
<1>12. msgs' \subseteq Message
  BY <1>5, <1>10, <1>11 DEF Send, TypeOK
<1>13. ReadTypeOK' /\ restarts' \in Nat
  BY <1>5, <1>10 DEF TypeOK, ReadTypeOK
<1> QED
  BY <1>6, <1>8, <1>9, <1>12, <1>13 DEF TypeOK, LogTypeOK

\* maybeUpdate
LEMMA AckedType ==
  ASSUME TypeOK, NEW i \in Node, NEW m, m.from \in Node, m.logIndex \in Nat,
         Acked(i, m)
  PROVE  /\ match' \in [Node -> [Node -> Nat]]
         /\ next' \in [Node -> [Node -> Nat \ {0}]]
<1>1. match[i] \in [Node -> Nat] /\ next[i] \in [Node -> Nat \ {0}]
  BY DEF TypeOK, LogTypeOK
<1>2. /\ Greater(match[i][m.from], m.logIndex) \in Nat
      /\ Greater(next[i][m.from], m.logIndex + 1) \in Nat \ {0}
  BY <1>1 DEF Greater
<1>3. match' \in [Node -> [Node -> Nat]]
  BY <1>1, <1>2 DEF Acked, TypeOK, LogTypeOK
<1>4. next' \in [Node -> [Node -> Nat \ {0}]]
  BY <1>1, <1>2 DEF Acked, TypeOK, LogTypeOK
<1> QED
  BY <1>3, <1>4

\* handleAppendResp keeps the types when the append was accepted.
LEMMA HandleAppendAckType ==
  ASSUME TypeOK, NEW i \in Node, NEW m \in Message, HandleAppendAck(i, m)
  PROVE  TypeOK'
<1> DEFINE com == IF m.logIndex > match[i][m.from]
                  THEN CommitIndex(match'[i], log[i], offset[i], committed[i],
                                   Term[i])
                  ELSE committed[i]
<1>1. m.type = "MsgAppendResp" /\ m.from \in Node /\ m.logIndex \in Nat
  BY DEF HandleAppendAck, Reply, Received, Message
<1>2. match' \in [Node -> [Node -> Nat]] /\ next' \in [Node -> [Node -> Nat \ {0}]]
  BY <1>1, AckedType DEF HandleAppendAck
<1>3. /\ Term[i] \in Nat /\ log[i] \in Seq(Entry) /\ offset[i] \in Nat
      /\ committed[i] \in Nat
      /\ match'[i] \in [Node -> Nat] /\ next'[i] \in [Node -> Nat \ {0}]
  BY <1>2 DEF TypeOK, RoleTypeOK, LogTypeOK
<1>4. com \in Nat
  BY <1>3, CommitIndexType
<1>5. /\ committed' = [committed EXCEPT ![i] = com]
      /\ ReleaseWaiting(i, com)
      /\ Send(IF com > committed[i]
              THEN ReleasedHeartbeats(i, match'[i], com)
                   \cup BcastAppend(i, Term[i], log[i], next'[i], com)
              ELSE {})
      /\ UNCHANGED <<hardVars, roleVars, log, readToken, restarts, leaderByTerm,
                     served>>
      /\ Drain(i, offset[i])
  BY DEF HandleAppendAck
<1> HIDE DEF com
<1>6. log' \in [Node -> Seq(Entry)] /\ committed' \in [Node -> Nat]
  BY <1>4, <1>5 DEF TypeOK, LogTypeOK
<1>7. Term' \in [Node -> Nat] /\ Vote' \in [Node -> Node \cup {None}]
  BY <1>5 DEF TypeOK, RoleTypeOK, hardVars
<1>8. hardState' \in [Node -> HardState] /\ offset' \in [Node -> Nat]
      /\ chosen' \in Seq(Entry)
  BY <1>3, <1>5, <1>6, <1>7, DrainType
<1>9. RoleTypeOK'
  BY <1>5, <1>7, <1>8 DEF TypeOK, RoleTypeOK, roleVars
<1>10. /\ readOnly' \in [Node -> Seq(ReadStatus)]
       /\ waiting' \in [Node -> Seq([ctx : Nat, floor : Nat])]
       /\ ReleasedHeartbeats(i, match'[i], com) \subseteq Message
  BY <1>3, <1>4, <1>5, ReleaseWaitingType
<1>11. BcastAppend(i, Term[i], log[i], next'[i], com) \subseteq Message
  BY <1>3, <1>4, BcastAppendType
<1>12. msgs' \subseteq Message
  BY <1>5, <1>10, <1>11 DEF Send, TypeOK
<1>13. ReadTypeOK' /\ restarts' \in Nat
  BY <1>5, <1>10 DEF TypeOK, ReadTypeOK
<1> QED
  BY <1>2, <1>6, <1>8, <1>9, <1>12, <1>13 DEF TypeOK, LogTypeOK

\* A handler that follows some node, appends, commits, answers and drains.
LEMMA FollowerStepType ==
  ASSUME TypeOK, NEW i \in Node, NEW term \in Nat, NEW vote \in Node \cup {None},
         NEW leader \in Node \cup {None}, NEW base \in Nat,
         BecomeFollower(i, term, vote, leader), Drain(i, base),
         log' \in [Node -> Seq(Entry)], committed' \in [Node -> Nat],
         msgs' \subseteq Message,
         UNCHANGED <<readToken, restarts, leaderByTerm, served>>
  PROVE  TypeOK'
<1>1. /\ Term' \in [Node -> Nat]
      /\ Vote' \in [Node -> Node \cup {None}]
      /\ state' \in [Node -> {Follower, PreCandidate, Candidate, Leader}]
      /\ lead' \in [Node -> Node \cup {None}]
      /\ lease' \in [Node -> BOOLEAN]
      /\ granted' \in [Node -> SUBSET Node]
      /\ rejected' \in [Node -> SUBSET Node]
      /\ match' \in [Node -> [Node -> Nat]]
      /\ next' \in [Node -> [Node -> Nat \ {0}]]
      /\ readOnly' \in [Node -> Seq(ReadStatus)]
      /\ waiting' \in [Node -> Seq([ctx : Nat, floor : Nat])]
  BY BecomeFollowerType
<1>2. hardState' \in [Node -> HardState] /\ offset' \in [Node -> Nat]
      /\ chosen' \in Seq(Entry)
  BY <1>1, DrainType
<1>3. RoleTypeOK'
  BY <1>1, <1>2 DEF TypeOK, RoleTypeOK
<1>4. LogTypeOK'
  BY <1>1, <1>2 DEF LogTypeOK
<1>5. ReadTypeOK' /\ restarts' \in Nat
  BY <1>1 DEF TypeOK, ReadTypeOK
<1> QED
  BY <1>3, <1>4, <1>5 DEF TypeOK

\* The sender of a message and its term, as BecomeFollower takes them.
LEMMA FollowArguments ==
  ASSUME TypeOK, NEW i \in Node, NEW m \in Message
  PROVE  /\ m.term \in Nat /\ m.from \in Node \cup {None}
         /\ VoteIn(i, m.term) \in Node \cup {None}
         /\ Term[i] \in Nat /\ Vote[i] \in Node \cup {None}
         /\ offset[i] \in Nat /\ committed[i] \in Nat /\ log[i] \in Seq(Entry)
BY MessageFields DEF VoteIn, TypeOK, RoleTypeOK, LogTypeOK

\* handleAppend keeps the types, whichever branch it takes.
LEMMA HandleAppendType ==
  ASSUME TypeOK, NEW i \in Node, NEW m \in Message, HandleAppend(i, m)
  PROVE  TypeOK'
<1> DEFINE last == m.logIndex + Len(m.entries)
<1>1. m.type = "MsgAppend" /\ m.from \in Node /\ m.term \in Nat
  BY DEF HandleAppend, FromLeader, Received, Message
<1>2. m.logIndex \in Nat /\ m.entries \in Seq(Entry) /\ m.commit \in Nat
  BY <1>1 DEF Message
<1>3. last \in Nat /\ Len(m.entries) \in Int
  BY <1>2, LenProperties
<1>4. Spliced(i, m, Len(m.entries)) \in Seq(Entry)
  BY <1>1, <1>3, SplicedType
<1>5. log' \in [Node -> Seq(Entry)]
  BY <1>4 DEF HandleAppend, TypeOK, LogTypeOK
<1>6. committed[i] \in Nat /\ Greater(committed[i], Lesser(m.commit, last)) \in Nat
  BY <1>2, <1>3 DEF Greater, Lesser, TypeOK, LogTypeOK
<1>7. committed' \in [Node -> Nat]
  BY <1>6 DEF HandleAppend, TypeOK, LogTypeOK
<1>8. /\ AppendAck(i, m.from, m.term, committed[i]) \in Message
      /\ AppendAck(i, m.from, m.term, last) \in Message
      /\ AppendReject(i, m) \in Message
  BY <1>1, <1>3, <1>6, ReplyTypes, AppendRejectType
<1>9. msgs' \subseteq Message
  BY <1>8 DEF HandleAppend, Send, TypeOK
<1>10. /\ BecomeFollower(i, m.term, VoteIn(i, m.term), m.from)
       /\ Drain(i, offset[i])
       /\ UNCHANGED <<readToken, restarts, leaderByTerm, served>>
  BY DEF HandleAppend, FollowLeader
<1> QED
  BY <1>5, <1>7, <1>9, <1>10, FollowerStepType, FollowArguments

\* handleHeartbeat keeps the types.
LEMMA HandleHeartbeatType ==
  ASSUME TypeOK, NEW i \in Node, NEW m \in Message, HandleHeartbeat(i, m)
  PROVE  TypeOK'
<1>1. m.type = "MsgHeartbeat" /\ m.from \in Node /\ m.term \in Nat
      /\ m.commit \in Nat /\ m.context \in Nat
  BY DEF HandleHeartbeat, FromLeader, Received, Message
<1>2. log' \in [Node -> Seq(Entry)]
  BY DEF HandleHeartbeat, TypeOK, LogTypeOK
<1>3. Greater(committed[i], Lesser(m.commit, Len(log[i]))) \in Nat
  BY <1>1, LenProperties DEF Greater, Lesser, TypeOK, LogTypeOK
<1>4. committed' \in [Node -> Nat]
  BY <1>3 DEF HandleHeartbeat, TypeOK, LogTypeOK
<1>5. HeartbeatReply(i, m.from, m.term, m.context) \in Message
  BY <1>1, ReplyTypes
<1>6. msgs' \subseteq Message
  BY <1>5 DEF HandleHeartbeat, Send, TypeOK
<1>7. /\ BecomeFollower(i, m.term, VoteIn(i, m.term), m.from)
      /\ Drain(i, offset[i])
      /\ UNCHANGED <<readToken, restarts, leaderByTerm, served>>
  BY DEF HandleHeartbeat, FollowLeader
<1> QED
  BY <1>2, <1>4, <1>6, <1>7, FollowerStepType, FollowArguments

\* handleSnapshot keeps the types.
LEMMA HandleSnapshotType ==
  ASSUME TypeOK, NEW i \in Node, NEW m \in Message, HandleSnapshot(i, m)
  PROVE  TypeOK'
<1>1. m.type = "MsgInstallSnapshot" /\ m.from \in Node /\ m.term \in Nat
      /\ m.snapshot \in Seq(Entry)
  BY DEF HandleSnapshot, FromLeader, Received, Message
<1>2. Len(m.snapshot) \in Nat /\ committed[i] \in Nat /\ offset[i] \in Nat
  BY <1>1, LenProperties DEF TypeOK, LogTypeOK
<1>3. log' \in [Node -> Seq(Entry)] /\ committed' \in [Node -> Nat]
  BY <1>1, <1>2 DEF HandleSnapshot, TypeOK, LogTypeOK
<1>4. /\ SnapshotAck(i, m.from, m.term, committed[i]) \in Message
      /\ SnapshotAck(i, m.from, m.term, Len(m.snapshot)) \in Message
  BY <1>1, <1>2, ReplyTypes
<1>5. msgs' \subseteq Message
  BY <1>4 DEF HandleSnapshot, Send, TypeOK
<1>6. PICK base \in {offset[i], Len(m.snapshot)} : Drain(i, base)
  BY DEF HandleSnapshot
<1>7. /\ BecomeFollower(i, m.term, VoteIn(i, m.term), m.from)
      /\ UNCHANGED <<readToken, restarts, leaderByTerm, served>>
  BY DEF HandleSnapshot, FollowLeader
<1>8. base \in Nat
  BY <1>2
<1> QED
  BY <1>3, <1>5, <1>6, <1>7, <1>8, FollowerStepType, FollowArguments

\* A restart from a typed storage leaves a typed node.
LEMMA RebootType ==
  ASSUME TypeOK, NEW i \in Node, NEW lg \in Seq(Entry), NEW off \in Nat,
         NEW hs \in HardState, Reboot(i, lg, off, hs)
  PROVE  TypeOK'
<1>1. hs.Term \in Nat /\ hs.Vote \in Node \cup {None} /\ hs.Commit \in Nat
  BY DEF HardState
<1>2. None \in Node \cup {None}
  OBVIOUS
<1>3. BecomeFollower(i, hs.Term, hs.Vote, None)
  BY DEF Reboot
<1>4. /\ Term' \in [Node -> Nat]
      /\ Vote' \in [Node -> Node \cup {None}]
      /\ state' \in [Node -> {Follower, PreCandidate, Candidate, Leader}]
      /\ lead' \in [Node -> Node \cup {None}]
      /\ lease' \in [Node -> BOOLEAN]
      /\ granted' \in [Node -> SUBSET Node]
      /\ rejected' \in [Node -> SUBSET Node]
      /\ match' \in [Node -> [Node -> Nat]]
      /\ next' \in [Node -> [Node -> Nat \ {0}]]
      /\ readOnly' \in [Node -> Seq(ReadStatus)]
      /\ waiting' \in [Node -> Seq([ctx : Nat, floor : Nat])]
  BY <1>1, <1>2, <1>3, BecomeFollowerType
<1>5. RoleTypeOK'
  BY <1>4 DEF Reboot, TypeOK, RoleTypeOK, historyVars
<1>6. Greater(off, hs.Commit) \in Nat
  BY <1>1 DEF Greater
<1>7. LogTypeOK'
  BY <1>4, <1>6 DEF Reboot, TypeOK, LogTypeOK, historyVars
<1>8. ReadTypeOK'
  BY <1>4 DEF Reboot, TypeOK, ReadTypeOK, historyVars
<1>9. msgs' \subseteq Message /\ restarts' \in Nat
  BY DEF Reboot, TypeOK
<1> QED
  BY <1>5, <1>7, <1>8, <1>9 DEF TypeOK

\* What a crash between two drains leaves of the hard state.
LEMMA BufferedType ==
  ASSUME TypeOK, NEW i \in Node
  PROVE  hardState[i] \in HardState /\ Buffered(i) \in HardState
<1>1. hardState[i] \in HardState /\ committed[i] \in Nat
  BY DEF TypeOK, RoleTypeOK, LogTypeOK
<1>2. [hardState[i] EXCEPT !.Commit = committed[i]] \in HardState
  BY <1>1 DEF HardState
<1> QED
  BY <1>1, <1>2 DEF Buffered

\* recvAck and advance leave a typed queue of reads.
LEMMA RecvAckType ==
  ASSUME TypeOK, NEW i \in Node, NEW m, m.from \in Node, RecvAck(i, m)
  PROVE  /\ readOnly' \in [Node -> Seq(ReadStatus)]
         /\ served' \in SUBSET [floor : Nat, index : Nat]
<1> DEFINE status(k) == IF readOnly[i][k].ctx = m.context
                        THEN [readOnly[i][k] EXCEPT !.acks = @ \cup {m.from}]
                        ELSE readOnly[i][k]
           queue == [k \in 1..Len(readOnly[i]) |-> status(k)]
           confirmed == {k \in 1..Len(queue) :
                           queue[k].ctx = m.context
                           /\ Cardinality(queue[k].acks) >= Quorum}
<1>1. readOnly[i] \in Seq(ReadStatus) /\ Len(readOnly[i]) \in Nat
  BY LenProperties DEF TypeOK, ReadTypeOK
<1>2. \A k \in 1..Len(readOnly[i]) : readOnly[i][k] \in ReadStatus
  BY <1>1, ElementOfSeq
<1>3. \A k \in 1..Len(readOnly[i]) : status(k) \in ReadStatus
  BY <1>2 DEF ReadStatus
<1> HIDE DEF status
<1>4. queue \in Seq(ReadStatus)
  BY <1>1, <1>3, IsASeq
<1>5. \/ /\ readOnly' = [readOnly EXCEPT ![i] = queue]
         /\ UNCHANGED served
      \/ \E k \in confirmed :
           /\ readOnly' = [readOnly EXCEPT ![i] = SubSeq(queue, k + 1, Len(queue))]
           /\ served' = served \cup {[floor |-> queue[n].floor,
                                      index |-> queue[n].index] : n \in 1..k}
  BY DEF RecvAck, status
<1>6. confirmed \subseteq 1..Len(queue)
  OBVIOUS
<1> HIDE DEF queue, confirmed
<1>7. CASE readOnly' = [readOnly EXCEPT ![i] = queue] /\ UNCHANGED served
  BY <1>4, <1>7 DEF TypeOK, ReadTypeOK
<1>8. ASSUME NEW k \in confirmed,
             readOnly' = [readOnly EXCEPT ![i] = SubSeq(queue, k + 1, Len(queue))],
             served' = served \cup {[floor |-> queue[n].floor,
                                     index |-> queue[n].index] : n \in 1..k}
      PROVE  /\ readOnly' \in [Node -> Seq(ReadStatus)]
             /\ served' \in SUBSET [floor : Nat, index : Nat]
  <2>1. Len(queue) \in Nat /\ k \in 1..Len(queue)
    BY <1>4, <1>6, LenProperties
  <2>2. k + 1 \in Nat \ {0} /\ Len(queue) \in Int /\ Len(queue) <= Len(queue)
    BY <2>1
  <2>3. SubSeq(queue, k + 1, Len(queue)) \in Seq(ReadStatus)
    BY <1>4, <2>2, SliceType
  <2>4. readOnly' \in [Node -> Seq(ReadStatus)]
    BY <1>8, <2>3 DEF TypeOK, ReadTypeOK
  <2>5. \A n \in 1..k : queue[n] \in ReadStatus
    BY <1>4, <2>1, ElementOfSeq
  <2>6. \A n \in 1..k : queue[n].floor \in Nat /\ queue[n].index \in Nat
    BY <2>5 DEF ReadStatus
  <2>7. served' \in SUBSET [floor : Nat, index : Nat]
    BY <1>8, <2>6 DEF TypeOK, ReadTypeOK
  <2> QED
    BY <2>4, <2>7
<1> QED
  BY <1>5, <1>7, <1>8

\* stepReadIndex keeps the types.
LEMMA ReadIndexType ==
  ASSUME TypeOK, NEW i \in Node, ReadIndex(i)
  PROVE  TypeOK'
<1> DEFINE ctx == readToken[i] + 1
           floor == Len(chosen)
           status == [ctx |-> ctx, index |-> committed[i], acks |-> {i},
                      floor |-> floor]
<1>1. /\ ctx \in Nat /\ floor \in Nat /\ committed[i] \in Nat
      /\ match[i] \in [Node -> Nat]
  BY LenProperties DEF TypeOK, LogTypeOK, ReadTypeOK
<1>2. /\ readToken' = [readToken EXCEPT ![i] = ctx]
      /\ \/ /\ waiting' = [waiting EXCEPT ![i] =
                             Append(@, [ctx |-> ctx, floor |-> floor])]
            /\ UNCHANGED <<readOnly, msgs, served>>
         \/ /\ served' = served \cup {[floor |-> floor, index |-> committed[i]]}
            /\ UNCHANGED <<readOnly, waiting, msgs>>
         \/ /\ readOnly' = [readOnly EXCEPT ![i] = Append(@, status)]
            /\ Send(BcastHeartbeat(i, match[i], committed[i], ctx))
            /\ UNCHANGED <<waiting, served>>
  BY DEF ReadIndex
<1>3. status \in ReadStatus
  BY <1>1 DEF ReadStatus
<1> HIDE DEF ctx, floor, status
<1>4. [ctx |-> ctx, floor |-> floor] \in [ctx : Nat, floor : Nat]
  BY <1>1
<1>5. /\ Append(waiting[i], [ctx |-> ctx, floor |-> floor])
           \in Seq([ctx : Nat, floor : Nat])
      /\ Append(readOnly[i], status) \in Seq(ReadStatus)
  BY <1>3, <1>4, AppendProperties DEF TypeOK, ReadTypeOK
<1>6. ReadTypeOK'
  <2>1. readToken' \in [Node -> Nat]
    BY <1>1, <1>2 DEF TypeOK, ReadTypeOK
  <2>2. served' \in SUBSET [floor : Nat, index : Nat]
    BY <1>1, <1>2 DEF TypeOK, ReadTypeOK
  <2>3. waiting' \in [Node -> Seq([ctx : Nat, floor : Nat])]
    BY <1>2, <1>5 DEF TypeOK, ReadTypeOK
  <2>4. readOnly' \in [Node -> Seq(ReadStatus)]
    BY <1>2, <1>5 DEF TypeOK, ReadTypeOK
  <2> QED
    BY <2>1, <2>2, <2>3, <2>4 DEF ReadTypeOK
<1>7. BcastHeartbeat(i, match[i], committed[i], ctx) \subseteq Message
  BY <1>1, BcastHeartbeatType
<1>8. msgs' \subseteq Message
  BY <1>2, <1>7 DEF Send, TypeOK
<1>9. RoleTypeOK' /\ LogTypeOK' /\ restarts' \in Nat
  BY DEF ReadIndex, TypeOK, RoleTypeOK, LogTypeOK, hardVars, roleVars, progressVars
<1> QED
  BY <1>6, <1>8, <1>9 DEF TypeOK

=============================================================================
