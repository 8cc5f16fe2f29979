----------------------------- MODULE RaftTypes ------------------------------
(***************************************************************************)
(* Type correctness of Raft for every set of nodes, every configuration and *)
(* every value of the bounds.                                               *)
(***************************************************************************)
EXTENDS RaftHandlers

-----------------------------------------------------------------------------
(* One step per action.                                                      *)

\* Only campaigns make candidates, and they raise the term first: the entries a
\* leader appends have a positive term.
CampaignTerms ==
  \A i \in Node : state[i] \in {Candidate, Leader} => Term[i] > 0

TypeInv == TypeOK /\ CampaignTerms

\* A cluster starts typed.
LEMMA TypeInit == Init => TypeInv
<1> SUFFICES ASSUME Init PROVE TypeInv
  OBVIOUS
<1>1. RoleTypeOK
  BY DEF Init, RoleTypeOK, HardState
<1>2. <<>> \in Seq(Entry) /\ <<>> \in Seq(ReadStatus)
      /\ <<>> \in Seq([ctx : Nat, floor : Nat])
  OBVIOUS
<1>3. LogTypeOK
  BY <1>2 DEF Init, LogTypeOK
<1>4. ReadTypeOK
  BY <1>2 DEF Init, ReadTypeOK
<1>5. CampaignTerms
  BY DEF Init, CampaignTerms, Follower, Candidate, Leader
<1> QED
  BY <1>1, <1>3, <1>4, <1>5 DEF Init, TypeInv, TypeOK

\* The steps that change neither the log nor the progress of a node.
LEMMA ElectionTypeStep ==
  ASSUME TypeInv
  PROVE  /\ \A i \in Node : LeaseExpire(i) => TypeOK'
         /\ \A i \in Node : PreCampaign(i) => TypeOK'
         /\ \A i \in Node : Campaign(i) => TypeOK'
         /\ \A i \in Node : CampaignAlone(i) => TypeOK'
         /\ \A m \in msgs : StickyReject(m.to, m) => TypeOK'
         /\ \A m \in msgs : StaleReply(m.to, m) => TypeOK'
         /\ \A m \in msgs : StepDown(m.to, m) => TypeOK'
         /\ \A m \in msgs : HandlePreVote(m.to, m) => TypeOK'
         /\ \A m \in msgs : HandleVote(m.to, m) => TypeOK'
         /\ \A m \in msgs : RecordVote(m.to, m) => TypeOK'
         /\ \A m \in msgs : WinPreVote(m.to, m) => TypeOK'
         /\ \A m \in msgs : WinElection(m.to, m) => TypeOK'
         /\ \A m \in msgs : LoseElection(m.to, m) => TypeOK'
<1>0. TypeOK
  BY DEF TypeInv
<1>m. ASSUME NEW m \in msgs
      PROVE  m \in Message /\ m.to \in Node /\ m.from \in Node /\ m.term \in Nat
  BY <1>0, MessageFields DEF TypeOK
<1>1. ASSUME NEW i \in Node, LeaseExpire(i) PROVE TypeOK'
  <2>1. RoleTypeOK'
    BY <1>0, <1>1 DEF LeaseExpire, TypeOK, RoleTypeOK, hardVars, historyVars
  <2>2. LogTypeOK' /\ ReadTypeOK' /\ msgs' \subseteq Message /\ restarts' \in Nat
    BY <1>0, <1>1 DEF LeaseExpire, TypeOK, LogTypeOK, ReadTypeOK, progressVars,
                      readVars, historyVars
  <2> QED
    BY <2>1, <2>2 DEF TypeOK
<1>2. ASSUME NEW i \in Node, PreCampaign(i) PROVE TypeOK'
  <2>1. RoleTypeOK'
    BY <1>0, <1>2 DEF PreCampaign, TypeOK, RoleTypeOK, hardVars, historyVars
  <2>2. LogTypeOK' /\ ReadTypeOK' /\ restarts' \in Nat
    BY <1>0, <1>2 DEF PreCampaign, TypeOK, LogTypeOK, ReadTypeOK, progressVars,
                      readVars, historyVars
  <2>3. Term[i] + 1 \in Nat
    BY <1>0 DEF TypeOK, RoleTypeOK
  <2>4. ASSUME NEW j \in Peers(i)
        PROVE  VoteReq("MsgPreVote", i, j, Term[i] + 1) \in Message
    BY <1>0, <2>3, VoteReqType DEF Peers
  <2>5. msgs' \subseteq Message
    BY <1>0, <1>2, <2>4 DEF PreCampaign, Send, TypeOK
  <2> QED
    BY <2>1, <2>2, <2>5 DEF TypeOK
<1>3. ASSUME NEW i \in Node, Campaign(i) PROVE TypeOK'
  BY <1>0, <1>3, BecomeCandidateType DEF Campaign
<1>4. ASSUME NEW i \in Node, CampaignAlone(i) PROVE TypeOK'
  <2>1. /\ Term[i] + 1 \in Nat \ {0} /\ BecomeLeader(i, Term[i] + 1)
        /\ Term' \in [Node -> Nat] /\ Vote' \in [Node -> Node \cup {None}]
        /\ msgs' \subseteq Message
    BY <1>0, <1>4 DEF CampaignAlone, TypeOK, RoleTypeOK
  <2> QED
    BY <1>0, <2>1, BecomeLeaderType
<1>5. ASSUME NEW m \in msgs, \/ StickyReject(m.to, m) \/ StaleReply(m.to, m)
                             \/ HandlePreVote(m.to, m)
      PROVE  TypeOK'
  <2>1. RoleTypeOK'
    BY <1>0, <1>5 DEF StickyReject, StaleReply, HandlePreVote, TypeOK, RoleTypeOK,
                      hardVars, roleVars, historyVars
  <2>2. LogTypeOK' /\ ReadTypeOK' /\ restarts' \in Nat
    BY <1>0, <1>5 DEF StickyReject, StaleReply, HandlePreVote, TypeOK, LogTypeOK,
                      ReadTypeOK, progressVars, readVars, historyVars
  <2> DEFINE i == m.to
             grant == IsUpToDate(i, m) /\ m.term > Term[i]
  <2>3. i \in Node /\ Term[i] \in Nat /\ (~grant) \in BOOLEAN /\ 0 \in Nat
    BY <1>0, <1>m DEF TypeOK, RoleTypeOK
  <2>4. /\ VoteReply("MsgVoteResp", i, m.from, Term[i], TRUE) \in Message
        /\ VoteReply("MsgPreVoteResp", i, m.from, Term[i], TRUE) \in Message
        /\ VoteReply("MsgPreVoteResp", i, m.from, m.term, TRUE) \in Message
        /\ VoteReply("MsgPreVoteResp", i, m.from, m.term, ~grant) \in Message
        /\ AppendAck(i, m.from, Term[i], 0) \in Message
        /\ HeartbeatReply(i, m.from, Term[i], 0) \in Message
        /\ SnapshotAck(i, m.from, Term[i], 0) \in Message
    BY <1>m, <2>3, ReplyTypes
  <2>5. msgs' \subseteq Message
    BY <1>0, <1>5, <2>4 DEF StickyReject, StaleReply, HandlePreVote, Send, TypeOK
  <2> QED
    BY <2>1, <2>2, <2>5 DEF TypeOK
<1>6. ASSUME NEW m \in msgs, StepDown(m.to, m) PROVE TypeOK'
  <2>1. /\ log' \in [Node -> Seq(Entry)] /\ committed' \in [Node -> Nat]
        /\ msgs' \subseteq Message
    BY <1>0, <1>6 DEF StepDown, TypeOK, LogTypeOK
  <2>2. /\ BecomeFollower(m.to, m.term, VoteIn(m.to, m.term), m.from)
        /\ Drain(m.to, offset[m.to])
        /\ UNCHANGED <<readToken, restarts, leaderByTerm, served>>
    BY <1>6 DEF StepDown, FollowLeader
  <2> QED
    BY <1>0, <1>m, <2>1, <2>2, FollowerStepType, FollowArguments
<1>7. ASSUME NEW m \in msgs, HandleVote(m.to, m) PROVE TypeOK'
  <2> DEFINE i == m.to
             grant == CanVote(i, m) /\ IsUpToDate(i, m)
             vote == IF grant THEN m.from ELSE None
  <2>1. /\ log' \in [Node -> Seq(Entry)] /\ committed' \in [Node -> Nat]
        /\ UNCHANGED <<readToken, restarts, leaderByTerm, served>>
        /\ Drain(i, offset[i])
    BY <1>0, <1>7 DEF HandleVote, TypeOK, LogTypeOK
  <2>2. (~grant) \in BOOLEAN /\ 0 \in Nat /\ i \in Node
    BY <1>m
  <2>3. VoteReply("MsgVoteResp", i, m.from, m.term, ~grant) \in Message
    BY <1>m, <2>2, ReplyTypes
  <2>4. msgs' \subseteq Message
    BY <1>0, <1>7, <2>3 DEF HandleVote, Send, TypeOK
  <2>5. vote \in Node \cup {None} /\ None \in Node \cup {None}
    BY <1>m
  <2>6. CASE BecomeFollower(i, m.term, vote, None)
    <3> HIDE DEF vote
    <3> QED
      BY <1>0, <1>m, <2>1, <2>4, <2>5, <2>6, FollowerStepType, FollowArguments
  <2>7. CASE /\ Vote' = [Vote EXCEPT ![i] = IF grant THEN m.from ELSE @]
             /\ lease' = [lease EXCEPT ![i] = @ \/ grant]
             /\ UNCHANGED <<Term, state, lead, granted, rejected, progressVars,
                            readVars>>
    <3>1. Vote' \in [Node -> Node \cup {None}]
      BY <1>0, <1>m, <2>7 DEF TypeOK, RoleTypeOK
    <3>2. lease' \in [Node -> BOOLEAN]
      BY <1>0, <2>7, Zenon DEF TypeOK, RoleTypeOK
    <3>3. Term' \in [Node -> Nat]
      BY <1>0, <2>7 DEF TypeOK, RoleTypeOK
    <3>4. hardState' \in [Node -> HardState] /\ offset' \in [Node -> Nat]
          /\ chosen' \in Seq(Entry)
      BY <1>0, <1>m, <2>1, <3>1, <3>3, DrainType, FollowArguments
    <3>5. RoleTypeOK'
      BY <1>0, <2>1, <2>7, <3>1, <3>2, <3>3, <3>4 DEF TypeOK, RoleTypeOK
    <3>6. LogTypeOK' /\ ReadTypeOK' /\ restarts' \in Nat
      BY <1>0, <2>1, <2>7, <3>4 DEF TypeOK, LogTypeOK, ReadTypeOK, progressVars,
                                    readVars
    <3> QED
      BY <2>4, <3>5, <3>6 DEF TypeOK
  <2> QED
    BY <1>7, <2>6, <2>7 DEF HandleVote
<1>8. ASSUME NEW m \in msgs, RecordVote(m.to, m) PROVE TypeOK'
  <2>1. /\ Granted(m.to, m) \in SUBSET Node /\ Rejected(m.to, m) \in SUBSET Node
    BY <1>0, <1>m DEF Granted, Rejected, TypeOK, RoleTypeOK
  <2>2. RoleTypeOK'
    BY <1>0, <1>8, <2>1 DEF RecordVote, TypeOK, RoleTypeOK, hardVars, historyVars
  <2>3. LogTypeOK' /\ ReadTypeOK' /\ msgs' \subseteq Message /\ restarts' \in Nat
    BY <1>0, <1>8 DEF RecordVote, TypeOK, LogTypeOK, ReadTypeOK, progressVars,
                      readVars, historyVars
  <2> QED
    BY <2>2, <2>3 DEF TypeOK
<1>9. ASSUME NEW m \in msgs, WinPreVote(m.to, m) PROVE TypeOK'
  BY <1>0, <1>m, <1>9, BecomeCandidateType DEF WinPreVote
<1>10. ASSUME NEW m \in msgs, WinElection(m.to, m) PROVE TypeOK'
  <2> DEFINE i == m.to
  <2>1. /\ i \in Node /\ BecomeLeader(i, Term[i])
        /\ Term' \in [Node -> Nat] /\ Vote' \in [Node -> Node \cup {None}]
    BY <1>0, <1>m, <1>10 DEF WinElection, TypeOK, RoleTypeOK, hardVars
  <2>2. Term[i] \in Nat \ {0}
    BY <1>0, <1>m, <1>10 DEF WinElection, TypeInv, CampaignTerms, TypeOK, RoleTypeOK
  <2>3. /\ log'[i] \in Seq(Entry) /\ next'[i] \in [Node -> Nat \ {0}]
        /\ committed'[i] \in Nat
    BY <1>0, <2>1, <2>2, BecomeLeaderVars
  <2>4. BcastAppend(i, Term[i], log'[i], next'[i], committed'[i]) \subseteq Message
    BY <1>0, <2>1, <2>2, <2>3, BcastAppendType
  <2>5. msgs' \subseteq Message
    BY <1>0, <1>10, <2>4 DEF WinElection, Send, TypeOK
  <2> QED
    BY <1>0, <2>1, <2>2, <2>5, BecomeLeaderType
<1>11. ASSUME NEW m \in msgs, LoseElection(m.to, m) PROVE TypeOK'
  <2> DEFINE i == m.to
  <2>1. /\ i \in Node /\ Term[i] \in Nat /\ Vote[i] \in Node \cup {None}
        /\ None \in Node \cup {None}
    BY <1>0, <1>m DEF TypeOK, RoleTypeOK
  <2>2. BecomeFollower(i, Term[i], Vote[i], None)
    BY <1>11 DEF LoseElection
  <2>3. /\ Term' \in [Node -> Nat]
        /\ Vote' \in [Node -> Node \cup {None}]
        /\ state' \in [Node -> {Follower, PreCandidate, Candidate, Leader}]
        /\ lead' \in [Node -> Node \cup {None}]
        /\ lease' \in [Node -> BOOLEAN]
        /\ granted' \in [Node -> SUBSET Node]
        /\ rejected' \in [Node -> SUBSET Node]
        /\ match' \in [Node -> [Node -> Nat]]
        /\ next' \in [Node -> [Node -> Nat \ {0}]]
        /\ readOnly' \in [Node -> Seq(ReadStatus)]
        /\ waiting' \in [Node -> Seq([ctx : Nat, floor : Nat])]
    BY <1>0, <2>1, <2>2, BecomeFollowerType
  <2>4. RoleTypeOK'
    BY <1>0, <1>11, <2>3 DEF LoseElection, TypeOK, RoleTypeOK, historyVars
  <2>5. LogTypeOK' /\ ReadTypeOK' /\ msgs' \subseteq Message /\ restarts' \in Nat
    BY <1>0, <1>11, <2>3 DEF LoseElection, TypeOK, LogTypeOK, ReadTypeOK, historyVars
  <2> QED
    BY <2>4, <2>5 DEF TypeOK
<1> QED
  BY <1>1, <1>2, <1>3, <1>4, <1>5, <1>6, <1>7, <1>8, <1>9, <1>10, <1>11

\* The steps of replication and reads.
LEMMA ReplicationTypeStep ==
  ASSUME TypeInv
  PROVE  /\ \A i \in Node : TickHeartbeat(i) => TypeOK'
         /\ \A i \in Node, c \in Command : Propose(i, c) => TypeOK'
         /\ \A i \in Node : ReadIndex(i) => TypeOK'
         /\ \A m \in msgs : HandleAppend(m.to, m) => TypeOK'
         /\ \A m \in msgs : HandleHeartbeat(m.to, m) => TypeOK'
         /\ \A m \in msgs : HandleSnapshot(m.to, m) => TypeOK'
         /\ \A m \in msgs : HandleAppendAck(m.to, m) => TypeOK'
         /\ \A m \in msgs : HandleAppendReject(m.to, m) => TypeOK'
         /\ \A m \in msgs : HandleHeartbeatResp(m.to, m) => TypeOK'
         /\ \A m \in msgs : HandleSnapshotAck(m.to, m) => TypeOK'
<1>0. TypeOK
  BY DEF TypeInv
<1>m. ASSUME NEW m \in msgs
      PROVE  m \in Message /\ m.to \in Node /\ m.from \in Node /\ m.term \in Nat
  BY <1>0, MessageFields DEF TypeOK
<1>n. ASSUME NEW i \in Node
      PROVE  /\ Term[i] \in Nat /\ log[i] \in Seq(Entry) /\ offset[i] \in Nat
             /\ committed[i] \in Nat /\ match[i] \in [Node -> Nat]
             /\ next[i] \in [Node -> Nat \ {0}]
  BY <1>0 DEF TypeOK, RoleTypeOK, LogTypeOK
<1>1. ASSUME NEW i \in Node, TickHeartbeat(i) PROVE TypeOK'
  <2>1. RoleTypeOK' /\ LogTypeOK' /\ ReadTypeOK' /\ restarts' \in Nat
    BY <1>0, <1>1 DEF TickHeartbeat, TypeOK, RoleTypeOK, LogTypeOK, ReadTypeOK,
                      hardVars, roleVars, progressVars, readVars, historyVars
  <2>2. LastPendingCtx(i) \in Nat
    <3>1. readOnly[i] \in Seq(ReadStatus)
      BY <1>0 DEF TypeOK, ReadTypeOK
    <3>2. CASE readOnly[i] = <<>>
      BY <3>2 DEF LastPendingCtx
    <3>3. CASE readOnly[i] # <<>>
      <4>1. Len(readOnly[i]) \in 1..Len(readOnly[i])
        BY <3>1, <3>3, LenProperties, EmptySeq
      <4>2. readOnly[i][Len(readOnly[i])] \in ReadStatus
        BY <3>1, <4>1, ElementOfSeq
      <4> QED
        BY <3>3, <4>2 DEF LastPendingCtx, ReadStatus
    <3> QED
      BY <3>2, <3>3
  <2>3. BcastHeartbeat(i, match[i], committed[i], LastPendingCtx(i)) \subseteq Message
    BY <1>0, <1>n, <2>2, BcastHeartbeatType
  <2>4. msgs' \subseteq Message
    BY <1>0, <1>1, <2>3 DEF TickHeartbeat, Send, TypeOK
  <2> QED
    BY <2>1, <2>4 DEF TypeOK
<1>2. ASSUME NEW i \in Node, NEW c \in Command, Propose(i, c) PROVE TypeOK'
  <2>1. Term[i] # 0
    BY <1>2, <1>n DEF Propose, TypeInv, CampaignTerms
  <2> QED
    BY <1>0, <1>2, <2>1, ProposeType
<1>3. ASSUME NEW i \in Node, ReadIndex(i) PROVE TypeOK'
  BY <1>0, <1>3, ReadIndexType
<1>4. ASSUME NEW m \in msgs, \/ HandleAppend(m.to, m) \/ HandleHeartbeat(m.to, m)
                             \/ HandleSnapshot(m.to, m) \/ HandleAppendAck(m.to, m)
      PROVE  TypeOK'
  BY <1>0, <1>m, <1>4, HandleAppendType, HandleHeartbeatType, HandleSnapshotType,
     HandleAppendAckType
<1>5. ASSUME NEW m \in msgs, HandleAppendReject(m.to, m) PROVE TypeOK'
  <2> DEFINE i == m.to
             n == DecrHint(i, m) + 1
  <2>1. m.rejectHint \in Nat /\ m.hintTerm \in Nat /\ i \in Node
    BY <1>m, <1>5 DEF HandleAppendReject, Reply, Received, Message
  <2>2. Lesser(m.rejectHint, Len(log[i])) \in Nat
    BY <1>n, <2>1, LenProperties DEF Lesser
  <2>3. n \in Nat \ {0}
    BY <2>1, <2>2, LastAtMostType DEF DecrHint
  <2>4. /\ next' = [next EXCEPT ![i][m.from] = n]
        /\ Send({ReplicationMsg(i, m.from, Term[i], log[i], n, committed[i])})
    BY <1>5 DEF HandleAppendReject
  <2> HIDE DEF n
  <2>5. ReplicationMsg(i, m.from, Term[i], log[i], n, committed[i]) \in Message
    BY <1>0, <1>m, <1>n, <2>1, <2>3, ReplicationMsgType
  <2>6. msgs' \subseteq Message
    BY <1>0, <2>4, <2>5 DEF Send, TypeOK
  <2>7. next' \in [Node -> [Node -> Nat \ {0}]]
    BY <1>0, <1>n, <2>1, <2>3, <2>4 DEF TypeOK, LogTypeOK
  <2>8. RoleTypeOK' /\ LogTypeOK' /\ ReadTypeOK' /\ restarts' \in Nat
    BY <1>0, <1>5, <2>7
    DEF HandleAppendReject, TypeOK, RoleTypeOK, LogTypeOK, ReadTypeOK, hardVars,
        roleVars, readVars, historyVars
  <2> QED
    BY <2>6, <2>8 DEF TypeOK
<1>6. ASSUME NEW m \in msgs, HandleHeartbeatResp(m.to, m) PROVE TypeOK'
  <2> DEFINE i == m.to
  <2>1. i \in Node /\ next[i][m.from] \in Nat \ {0}
    BY <1>m, <1>n
  <2>2. ReplicationMsg(i, m.from, Term[i], log[i], next[i][m.from], committed[i])
          \in Message
    BY <1>0, <1>m, <1>n, <2>1, ReplicationMsgType
  <2>3. msgs' \subseteq Message
    BY <1>0, <1>6, <2>2 DEF HandleHeartbeatResp, Send, TypeOK
  <2>4. /\ readOnly' \in [Node -> Seq(ReadStatus)]
        /\ served' \in SUBSET [floor : Nat, index : Nat]
    BY <1>0, <1>m, <1>6, RecvAckType DEF HandleHeartbeatResp
  <2>5. RoleTypeOK' /\ LogTypeOK' /\ ReadTypeOK' /\ restarts' \in Nat
    BY <1>0, <1>6, <2>4
    DEF HandleHeartbeatResp, TypeOK, RoleTypeOK, LogTypeOK, ReadTypeOK, hardVars,
        roleVars, progressVars
  <2> QED
    BY <2>3, <2>5 DEF TypeOK
<1>7. ASSUME NEW m \in msgs, HandleSnapshotAck(m.to, m) PROVE TypeOK'
  <2> DEFINE i == m.to
  <2>1. m.logIndex \in Nat /\ i \in Node /\ Acked(i, m)
    BY <1>m, <1>7 DEF HandleSnapshotAck, Reply, Received, Message
  <2>2. match' \in [Node -> [Node -> Nat]] /\ next' \in [Node -> [Node -> Nat \ {0}]]
    BY <1>0, <1>m, <2>1, AckedType
  <2>3. next'[i][m.from] \in Nat \ {0}
    BY <1>m, <2>1, <2>2
  <2>4. ReplicationMsg(i, m.from, Term[i], log[i], next'[i][m.from], committed[i])
          \in Message
    BY <1>0, <1>m, <1>n, <2>1, <2>3, ReplicationMsgType
  <2>5. msgs' \subseteq Message
    BY <1>0, <1>7, <2>4 DEF HandleSnapshotAck, Send, TypeOK
  <2>6. RoleTypeOK' /\ LogTypeOK' /\ ReadTypeOK' /\ restarts' \in Nat
    BY <1>0, <1>7, <2>2
    DEF HandleSnapshotAck, TypeOK, RoleTypeOK, LogTypeOK, ReadTypeOK, hardVars,
        roleVars, readVars, historyVars
  <2> QED
    BY <2>5, <2>6 DEF TypeOK
<1> QED
  BY <1>1, <1>2, <1>3, <1>4, <1>5, <1>6, <1>7

\* The steps that crash.
LEMMA CrashTypeStep ==
  ASSUME TypeInv
  PROVE  /\ \A i \in Node : Restart(i) => TypeOK'
         /\ \A i \in Node : CrashCampaignAlone(i) => TypeOK'
         /\ \A m \in msgs : CrashInDrain(m.to, m) => TypeOK'
<1>0. TypeOK
  BY DEF TypeInv
<1>n. ASSUME NEW i \in Node
      PROVE  Term[i] \in Nat /\ log[i] \in Seq(Entry) /\ offset[i] \in Nat
  BY <1>0 DEF TypeOK, RoleTypeOK, LogTypeOK
<1>1. ASSUME NEW i \in Node, Restart(i) PROVE TypeOK'
  BY <1>0, <1>1, <1>n, BufferedType, RebootType DEF Restart
<1>2. ASSUME NEW i \in Node, CrashCampaignAlone(i) PROVE TypeOK'
  <2>1. [term |-> Term[i] + 1, data |-> Noop] \in Entry
    BY <1>n DEF Entry
  <2>2. Append(log[i], [term |-> Term[i] + 1, data |-> Noop]) \in Seq(Entry)
    BY <1>n, <2>1, AppendProperties
  <2>3. Reboot(i, Append(log[i], [term |-> Term[i] + 1, data |-> Noop]),
               offset[i], Buffered(i))
    BY <1>2 DEF CrashCampaignAlone
  <2> QED
    BY <1>0, <1>n, <2>2, <2>3, BufferedType, RebootType
<1>3. ASSUME NEW m \in msgs, CrashInDrain(m.to, m) PROVE TypeOK'
  <2> DEFINE i == m.to
  <2>1. m \in Message /\ i \in Node
    BY <1>0, MessageFields DEF TypeOK
  <2>2. ASSUME m.type = "MsgAppend", NEW k \in FindConflict(i, m),
               NEW n \in k..Len(m.entries),
               Reboot(i, Spliced(i, m, n), offset[i], Buffered(i))
        PROVE  TypeOK'
    <3>1. m.entries \in Seq(Entry)
      BY <2>1, <2>2 DEF Message
    <3>2. k \in Nat /\ Len(m.entries) \in Nat
      BY <3>1, LenProperties DEF FindConflict
    <3>3. n \in Int /\ n <= Len(m.entries)
      BY <3>2
    <3>4. Spliced(i, m, n) \in Seq(Entry)
      BY <1>0, <2>1, <2>2, <3>3, SplicedType
    <3> QED
      BY <1>0, <1>n, <2>1, <2>2, <3>4, BufferedType, RebootType
  <2>3. ASSUME m.type = "MsgInstallSnapshot",
               Reboot(i, m.snapshot, Len(m.snapshot), hardState[i])
        PROVE  TypeOK'
    <3>1. m.snapshot \in Seq(Entry)
      BY <2>1, <2>3 DEF Message
    <3>2. Len(m.snapshot) \in Nat
      BY <3>1, LenProperties
    <3> QED
      BY <1>0, <2>1, <2>3, <3>1, <3>2, BufferedType, RebootType
  <2> QED
    BY <1>3, <2>2, <2>3 DEF CrashInDrain, FromLeader, Received
<1> QED
  BY <1>1, <1>2, <1>3

\* A node is a candidate or leader only in a term above zero, after any step.
LEMMA CampaignTermsStep ==
  ASSUME TypeInv, Next
  PROVE  CampaignTerms'
<1> USE DEF Follower, PreCandidate, Candidate, Leader
<1>0. /\ Term \in [Node -> Nat] /\ CampaignTerms
      /\ state \in [Node -> {Follower, PreCandidate, Candidate, Leader}]
  BY DEF TypeInv, TypeOK, RoleTypeOK
<1>m. \A m \in msgs : m.to \in Node
  BY MessageFields DEF TypeInv, TypeOK
<1>1. ASSUME NEW i \in Node, UNCHANGED <<Term, state>> PROVE CampaignTerms'
  BY <1>0, <1>1 DEF CampaignTerms
<1>2. ASSUME NEW i \in Node, NEW term, NEW vote, NEW leader,
             BecomeFollower(i, term, vote, leader)
      PROVE  CampaignTerms'
  BY <1>0, <1>2 DEF BecomeFollower, CampaignTerms
<1>3. ASSUME NEW i \in Node, BecomeCandidate(i) PROVE CampaignTerms'
  BY <1>0, <1>3 DEF BecomeCandidate, CampaignTerms
<1>4. ASSUME NEW i \in Node, PreCampaign(i) PROVE CampaignTerms'
  BY <1>0, <1>4 DEF PreCampaign, hardVars, CampaignTerms
<1>5. ASSUME NEW i \in Node, CampaignAlone(i) PROVE CampaignTerms'
  BY <1>0, <1>5 DEF CampaignAlone, BecomeLeader, CampaignTerms
<1>6. ASSUME NEW m \in msgs, WinElection(m.to, m) PROVE CampaignTerms'
  BY <1>0, <1>m, <1>6 DEF WinElection, BecomeLeader, hardVars, CampaignTerms
<1>7. ASSUME NEW m \in msgs, HandleVote(m.to, m) PROVE CampaignTerms'
  BY <1>m, <1>1, <1>2, <1>7 DEF HandleVote
<1>8. ASSUME \/ \E i \in Node : LeaseExpire(i) \/ TickHeartbeat(i) \/ ReadIndex(i)
             \/ \E i \in Node, c \in Command : Propose(i, c)
             \/ \E m \in msgs : \/ StickyReject(m.to, m) \/ StaleReply(m.to, m)
                                \/ HandlePreVote(m.to, m) \/ RecordVote(m.to, m)
                                \/ HandleAppendAck(m.to, m)
                                \/ HandleAppendReject(m.to, m)
                                \/ HandleHeartbeatResp(m.to, m)
                                \/ HandleSnapshotAck(m.to, m)
      PROVE  CampaignTerms'
  <2>1. UNCHANGED <<Term, state>>
    BY <1>8 DEF LeaseExpire, TickHeartbeat, ReadIndex, Propose, StickyReject,
                StaleReply, HandlePreVote, RecordVote, HandleAppendAck,
                HandleAppendReject, HandleHeartbeatResp, HandleSnapshotAck,
                hardVars, roleVars
  <2> QED
    BY <1>0, <2>1 DEF CampaignTerms
<1>9. ASSUME \/ \E i \in Node : Restart(i) \/ CrashCampaignAlone(i)
             \/ \E m \in msgs : \/ StepDown(m.to, m) \/ LoseElection(m.to, m)
                                \/ HandleAppend(m.to, m) \/ HandleHeartbeat(m.to, m)
                                \/ HandleSnapshot(m.to, m) \/ CrashInDrain(m.to, m)
      PROVE  CampaignTerms'
  BY <1>m, <1>2, <1>9
  DEF Restart, CrashCampaignAlone, StepDown, LoseElection, HandleAppend,
      HandleHeartbeat, HandleSnapshot, CrashInDrain, Reboot, FollowLeader
<1> QED
  BY <1>m, <1>3, <1>4, <1>5, <1>6, <1>7, <1>8, <1>9
  DEF Next, Campaign, WinPreVote

\* The inductive step, and what every later proof starts from.
THEOREM TypeStep == TypeInv /\ [Next]_vars => TypeInv'
<1> SUFFICES ASSUME TypeInv, [Next]_vars PROVE TypeInv'
  OBVIOUS
<1>1. CASE Next
  <2>1. TypeOK'
    BY <1>1, ElectionTypeStep, ReplicationTypeStep, CrashTypeStep DEF Next
  <2> QED
    BY <1>1, <2>1, CampaignTermsStep DEF TypeInv
<1>2. CASE UNCHANGED vars
  BY <1>2 DEF TypeInv, CampaignTerms, TypeOK, RoleTypeOK, LogTypeOK, ReadTypeOK,
              vars, hardVars, roleVars, progressVars, readVars, historyVars
<1> QED
  BY <1>1, <1>2

\* The inductive invariant holds of every execution of the drive loops.
THEOREM TypeInvariant == Spec => []TypeInv
BY TypeInit, TypeStep, PTL DEF Spec

\* Type correctness: in every execution, for every cluster and configuration, the
\* hard state, the logs, the progress of leaders and every message in flight are
\* well formed.
THEOREM TypeCorrect == Spec => []TypeOK
<1>1. TypeInv => TypeOK
  BY DEF TypeInv
<1> QED
  BY <1>1, TypeInvariant, PTL

=============================================================================
