------------------------------ MODULE Progress ------------------------------
(* What a Raft leader brings about, over links that may lose a message but not     *)
(* one that is sent again and again.  A leader's heartbeats are: each tick sends    *)
(* one, each answer to it sends the next append or snapshot a follower lacks, and   *)
(* each of those is answered.  Nothing else is assumed to arrive.                  *)
EXTENDS MCRaft

CONSTANT MaxLate   \* bound: rejections that arrive after the follower has accepted

VARIABLE late

\* What leader i sends to j at a tick, and on the answer to it.
Beat(i, j) ==
  CHOOSE m \in BcastHeartbeat(i, match[i], committed[i], LastPendingCtx(i)) : m.to = j

Missing(i, j) == ReplicationMsg(i, j, Term[i], log[i], next[i][j], committed[i])

\* What j answers to Missing(i, j).
AnswerTo(m) ==
  LET j == m.to
  IN IF m.type = "MsgInstallSnapshot"
     THEN SnapshotAck(j, m.from, m.term, Greater(committed[j], Len(m.snapshot)))
     ELSE IF m.logIndex < committed[j] THEN AppendAck(j, m.from, m.term, committed[j])
     ELSE IF AppendAccepted(j, m)
     THEN AppendAck(j, m.from, m.term, m.logIndex + Len(m.entries))
     ELSE AppendReject(j, m)

Deliver(m) ==
  /\ m \in msgs
  /\ \/ HandleHeartbeat(m.to, m) \/ HandleAppend(m.to, m) \/ HandleSnapshot(m.to, m)
     \/ HandleHeartbeatResp(m.to, m)
     \/ HandleAppendAck(m.to, m) \/ HandleAppendReject(m.to, m) \/ HandleSnapshotAck(m.to, m)
     \/ StaleReply(m.to, m) \/ StepDown(m.to, m)

\* One of the messages between leader i and j that are sent again and again arrives.
Arrives(i, j) ==
  /\ state[i] = Leader
  /\ \E m \in {Beat(i, j), HeartbeatReply(j, i, Term[j], LastPendingCtx(i)),
              Missing(i, j), AnswerTo(Missing(i, j))} : Deliver(m)

\* Arrivals that do no more than renew a lease do not count.
essentials == <<hardVars, state, log, committed, progressVars, readVars, msgs>>

\* The nodes that lead or may come to.
Leaders == {n1} \cup UNION {Campaigners[t] : t \in 1..MaxTerm}

Links == \A i \in Leaders : /\ WF_vars(TickHeartbeat(i))
                           /\ \A j \in Peers(i) : SF_essentials(Arrives(i, j))

OneRead == [t \in 1..MaxTerm |-> IF t = 5 THEN 1 ELSE 0]
NoCampaigns == [t \in 1..MaxTerm |-> {}]

\* n1 leads term 3 with the vote of n3; the log of n2 ends differently, and n3 has
\* nothing.
CatchUpInit ==
  /\ LaterInit(3, [i \in Node |-> IF i = n2 THEN None ELSE n1],
               [i \in Node |-> IF i = n1 THEN <<NoopAt(1), NoopAt(3)>>
                               ELSE IF i = n2 THEN <<NoopAt(2), NoopAt(2)>> ELSE <<>>], n1)
  /\ leaderByTerm = {<<1, n1>>, <<2, n2>>, <<3, n1>>}

\* n1 leads term 5; its no-op is in every log, and no answer has arrived.
ReadInit ==
  /\ LaterInit(5, [i \in Node |-> n1], [i \in Node |-> <<NoopAt(5)>>], n1)
  /\ leaderByTerm = {<<5, n1>>}

\* A rejection moves Next back although the follower would not reject any more.  The
\* transport hands over no message twice, so this does not go on for ever.
LateReject ==
  \E i \in Leaders : \E j \in Peers(i) :
    /\ state[i] = Leader /\ Term'[i] = Term[i] /\ next'[i][j] < next[i][j]
    /\ ~(Missing(i, j).type = "MsgAppend" /\ AnswerTo(Missing(i, j)).reject)

\* No lease runs out: a follower that has heard of the leader stands by it.
ProgressNext ==
  /\ Next
  /\ late' = late + IF LateReject THEN 1 ELSE 0
  /\ late' <= MaxLate
  /\ lease' = lease

ProgressSpec ==
  /\ (CatchUpInit \/ ReadInit) /\ late = 0
  /\ [][ProgressNext]_<<vars, late>>
  /\ Links

\* A node that stays leader has its whole log stored and committed everywhere in the
\* end, whatever was lost and however the followers' logs differ (sendHeartbeat,
\* handleHeartbeatResp, decrHint, handleAppendResp, handleSnapshotResp).
LeaderCatchesUp ==
  \A i \in Leaders : <>[](state[i] = Leader) =>
    <>[](\A j \in Node : log[j] = log[i] /\ committed[j] = Len(log[i]))

\* A read a leader has accepted is answered or given up with the leadership, also
\* when it has to wait for the first commit of the term (releasePendingReadIndexMessages,
\* lastPendingRequestCtx).
ReadsEnd ==
  \A i \in Leaders : (readOnly[i] # <<>> \/ waiting[i] # <<>>) ~> (readOnly[i] = <<>> /\ waiting[i] = <<>>)

=============================================================================
