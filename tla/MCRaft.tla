------------------------------- MODULE MCRaft -------------------------------
(* Instances of Raft for TLC.                                                *)
EXTENDS Raft, TLC

CONSTANTS n1, n2, n3

-----------------------------------------------------------------------------
(* Who may time out in which term.                                           *)

\* Two nodes compete in term 1, the third one in later terms.
Contested == [t \in 1..MaxTerm |-> IF t = 1 THEN {n1, n2} ELSE {n3}]

\* n1 and n2 take turns.
Alternating == [t \in 1..MaxTerm |-> IF t % 2 = 1 THEN {n1} ELSE {n2}]

\* Four scenarios, kept apart by their terms: 2 to 4, 5 and 6, 7 and 8, 9 and 10.
Staged == [t \in 1..MaxTerm |->
             IF t = 3 THEN {n1} ELSE IF t \in {4, 6, 8, 10} THEN {n2} ELSE {}]

\* n1 and n2 are interchangeable where terms end at 1.
Contenders == Permutations({n1, n2})

Anyone == [t \in 1..MaxTerm |-> Node]

NoReads == [t \in 1..MaxTerm |-> 0]
ReadsInSecond == [t \in 1..MaxTerm |-> IF t = 2 THEN 1 ELSE 0]
StagedReads == [t \in 1..MaxTerm |-> IF t \in {5, 8} THEN 1 ELSE 0]

-----------------------------------------------------------------------------
(* Later states to start from, so that a bounded run reaches further.  They   *)
(* are reachable: every message sent before is taken to be lost.             *)

\* Every node is in term t, for which voter i chose vote[i], with the given
\* durable logs and nothing committed.  leader, if any, has just been elected.
LaterInit(t, vote, logs, leader) ==
  LET last(i) == Len(logs[i])
      leads(i) == i = leader
  IN /\ Term = [i \in Node |-> t]
     /\ Vote = vote
     /\ hardState = [i \in Node |-> [Term |-> t, Vote |-> vote[i], Commit |-> 0]]
     /\ state = [i \in Node |-> IF leads(i) THEN Leader ELSE Follower]
     /\ lead = [i \in Node |-> IF leads(i) THEN i ELSE None]
     /\ lease = [i \in Node |-> TRUE]
     /\ granted = [i \in Node |-> {}]
     /\ rejected = [i \in Node |-> {}]
     /\ log = logs
     /\ offset = [i \in Node |-> 0]
     /\ committed = [i \in Node |-> 0]
     /\ match = [i \in Node |-> [j \in Node |->
                   IF leads(i) /\ j = i THEN last(i) ELSE 0]]
     /\ next = [i \in Node |-> [j \in Node |->
                   IF ~leads(i) THEN 1 ELSE IF j = i THEN last(i) + 1 ELSE last(i)]]
     /\ readOnly = [i \in Node |-> <<>>]
     /\ waiting = [i \in Node |-> <<>>]
     /\ readToken = [i \in Node |-> 0]
     /\ msgs = UNION {BcastAppend(i, t, logs[i], next[i], 0) :
                        i \in {j \in Node : leads(j)}}
     /\ restarts = 0
     /\ chosen = <<>>
     /\ served = {}

NoopAt(t) == [term |-> t, data |-> Noop]

\* Figure 8 (b): n1 led term 1 and n2, with the vote of n3, term 2; each wrote its
\* no-op to its own log only.  n2 stepped down when it was restarted.
Figure8Init ==
  /\ LaterInit(2, [i \in Node |-> IF i = n1 THEN None ELSE n2],
               [i \in Node |-> IF i = n1 THEN <<NoopAt(1)>>
                               ELSE IF i = n2 THEN <<NoopAt(2)>> ELSE <<>>], None)
  /\ leaderByTerm = {<<1, n1>>, <<2, n2>>}

\* n1 has won term t with every vote and sent its no-op.
LedInit(t) ==
  /\ LaterInit(t, [i \in Node |-> n1],
               [i \in Node |-> IF i = n1 THEN <<NoopAt(t)>> ELSE <<>>], n1)
  /\ leaderByTerm = {<<t, n1>>}

LedSpec == LedInit(1) /\ [][Next]_vars

\* Figure 8; a change of leader while the old one reads; one after which the new
\* one reads; heartbeats across a change of leader.
StagedSpec ==
  (Figure8Init \/ LedInit(5) \/ LedInit(7) \/ LedInit(9)) /\ [][Next]_vars

-----------------------------------------------------------------------------
(* A view for TLC.                                                           *)

\* Messages that can change nothing any more, whatever happens next.  Terms never
\* decrease, a node is a candidate or leader of a term at most once, and no node
\* campaigns above MaxTerm or for a term without campaigners.
FinalTerm(t) == t = MaxTerm \/ Campaigners[t + 1] = {}
Finished(i) == FinalTerm(Term[i]) /\ state[i] \notin {Candidate, Leader}

Dead(m) ==
  LET i == m.to
  IN CASE m.type = "MsgVoteResp" ->
            \/ m.term < Term[i]
            \/ m.term = Term[i] /\ (state[i] # Candidate
                                    \/ m.from \in granted[i] \cup rejected[i])
       [] m.type = "MsgPreVoteResp" ->
            m.term < Term[i] \/ (m.term = Term[i] /\ Finished(i)
                                 /\ state[i] # PreCandidate)
       [] m.type \in {"MsgAppendResp", "MsgHeartbeatResp",
                      "MsgInstallSnapshotResp"} ->
            \/ m.term < Term[i]
            \/ m.term = Term[i] /\ state[i] \in {Follower, PreCandidate}
       [] OTHER ->
            \/ m.term < Term[i] /\ Finished(m.from)
            \/ m.term = Term[i] /\ m.type \notin {"MsgVote", "MsgPreVote"}
               /\ state[i] = Leader

\* A request of an older term is answered without a look at its contents.
Essence(m) ==
  IF m.term < Term[m.to] /\ m.type \in {"MsgPreVote", "MsgVote", "MsgAppend",
                                       "MsgHeartbeat", "MsgInstallSnapshot"}
  THEN [type |-> m.type, from |-> m.from, to |-> m.to]
  ELSE m

\* Two states that differ in dead messages only behave alike.  What the
\* invariants on votes look at stays visible.
VoteGranted(m) == m.type \in {"MsgPreVoteResp", "MsgVoteResp"} /\ ~m.reject

LiveView ==
  <<Term, Vote, hardState, state, lead, lease, granted, rejected, log, offset,
    committed, match, next, readOnly, waiting, readToken,
    {Essence(m) : m \in {n \in msgs : ~Dead(n) \/ VoteGranted(n)}}, restarts, leaderByTerm, chosen, served>>
=============================================================================
