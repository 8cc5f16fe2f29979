---------------------------- MODULE RaftElection ----------------------------
(***************************************************************************)
(* Election safety of Raft for every cluster, configuration and bound.      *)
(***************************************************************************)
EXTENDS RaftVotes

-----------------------------------------------------------------------------
(* The actions that vote and count votes.                                    *)

\* A candidate votes for itself in a term it had not voted in.
LEMMA BecomeCandidateStep ==
  ASSUME TypeOK, VoteInv, NEW i \in Node, BecomeCandidate(i)
  PROVE  /\ Durable' /\ VoteMonotone /\ VotesJustified
         /\ BallotsCast' /\ LeadersElected'
<1>0. /\ Term \in [Node -> Nat] /\ Vote \in [Node -> Node \cup {None}]
      /\ DOMAIN state = Node /\ DOMAIN granted = Node
  BY DEF TypeOK, RoleTypeOK
<1>1. /\ Term' = [Term EXCEPT ![i] = @ + 1] /\ Vote' = [Vote EXCEPT ![i] = i]
      /\ state' = [state EXCEPT ![i] = Candidate]
      /\ granted' = [granted EXCEPT ![i] = {i}]
      /\ msgs' = msgs \cup {VoteReq("MsgVote", i, j, Term[i] + 1) : j \in Peers(i)}
      /\ leaderByTerm' = leaderByTerm /\ Drain(i, offset[i])
  BY DEF BecomeCandidate, Send
<1>2. /\ Term'[i] = Term[i] + 1 /\ Vote'[i] = i /\ Term[i] \in Nat
      /\ \A j \in Node : j # i => Term'[j] = Term[j] /\ Vote'[j] = Vote[j]
  BY <1>0, <1>1
<1>3. Durable'
  BY <1>1, <1>2, DrainDurable DEF VoteInv
<1>4. VoteMonotone
  BY <1>2 DEF VoteMonotone
<1>5. ASSUME NEW m \in msgs', m \notin msgs
      PROVE  m.type = "MsgVote" /\ m.from = i /\ m.term = Term'[i]
  BY <1>1, <1>2, <1>5 DEF VoteReq
<1>6. VotesJustified
  <2> SUFFICES ASSUME NEW v \in Node, NEW c \in Node, NEW t \in Nat,
                      Cast(v, c, t)', ~Cast(v, c, t)
               PROVE  /\ Term'[v] = t /\ Vote'[v] = c
                      /\ Term[v] < t \/ Vote[v] \in {None, c}
    BY <1>1 DEF VotesJustified
  <2>1. PICK m \in msgs' : CastBy(m, v, c, t) /\ m \notin msgs
    BY DEF Cast, CastBy
  <2>2. v = i /\ c = i /\ t = Term'[i]
    BY <1>5, <2>1 DEF CastBy
  <2> QED
    BY <1>2, <2>2
<1>7. ASSUME Quorum > 1, NEW k \in Node, state'[k] = Candidate, NEW v \in granted'[k]
      PROVE  Cast(v, k, Term[k])'
  <2>1. CASE k = i
    <3>1. v = i
      BY <1>0, <1>1, <1>7, <2>1
    <3>2. PICK j \in Peers(i) : TRUE
      <4>1. Peers(i) # {}
        <5>1. CASE Node = {i}
          <6>1. Cardinality(Node) = 1
            BY <5>1, FS_Singleton
          <6>2. Quorum = 1
            BY <6>1 DEF Quorum
          <6> QED
            BY <1>7, <6>2
        <5> QED
          BY <5>1 DEF Peers
      <4> QED
        BY <4>1
    <3>3. VoteReq("MsgVote", i, j, Term[i] + 1) \in msgs'
      BY <1>1
    <3>4. /\ VoteReq("MsgVote", i, j, Term[i] + 1).type = "MsgVote"
          /\ VoteReq("MsgVote", i, j, Term[i] + 1).from = i
          /\ VoteReq("MsgVote", i, j, Term[i] + 1).term = Term'[i]
      BY <1>2 DEF VoteReq
    <3> QED
      BY <2>1, <3>1, <3>3, <3>4 DEF Cast, CastBy
  <2>2. CASE k # i
    <3>1. state[k] = Candidate /\ v \in granted[k] /\ Term'[k] = Term[k]
      BY <1>0, <1>1, <1>2, <1>7, <2>2
    <3>2. PICK t : t = Term[k] /\ t = Term'[k] /\ Cast(v, k, t)
      BY <1>7, <3>1 DEF VoteInv, BallotsCast
    <3>3. Cast(v, k, t)'
      BY <1>1, <3>2, CastStays
    <3> QED
      BY <3>2, <3>3 DEF Cast
  <2> QED
    BY <2>1, <2>2
<1>8. BallotsCast'
  BY <1>7 DEF BallotsCast
<1>9. LeadersElected'
  BY <1>1, ElectedStays DEF VoteInv, LeadersElected
<1> QED
  BY <1>3, <1>4, <1>6, <1>8, <1>9

\* handleVoteRequest grants only what it records, and only once per term.
LEMMA HandleVoteStep ==
  ASSUME TypeOK, VoteInv, NEW m \in msgs, HandleVote(m.to, m)
  PROVE  Durable' /\ VoteMonotone /\ VotesJustified /\ Bystander
<1> DEFINE i == m.to
           grant == CanVote(i, m) /\ IsUpToDate(i, m)
           vote == IF grant THEN m.from ELSE None
           reply == VoteReply("MsgVoteResp", i, m.from, m.term, ~grant)
<1>0. /\ i \in Node /\ m.from \in Node /\ m.term \in Nat
      /\ Term \in [Node -> Nat] /\ Vote \in [Node -> Node \cup {None}]
  BY MessageFields DEF TypeOK, RoleTypeOK
<1>1. /\ m.term >= Term[i] /\ msgs' = msgs \cup {reply}
      /\ leaderByTerm' = leaderByTerm /\ Drain(i, offset[i])
      /\ \/ m.term > Term[i] /\ BecomeFollower(i, m.term, vote, None)
         \/ /\ m.term = Term[i]
            /\ Vote' = [Vote EXCEPT ![i] = IF grant THEN m.from ELSE @]
            /\ UNCHANGED <<Term, state, granted>>
  BY DEF HandleVote, Send
<1>2. grant => m.term > Term[i] \/ Vote[i] \in {None, m.from}
  BY DEF CanVote
<1>3. /\ reply.type = "MsgVoteResp" /\ reply.from = i /\ reply.to = m.from
      /\ reply.term = m.term /\ reply.reject = ~grant
  BY DEF VoteReply
<1> HIDE DEF grant, reply
<1>4. /\ VoteMonotone
      /\ \A j \in Node : j # i => Term'[j] = Term[j] /\ Vote'[j] = Vote[j]
      /\ \A j \in Node : state'[j] = Candidate =>
           state[j] = Candidate /\ Term'[j] = Term[j] /\ granted'[j] = granted[j]
      /\ Term'[i] = m.term /\ (grant => Vote'[i] = m.from)
  <2>1. CASE m.term > Term[i] /\ BecomeFollower(i, m.term, vote, None)
    <3>1. Term'[i] = m.term /\ Vote'[i] = vote
      BY <1>0, <2>1 DEF BecomeFollower
    <3> HIDE DEF i, vote
    <3>2. /\ VoteMonotone
          /\ \A j \in Node : j # i => Term'[j] = Term[j] /\ Vote'[j] = Vote[j]
          /\ \A j \in Node : state'[j] = Candidate =>
              state[j] = Candidate /\ Term'[j] = Term[j] /\ granted'[j] = granted[j]
      BY <1>0, <2>1, FollowStep
    <3> QED
      BY <3>1, <3>2 DEF vote
  <2>2. CASE /\ m.term = Term[i]
             /\ Vote' = [Vote EXCEPT ![i] = IF grant THEN m.from ELSE @]
             /\ UNCHANGED <<Term, state, granted>>
    BY <1>0, <1>2, <2>2 DEF VoteMonotone
  <2> QED
    BY <1>1, <2>1, <2>2
<1>5. Durable'
  BY <1>0, <1>1, <1>4, DrainDurable DEF VoteInv
<1>6. VotesJustified
  <2> SUFFICES ASSUME NEW v \in Node, NEW c \in Node, NEW t \in Nat,
                      Cast(v, c, t)', ~Cast(v, c, t)
               PROVE  /\ Term'[v] = t /\ Vote'[v] = c
                      /\ Term[v] < t \/ Vote[v] \in {None, c}
    BY <1>1 DEF VotesJustified
  <2>1. CastBy(reply, v, c, t)
    BY <1>1 DEF Cast, CastBy
  <2>2. grant /\ v = i /\ c = m.from /\ t = m.term
    BY <1>3, <2>1 DEF CastBy
  <2> QED
    BY <1>2, <1>4, <2>2
<1> QED
  BY <1>1, <1>4, <1>5, <1>6 DEF Bystander

\* A ballot a candidate counts was cast for it in its term.
LEMMA RecordVoteStep ==
  ASSUME TypeOK, VoteInv, NEW m \in msgs, RecordVote(m.to, m)
  PROVE  Durable' /\ VoteMonotone /\ BallotsCast' /\ LeadersElected'
<1> DEFINE i == m.to
<1>0. i \in Node /\ DOMAIN granted = Node
  BY MessageFields DEF TypeOK, RoleTypeOK
<1>1. /\ UNCHANGED <<Term, Vote, hardState, state, msgs, leaderByTerm>>
      /\ Ballot(i, m) /\ granted' = [granted EXCEPT ![i] = Granted(i, m)]
  BY DEF RecordVote, hardVars, historyVars
<1>2. Durable' /\ VoteMonotone
  BY <1>1 DEF VoteInv, Durable, VoteMonotone
<1>3. ASSUME NEW v, NEW c, NEW t
      PROVE  Cast(v, c, t)' <=> Cast(v, c, t)
  BY <1>1 DEF Cast, CastBy
<1>4. ASSUME Quorum > 1, NEW k \in Node, state[k] = Candidate, NEW v \in granted'[k]
      PROVE  Cast(v, k, Term[k])
  <2>1. CASE v \in granted[k]
    BY <1>4, <2>1 DEF VoteInv, BallotsCast
  <2>2. CASE v \notin granted[k]
    <3>1. k = i /\ v \in Granted(i, m)
      BY <1>0, <1>1, <1>4, <2>2
    <3>2. v = m.from /\ ~m.reject
      BY <2>2, <3>1 DEF Granted
    <3>3. m.type = "MsgVoteResp" /\ m.term = Term[i]
      BY <1>1, <1>4, <3>1 DEF Ballot, PreCandidate, Candidate
    <3> QED
      BY <3>1, <3>2, <3>3 DEF Cast, CastBy
  <2> QED
    BY <2>1, <2>2
<1>5. BallotsCast'
  <2> SUFFICES ASSUME Quorum > 1, NEW k \in Node, state'[k] = Candidate,
                      NEW v \in granted'[k]
               PROVE  Cast(v, k, Term[k])'
    BY DEF BallotsCast
  <2>1. Cast(v, k, Term[k])
    BY <1>1, <1>4
  <2> QED
    BY <1>1, <2>1 DEF Cast
<1>6. LeadersElected'
  BY <1>1, ElectedStays DEF VoteInv, LeadersElected
<1> QED
  BY <1>2, <1>5, <1>6

\* A new leader has a quorum of votes behind it.
LEMMA WinElectionStep ==
  ASSUME TypeOK, VoteInv, NEW m \in msgs, WinElection(m.to, m)
  PROVE  Durable' /\ VoteMonotone /\ BallotsCast' /\ LeadersElected'
<1> DEFINE i == m.to
<1>0. i \in Node /\ m.from \in Node /\ DOMAIN state = Node /\ DOMAIN granted = Node
      /\ granted[i] \in SUBSET Node
  BY MessageFields DEF TypeOK, RoleTypeOK
<1>1. /\ UNCHANGED <<Term, Vote>> /\ Drain(i, offset[i])
      /\ Ballot(i, m) /\ state[i] = Candidate /\ Cardinality(Granted(i, m)) >= Quorum
      /\ state' = [state EXCEPT ![i] = Leader]
      /\ granted' = [granted EXCEPT ![i] = {}]
      /\ leaderByTerm' = leaderByTerm \cup {<<Term[i], i>>}
  BY DEF WinElection, BecomeLeader, hardVars
<1>2. msgs \subseteq msgs'
  BY DEF WinElection, Send
<1>3. Durable' /\ VoteMonotone
  BY <1>0, <1>1, DrainDurable DEF VoteInv, VoteMonotone
<1>4. BallotsCast'
  <2> SUFFICES ASSUME Quorum > 1, NEW k \in Node, state'[k] = Candidate,
                      NEW v \in granted'[k]
               PROVE  Cast(v, k, Term[k])'
    BY DEF BallotsCast
  <2>1. state[k] = Candidate /\ v \in granted[k]
    BY <1>0, <1>1 DEF Leader, Candidate
  <2>2. PICK t : t = Term[k] /\ t = Term'[k] /\ Cast(v, k, t)
    BY <1>1, <2>1 DEF VoteInv, BallotsCast
  <2>3. Cast(v, k, t)'
    BY <1>2, <2>2, CastStays
  <2> QED
    BY <2>2, <2>3 DEF Cast
<1>5. ASSUME Quorum > 1 PROVE Elected(Term[i], i)
  <2>1. m.type = "MsgVoteResp" /\ m.term = Term[i]
    BY <1>1 DEF Ballot, PreCandidate, Candidate
  <2>2. ASSUME NEW v \in Granted(i, m) PROVE Cast(v, i, Term[i])
    <3>1. CASE v \in granted[i]
      BY <1>0, <1>1, <1>5, <3>1 DEF VoteInv, BallotsCast
    <3>2. CASE v \notin granted[i]
      BY <2>1, <2>2, <3>2 DEF Granted, Cast, CastBy
    <3> QED
      BY <3>1, <3>2
  <2>3. Granted(i, m) \in SUBSET Node
    BY <1>0 DEF Granted
  <2> QED
    BY <1>1, <2>2, <2>3 DEF Elected
<1>6. LeadersElected'
  <2> SUFFICES ASSUME Quorum > 1, NEW a \in leaderByTerm'
               PROVE  Elected(a[1], a[2])'
    BY DEF LeadersElected
  <2>1. Elected(a[1], a[2])
    <3>1. CASE a \in leaderByTerm
      BY <3>1 DEF VoteInv, LeadersElected
    <3>2. CASE a = <<Term[i], i>>
      BY <1>5, <3>2
    <3> QED
      BY <1>1, <3>1, <3>2
  <2> QED
    BY <1>2, <2>1, ElectedStays
<1> QED
  BY <1>3, <1>4, <1>6

\* A lone node elects itself.
LEMMA CampaignAloneStep ==
  ASSUME TypeOK, VoteInv, NEW i \in Node, CampaignAlone(i)
  PROVE  Durable' /\ VoteMonotone /\ BallotsCast' /\ LeadersElected'
<1>1. /\ Quorum = 1 /\ Drain(i, offset[i])
      /\ Term' = [Term EXCEPT ![i] = @ + 1] /\ Vote' = [Vote EXCEPT ![i] = i]
  BY DEF CampaignAlone, BecomeLeader
<1>2. /\ Term'[i] = Term[i] + 1 /\ Term[i] \in Nat
      /\ \A j \in Node : j # i => Term'[j] = Term[j] /\ Vote'[j] = Vote[j]
  BY <1>1 DEF TypeOK, RoleTypeOK
<1>3. Durable'
  BY <1>1, <1>2, DrainDurable DEF VoteInv
<1>4. VoteMonotone
  BY <1>2 DEF VoteMonotone
<1> QED
  BY <1>1, <1>3, <1>4 DEF BallotsCast, LeadersElected

-----------------------------------------------------------------------------
(* The theorems.                                                             *)

\* No vote is cast and no leader elected at the start.
LEMMA VoteInit == Init => VoteInv
<1> SUFFICES ASSUME Init PROVE VoteInv
  OBVIOUS
<1>1. Durable
  BY DEF Init, Durable
<1>2. ASSUME NEW v, NEW c, NEW t PROVE ~Cast(v, c, t)
  BY DEF Init, Cast
<1>3. BallotsCast
  BY DEF Init, BallotsCast, Follower, Candidate
<1> QED
  BY <1>1, <1>2, <1>3
  DEF Init, VoteInv, VotesRemembered, VotesUnique, LeadersElected

\* One case per action.
LEMMA VoteNext ==
  ASSUME TypeInv, VoteInv, Next
  PROVE  VoteInv' /\ VoteMonotone
<1>0. TypeOK /\ TypeOK' /\ Durable
  BY TypeStep DEF TypeInv, VoteInv
<1>1. ASSUME Durable', VoteMonotone, VotesJustified, BallotsCast', LeadersElected'
      PROVE  VoteInv' /\ VoteMonotone
  BY <1>0, <1>1, VoteStep DEF VoteInv
<1>2. ASSUME Durable', VoteMonotone, Bystander, Quiet
      PROVE  VoteInv' /\ VoteMonotone
  BY <1>1, <1>2, QuietJustified, BystanderStep DEF Quiet
<1>3. CASE \/ \E i \in Node : \/ LeaseExpire(i) \/ PreCampaign(i) \/ TickHeartbeat(i)
                              \/ ReadIndex(i) \/ Restart(i) \/ CrashCampaignAlone(i)
           \/ \E i \in Node, c \in Command : Propose(i, c)
  <2>1. Quiet
    BY <1>3, QuietActions
  <2>2. Durable' /\ VoteMonotone /\ Bystander
    BY <1>0, <1>3, BystanderActions
  <2> QED
    BY <1>2, <2>1, <2>2
<1>4. CASE \E m \in msgs :
             \/ StickyReject(m.to, m) \/ StaleReply(m.to, m) \/ HandlePreVote(m.to, m)
             \/ StepDown(m.to, m) \/ LoseElection(m.to, m) \/ HandleAppend(m.to, m)
             \/ HandleHeartbeat(m.to, m) \/ HandleSnapshot(m.to, m)
             \/ HandleAppendAck(m.to, m) \/ HandleAppendReject(m.to, m)
             \/ HandleHeartbeatResp(m.to, m) \/ HandleSnapshotAck(m.to, m)
             \/ CrashInDrain(m.to, m)
  <2>1. Quiet
    BY <1>4, QuietActions
  <2>2. Durable' /\ VoteMonotone /\ Bystander
    BY <1>0, <1>4, BystanderActions
  <2> QED
    BY <1>2, <2>1, <2>2
<1>5. ASSUME NEW i \in Node, Campaign(i) PROVE VoteInv' /\ VoteMonotone
  BY <1>0, <1>1, <1>5, BecomeCandidateStep DEF Campaign
<1>6. ASSUME NEW m \in msgs, WinPreVote(m.to, m) PROVE VoteInv' /\ VoteMonotone
  <2>1. m.to \in Node /\ BecomeCandidate(m.to)
    BY <1>0, <1>6, MessageFields DEF WinPreVote, TypeOK
  <2> QED
    BY <1>0, <1>1, <2>1, BecomeCandidateStep
<1>7. ASSUME NEW m \in msgs, HandleVote(m.to, m) PROVE VoteInv' /\ VoteMonotone
  <2>1. Durable' /\ VoteMonotone /\ VotesJustified /\ Bystander
    BY <1>0, <1>7, HandleVoteStep
  <2>2. BallotsCast' /\ LeadersElected'
    BY <2>1, BystanderStep DEF VotesJustified
  <2> QED
    BY <1>1, <2>1, <2>2
<1>8. ASSUME NEW i \in Node, CampaignAlone(i) PROVE VoteInv' /\ VoteMonotone
  BY <1>0, <1>1, <1>8, CampaignAloneStep, QuietActions, QuietJustified
<1>9. ASSUME NEW m \in msgs, RecordVote(m.to, m) PROVE VoteInv' /\ VoteMonotone
  BY <1>0, <1>1, <1>9, RecordVoteStep, QuietActions, QuietJustified
<1>10. ASSUME NEW m \in msgs, WinElection(m.to, m) PROVE VoteInv' /\ VoteMonotone
  BY <1>0, <1>1, <1>10, WinElectionStep, QuietActions, QuietJustified
<1> QED
  BY <1>3, <1>4, <1>5, <1>6, <1>7, <1>8, <1>9, <1>10 DEF Next

\* The inductive invariant of elections holds of every execution.
THEOREM VoteInvariant == Spec => [](TypeInv /\ VoteInv)
<1>1. TypeInv /\ VoteInv /\ [Next]_vars => (TypeInv /\ VoteInv)'
  <2> SUFFICES ASSUME TypeInv, VoteInv, [Next]_vars PROVE VoteInv'
    BY TypeStep
  <2>1. CASE UNCHANGED vars
    <3>1. UNCHANGED <<Term, Vote, hardState, state, granted, leaderByTerm, msgs>>
      BY <2>1 DEF vars, hardVars, roleVars, historyVars
    <3> QED
      BY <3>1 DEF VoteInv, Durable, VotesRemembered, VotesUnique, BallotsCast,
                  LeadersElected, Elected, Cast
  <2> QED
    BY <2>1, VoteNext
<1> QED
  BY <1>1, TypeInit, VoteInit, PTL DEF Spec

\* Two leaders of a term would share a voter, and nobody votes twice in a term.
LEMMA VotesDecide == TypeInv /\ VoteInv => ElectionSafety
<1> SUFFICES ASSUME TypeInv, VoteInv, NEW a \in leaderByTerm, NEW b \in leaderByTerm,
                    a[1] = b[1]
             PROVE  a[2] = b[2]
  BY DEF ElectionSafety
<1>1. a[1] \in Nat /\ a[2] \in Node /\ b[2] \in Node
  BY DEF TypeInv, TypeOK, RoleTypeOK
<1>2. CASE Quorum > 1
  <2>1. Elected(a[1], a[2]) /\ Elected(a[1], b[2])
    BY <1>2 DEF VoteInv, LeadersElected
  <2>2. PICK P \in SUBSET Node :
          Cardinality(P) >= Quorum /\ \A v \in P : Cast(v, a[2], a[1])
    BY <2>1 DEF Elected
  <2>3. PICK Q \in SUBSET Node :
          Cardinality(Q) >= Quorum /\ \A v \in Q : Cast(v, b[2], a[1])
    BY <2>1 DEF Elected
  <2>4. PICK v \in Node : v \in P /\ v \in Q
    BY <2>2, <2>3, QuorumsIntersect
  <2> QED
    BY <1>1, <2>2, <2>3, <2>4 DEF VoteInv, VotesUnique
<1>3. CASE ~(Quorum > 1)
  <2>1. Cardinality(Node) \in Nat /\ Cardinality(Node) < 2
    BY <1>3, QuorumType DEF Quorum
  <2>2. Cardinality(Node) # 0
    BY NodeAssumption, FS_EmptySet
  <2>3. Cardinality(Node) = 1
    BY <2>1, <2>2
  <2>4. PICK n : Node = {n}
    BY <2>3, NodeAssumption, FS_Singleton
  <2> QED
    BY <1>1, <2>4
<1> QED
  BY <1>2, <1>3

\* Election safety: no term has two leaders in any execution, for every cluster,
\* with and without PreVote, with messages lost, repeated and reordered and with
\* crashes between any two inputs or inside a drain.
THEOREM AtMostOneLeader == Spec => []ElectionSafety
BY VoteInvariant, VotesDecide, PTL

\* A node never grants two votes in a term, also when it restarts in between.
THEOREM VotesOnce == Spec => []OneVotePerTerm
<1>1. TypeInv /\ VoteInv => OneVotePerTerm
  <2> SUFFICES ASSUME TypeInv, VoteInv, NEW m \in msgs, NEW n \in msgs,
                      m.type = "MsgVoteResp", ~m.reject,
                      n.type = "MsgVoteResp", ~n.reject,
                      m.from = n.from, m.term = n.term
               PROVE  m.to = n.to
    BY DEF OneVotePerTerm
  <2>1. m.from \in Node /\ m.to \in Node /\ n.to \in Node /\ m.term \in Nat
    BY MessageFields DEF TypeInv, TypeOK
  <2>2. Cast(m.from, m.to, m.term) /\ Cast(m.from, n.to, m.term)
    BY DEF Cast, CastBy
  <2> QED
    BY <2>1, <2>2 DEF VoteInv, VotesUnique
<1> QED
  BY <1>1, VoteInvariant, PTL

\* No step, a restart included, takes a node back to an earlier term.
THEOREM TermsGrow == Spec => TermNeverDecreases
<1>1. TypeInv /\ VoteInv /\ [Next]_vars
        => [\A i \in Node : Term'[i] >= Term[i]]_vars
  <2> SUFFICES ASSUME TypeInv, VoteInv, Next, NEW i \in Node
               PROVE  Term'[i] >= Term[i]
    OBVIOUS
  <2>1. VoteMonotone
    BY VoteNext
  <2>2. Term[i] \in Nat /\ Term'[i] \in Nat
    BY TypeStep DEF TypeInv, TypeOK, RoleTypeOK
  <2> QED
    BY <2>1, <2>2 DEF VoteMonotone
<1> QED
  BY <1>1, VoteInvariant, PTL DEF Spec, TermNeverDecreases

=============================================================================
