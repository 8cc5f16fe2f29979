---------------------------- MODULE RaftArchive -----------------------------
(***************************************************************************)
(* The logs of Raft: the inductive invariant of Log Matching, and what a    *)
(* step may do to it.                                                       *)
(*                                                                          *)
(* The argument: collect in a set P every log a node ever held, and every   *)
(* prefix of one.  Only the leader of a term adds to P, one entry at a      *)
(* time, and it holds every entry of its term, so that no two members of P  *)
(* have different entries of a term at an index.  A batch in flight is a    *)
(* slice of a member, a snapshot is a member, and what a follower stores,   *)
(* a batch cut short by a crash included, is a member again.                *)
(***************************************************************************)
EXTENDS RaftElection

PrefixClosed(P) == \A L \in P : \A n \in 0..Len(L) : SubSeq(L, 1, n) \in P

Matching(P) ==
  \A K, L \in P : \A k \in 1..Len(K) :
    k <= Len(L) /\ K[k].term = L[k].term => SubSeq(K, 1, k) = SubSeq(L, 1, k)

Logs(P) == P \in SUBSET Seq(Entry) /\ PrefixClosed(P) /\ Matching(P)

\* The batch m carries is the part of L above m.logIndex.
SliceOf(L, m) ==
  /\ m.logIndex + Len(m.entries) <= Len(L)
  /\ m.logTerm = IF m.logIndex = 0 THEN 0 ELSE L[m.logIndex].term
  /\ \A k \in 1..Len(m.entries) : m.entries[k] = L[m.logIndex + k]

Carried(P, m) ==
  /\ m.type = "MsgAppend" /\ m.entries # <<>> => \E L \in P : SliceOf(L, m)
  /\ m.type = "MsgInstallSnapshot" => m.snapshot \in P

-----------------------------------------------------------------------------
(* Members of P.                                                             *)

\* Prefixes of a log: their length, their entries and their type.
LEMMA Prefixes ==
  ASSUME NEW L \in Seq(Entry), NEW n \in 0..Len(L)
  PROVE  /\ SubSeq(L, 1, n) \in Seq(Entry)
         /\ Len(SubSeq(L, 1, n)) = n
         /\ \A k \in 1..n : SubSeq(L, 1, n)[k] = L[k]
<1>1. Len(L) \in Nat /\ 1 \in Int /\ n \in Int
  BY LenProperties
<1>2. \A k \in 1..n : L[k] \in Entry
  BY <1>1, ElementOfSeq
<1>3. /\ SubSeq(L, 1, n) \in Seq(Entry)
      /\ Len(SubSeq(L, 1, n)) = IF 1 <= n THEN n - 1 + 1 ELSE 0
      /\ \A k \in 1..(n - 1 + 1) : SubSeq(L, 1, n)[k] = L[1 + k - 1]
  BY <1>1, <1>2, SubSeqProperties
<1>4. \A k \in 1..n : L[1 + k - 1] = L[k]
  BY <1>1
<1> QED
  BY <1>1, <1>3, <1>4

\* A term found at an index is the term of an entry there.
LEMMA TermFound ==
  ASSUME NEW lg \in Seq(Entry), NEW off \in Nat, NEW b \in Nat \ {0},
         NEW t \in Nat \ {0}, TermOf(lg, off, b) = t
  PROVE  b \in 1..Len(lg) /\ lg[b].term = t
<1>1. Len(lg) \in Nat
  BY LenProperties
<1> QED
  BY <1>1 DEF TermOf

\* A member that has the term of another at an index shares the prefix.
LEMMA SharedPrefix ==
  ASSUME NEW P, Logs(P), NEW K \in P, NEW L \in P, NEW off \in Nat,
         NEW b \in Nat \ {0}, b <= Len(L), TermOf(K, off, b) = L[b].term
  PROVE  b <= Len(K) /\ SubSeq(K, 1, b) = SubSeq(L, 1, b)
<1>1. K \in Seq(Entry) /\ L \in Seq(Entry) /\ Len(L) \in Nat
  BY LenProperties DEF Logs
<1>2. L[b].term \in Nat \ {0}
  <2>1. b \in 1..Len(L)
    BY <1>1
  <2>2. L[b] \in Entry
    BY <1>1, <2>1, ElementOfSeq
  <2> QED
    BY <2>2 DEF Entry
<1>3. b \in 1..Len(K) /\ K[b].term = L[b].term
  BY <1>1, <1>2, TermFound
<1> QED
  BY <1>1, <1>3 DEF Logs, Matching

\* The log maybeAppend leaves behind, for a whole batch or the first n entries
\* of it, is a prefix of the log the batch was cut from.
LEMMA SplicedIn ==
  ASSUME TypeOK, NEW P, Logs(P), NEW i \in Node, log[i] \in P,
         NEW m \in Message, m.type = "MsgAppend", Carried(P, m),
         MatchTerm(i, m.logIndex, m.logTerm),
         NEW n \in Nat, n <= Len(m.entries),
         \A k \in FindConflict(i, m) : k <= n
  PROVE  Spliced(i, m, n) \in P
<1>1. /\ m.entries \in Seq(Entry) /\ m.logIndex \in Nat /\ m.logTerm \in Nat
      /\ offset[i] \in Nat /\ log[i] \in Seq(Entry)
  BY DEF Message, TypeOK, LogTypeOK
<1>2. Len(m.entries) \in Nat /\ Len(log[i]) \in Nat
  BY <1>1, LenProperties
<1>3. CASE FindConflict(i, m) = {}
  BY <1>3 DEF Spliced
<1>4. CASE FindConflict(i, m) # {}
  <2> DEFINE k == CHOOSE c \in FindConflict(i, m) : TRUE
  <2>1. k \in FindConflict(i, m)
    BY <1>4
  <2>2. Spliced(i, m, n) = Prefix(log[i], m.logIndex + k - 1) \o SubSeq(m.entries, k, n)
    BY <1>4 DEF Spliced
  <2> HIDE DEF k
  <2> DEFINE b == m.logIndex + k - 1
  <2>3. /\ k \in 1..Len(m.entries) /\ k <= n
        /\ \A j \in 1..(k - 1) : MatchTerm(i, m.logIndex + j, m.entries[j].term)
    BY <2>1 DEF FindConflict
  <2>4. b \in Nat
    BY <1>1, <1>2, <2>3
  <2>5. m.entries # <<>>
    BY <2>3, <1>2, EmptySeq
  <2>6. PICK L \in P : SliceOf(L, m)
    BY <2>5 DEF Carried
  <2>7. L \in Seq(Entry) /\ Len(L) \in Nat
    BY LenProperties DEF Logs
  <2>8. m.logIndex + Len(m.entries) <= Len(L)
    BY <2>6 DEF SliceOf
  <2>9. b <= Len(log[i]) /\ SubSeq(log[i], 1, b) = SubSeq(L, 1, b)
    <3>1. CASE b = 0
      BY <1>2, <3>1, SubSeqEmpty
    <3>2. CASE b > 0 /\ k = 1
      <4>1. b = m.logIndex /\ b \in Nat \ {0} /\ b <= Len(L)
        BY <1>1, <1>2, <2>4, <2>7, <2>8, <3>2
      <4>2. TermOf(log[i], offset[i], b) = L[b].term
        BY <2>6, <4>1 DEF SliceOf, MatchTerm
      <4> QED
        BY <1>1, <4>1, <4>2, SharedPrefix
    <3>3. CASE b > 0 /\ k # 1
      <4>1. /\ k - 1 \in 1..(k - 1) /\ k - 1 \in 1..Len(m.entries)
            /\ m.logIndex + (k - 1) = b /\ b \in Nat \ {0} /\ b <= Len(L)
        BY <1>1, <1>2, <2>3, <2>4, <2>7, <2>8, <3>3
      <4>2. MatchTerm(i, b, m.entries[k - 1].term)
        BY <2>3, <4>1
      <4>3. m.entries[k - 1] = L[b]
        BY <2>6, <4>1 DEF SliceOf
      <4>4. TermOf(log[i], offset[i], b) = L[b].term
        BY <4>2, <4>3 DEF MatchTerm
      <4> QED
        BY <1>1, <4>1, <4>4, SharedPrefix
    <3> QED
      BY <1>2, <2>3, <2>4, <3>1, <3>2, <3>3
  <2> DEFINE last == m.logIndex + n
             tail == SubSeq(m.entries, k, n)
             whole == SubSeq(L, 1, last)
  <2>10. Prefix(log[i], b) = SubSeq(L, 1, b)
    <3> HIDE DEF b
    <3>1. Lesser(b, Len(log[i])) = b
      BY <1>2, <2>4, <2>9 DEF Lesser
    <3>2. Prefix(log[i], b) = SubSeq(log[i], 1, b)
      BY <3>1, Zenon DEF Prefix
    <3> QED
      BY <2>9, <3>2, Zenon
  <2>11. last \in 0..Len(L) /\ b \in 0..Len(L) /\ last = b + (n - k + 1)
         /\ n - k + 1 \in Nat
    <3>1. k \in Nat /\ n - k + 1 \in Nat /\ last \in Nat
      BY <1>1, <1>2, <2>3
    <3>2. last = b + (n - k + 1)
      <4>1. \A x, y, z \in Nat : x + z = (x + y - 1) + (z - y + 1)
        OBVIOUS
      <4> QED
        BY <1>1, <3>1, <4>1
    <3>3. last <= Len(L)
      BY <1>1, <1>2, <2>7, <2>8
    <3> HIDE DEF b, last
    <3> QED
      BY <2>4, <2>7, <3>1, <3>2, <3>3
  <2>12. /\ tail \in Seq(Entry) /\ Len(tail) = n - k + 1
         /\ \A j \in 1..(n - k + 1) : tail[j] = m.entries[k + j - 1]
    <3>1. k \in Int /\ n \in Int /\ k <= n
      BY <1>2, <2>3
    <3>2. \A j \in k..n : m.entries[j] \in Entry
      BY <1>1, <1>2, <2>3, ElementOfSeq
    <3> QED
      BY <3>1, <3>2, SubSeqProperties
  <2>13. \A j \in 1..(n - k + 1) : tail[j] = L[b + j]
    <3> SUFFICES ASSUME NEW j \in 1..(n - k + 1) PROVE tail[j] = L[b + j]
      OBVIOUS
    <3>1. k + j - 1 \in 1..Len(m.entries) /\ m.logIndex + (k + j - 1) = b + j
      BY <1>1, <1>2, <2>3
    <3>2. m.entries[k + j - 1] = L[m.logIndex + (k + j - 1)]
      BY <2>6, <3>1 DEF SliceOf
    <3> QED
      BY <2>12, <3>1, <3>2
  <2> HIDE DEF b, last, tail
  <2>14. /\ SubSeq(L, 1, b) \in Seq(Entry) /\ Len(SubSeq(L, 1, b)) = b
         /\ \A j \in 1..b : SubSeq(L, 1, b)[j] = L[j]
    BY <2>7, <2>11, Prefixes
  <2>15. /\ whole \in Seq(Entry) /\ Len(whole) = last
         /\ \A j \in 1..last : whole[j] = L[j]
    BY <2>7, <2>11, Prefixes
  <2>16. /\ SubSeq(L, 1, b) \o tail \in Seq(Entry)
         /\ Len(SubSeq(L, 1, b) \o tail) = last
         /\ \A j \in 1..last : (SubSeq(L, 1, b) \o tail)[j] =
                                 IF j <= b THEN SubSeq(L, 1, b)[j] ELSE tail[j - b]
    <3>1. Len(SubSeq(L, 1, b)) + Len(tail) = last
      BY <2>11, <2>12, <2>14
    <3> DEFINE head == SubSeq(L, 1, b)
    <3>2. head \in Seq(Entry) /\ Len(head) = b /\ Len(head) + Len(tail) = last
      BY <2>14, <3>1
    <3> HIDE DEF head
    <3>3. /\ head \o tail \in Seq(Entry)
          /\ Len(head \o tail) = Len(head) + Len(tail)
          /\ \A j \in 1..(Len(head) + Len(tail)) : (head \o tail)[j] =
               IF j <= Len(head) THEN head[j] ELSE tail[j - Len(head)]
      BY <2>12, <3>2, ConcatProperties
    <3> QED
      BY <3>2, <3>3 DEF head
  <2>17. ASSUME NEW j \in 1..last
         PROVE  (SubSeq(L, 1, b) \o tail)[j] = whole[j]
    <3>1. CASE j <= b
      <4>1. j \in 1..b
        BY <2>4, <2>11, <3>1
      <4> QED
        BY <2>14, <2>15, <2>16, <3>1, <4>1
    <3>2. CASE ~(j <= b)
      <4>1. j - b \in 1..(n - k + 1) /\ b + (j - b) = j
        BY <2>4, <2>11, <3>2
      <4> QED
        BY <2>13, <2>15, <2>16, <3>2, <4>1
    <3> QED
      BY <3>1, <3>2
  <2> HIDE DEF whole
  <2>18. SubSeq(L, 1, b) \o tail = whole
    BY <2>15, <2>16, <2>17, SeqEqual
  <2>19. whole \in P
    BY <2>11 DEF Logs, PrefixClosed, whole
  <2> QED
    BY <2>2, <2>10, <2>18, <2>19 DEF b, tail
<1> QED
  BY <1>3, <1>4

\* What sendAppend and sendSnapshot cut from a member of P.
LEMMA ReplicationMsgCarried ==
  ASSUME TypeOK, NEW P, Logs(P), NEW i \in Node, NEW j, NEW term, NEW lg \in P,
         NEW n \in Nat \ {0}, NEW com
  PROVE  Carried(P, ReplicationMsg(i, j, term, lg, n, com))
<1> DEFINE m == ReplicationMsg(i, j, term, lg, n, com)
<1>1. lg \in Seq(Entry) /\ Len(lg) \in Nat /\ offset[i] \in Nat
  BY LenProperties DEF Logs, TypeOK, LogTypeOK
<1>2. CASE n <= offset[i]
  <2>1. m.type = "MsgInstallSnapshot" /\ m.snapshot = Prefix(lg, offset[i])
    BY <1>2 DEF ReplicationMsg
  <2>2. Lesser(offset[i], Len(lg)) \in 0..Len(lg)
    BY <1>1 DEF Lesser
  <2>3. Prefix(lg, offset[i]) \in P
    BY <2>2 DEF Prefix, Logs, PrefixClosed
  <2> QED
    BY <2>1, <2>3 DEF Carried
<1>3. CASE ~(n <= offset[i])
  <2> DEFINE last == LastToSend(lg, n)
             batch == SubSeq(lg, n, last)
  <2>1. /\ m.type = "MsgAppend" /\ m.logIndex = n - 1
        /\ m.logTerm = TermOf(lg, offset[i], n - 1) /\ m.entries = batch
    BY <1>3 DEF ReplicationMsg
  <2>2. last \in Int /\ last <= Len(lg)
    BY <1>1, ConfigAssumption DEF LastToSend, Lesser
  <2> HIDE DEF m
  <2>3. SUFFICES ASSUME batch # <<>> PROVE SliceOf(lg, m)
    <3>1. (batch # <<>> => SliceOf(lg, m)) => Carried(P, m)
      BY <2>1 DEF Carried
    <3> QED
      BY <3>1 DEF m
  <2> HIDE DEF last
  <2>4. n <= last
    BY <2>2, <2>3, SubSeqEmpty
  <2>5. \A k \in n..last : lg[k] \in Entry
    BY <1>1, <2>2, ElementOfSeq
  <2>6. /\ Len(batch) = last - n + 1
        /\ \A k \in 1..(last - n + 1) : batch[k] = lg[n + k - 1]
    BY <2>2, <2>4, <2>5, SubSeqProperties
  <2> HIDE DEF batch
  <2>7. m.logIndex + Len(m.entries) <= Len(lg)
    BY <2>1, <2>2, <2>6
  <2>8. m.logTerm = IF m.logIndex = 0 THEN 0 ELSE lg[m.logIndex].term
    <3>1. n - 1 \in Nat /\ ~(n - 1 < offset[i]) /\ ~(n - 1 > Len(lg))
      BY <1>1, <1>3, <2>2, <2>4
    <3>2. TermOf(lg, offset[i], n - 1) = IF n - 1 = 0 THEN 0 ELSE lg[n - 1].term
      BY <3>1 DEF TermOf
    <3> QED
      BY <2>1, <3>2
  <2>9. ASSUME NEW k \in 1..Len(m.entries)
        PROVE  m.entries[k] = lg[m.logIndex + k]
    <3>1. k \in 1..(last - n + 1) /\ m.logIndex + k = n + k - 1
      BY <2>1, <2>2, <2>6
    <3> QED
      BY <2>1, <2>6, <3>1
  <2> QED
    BY <2>7, <2>8, <2>9 DEF SliceOf
<1> QED
  BY <1>2, <1>3

\* What bcastAppend sends.
LEMMA BcastAppendCarried ==
  ASSUME TypeOK, NEW P, Logs(P), NEW i \in Node, NEW term, NEW lg \in P,
         NEW nxt \in [Node -> Nat \ {0}], NEW com
  PROVE  \A m \in BcastAppend(i, term, lg, nxt, com) : Carried(P, m)
<1>1. ASSUME NEW j \in Peers(i)
      PROVE  Carried(P, ReplicationMsg(i, j, term, lg, nxt[j], com))
  BY ReplicationMsgCarried DEF Peers
<1> QED
  BY <1>1 DEF BcastAppend

\* A member that grows by an entry of a term it holds alone at that index.
LEMMA Grown ==
  ASSUME NEW P, Logs(P), NEW lg \in P, NEW e \in Entry,
         \A L \in P : \A k \in 1..Len(L) : L[k].term = e.term => k <= Len(lg)
  PROVE  Logs(P \cup {Append(lg, e)})
<1> DEFINE new == Append(lg, e)
           Q == P \cup {new}
           last == Len(lg) + 1
<1>1. lg \in Seq(Entry) /\ Len(lg) \in Nat
  BY LenProperties DEF Logs
<1>2. /\ new \in Seq(Entry) /\ Len(new) = last
      /\ \A k \in 1..Len(lg) : new[k] = lg[k]
      /\ new[last] = e
  BY <1>1, AppendProperties
<1> HIDE DEF new
<1>3. ASSUME NEW n \in 0..Len(lg) PROVE SubSeq(new, 1, n) = SubSeq(lg, 1, n)
  <2>1. n \in 0..Len(new)
    BY <1>1, <1>2
  <2>2. /\ SubSeq(new, 1, n) \in Seq(Entry) /\ Len(SubSeq(new, 1, n)) = n
        /\ \A k \in 1..n : SubSeq(new, 1, n)[k] = new[k]
    BY <1>2, <2>1, Prefixes
  <2>3. /\ SubSeq(lg, 1, n) \in Seq(Entry) /\ Len(SubSeq(lg, 1, n)) = n
        /\ \A k \in 1..n : SubSeq(lg, 1, n)[k] = lg[k]
    BY <1>1, Prefixes
  <2>4. \A k \in 1..n : SubSeq(new, 1, n)[k] = SubSeq(lg, 1, n)[k]
    BY <1>1, <1>2, <2>2, <2>3
  <2> QED
    BY <2>2, <2>3, <2>4, SeqEqual
<1>4. SubSeq(new, 1, last) = new
  <2>1. last \in 0..Len(new)
    BY <1>1, <1>2
  <2>2. /\ SubSeq(new, 1, last) \in Seq(Entry) /\ Len(SubSeq(new, 1, last)) = last
        /\ \A k \in 1..last : SubSeq(new, 1, last)[k] = new[k]
    BY <1>2, <2>1, Prefixes
  <2> QED
    BY <1>2, <2>2, SeqEqual
<1>5. PrefixClosed(Q)
  <2>1. ASSUME NEW n \in 0..last PROVE SubSeq(new, 1, n) \in Q
    <3>1. CASE n = last
      BY <1>4, <3>1
    <3>2. CASE n # last
      <4>1. n \in 0..Len(lg)
        BY <1>1, <3>2
      <4>2. SubSeq(lg, 1, n) \in P
        BY <4>1 DEF Logs, PrefixClosed
      <4> QED
        BY <1>3, <4>1, <4>2
    <3> QED
      BY <3>1, <3>2
  <2> QED
    BY <1>2, <2>1 DEF Logs, PrefixClosed
<1>6. ASSUME NEW L \in P, NEW k \in 1..last, k <= Len(L), L[k].term = new[k].term
      PROVE  SubSeq(L, 1, k) = SubSeq(new, 1, k)
  <2>1. Len(L) \in Nat
    BY LenProperties DEF Logs
  <2>2. k <= Len(lg)
    BY <1>1, <1>2, <1>6, <2>1
  <2>3. k \in 1..Len(lg) /\ k \in 0..Len(lg) /\ k \in 1..Len(L)
    BY <1>1, <1>6, <2>1, <2>2
  <2>4. L[k].term = lg[k].term
    BY <1>2, <1>6, <2>3
  <2>5. SubSeq(L, 1, k) = SubSeq(lg, 1, k)
    BY <2>2, <2>3, <2>4 DEF Logs, Matching
  <2> QED
    BY <1>3, <2>3, <2>5
<1>7. Matching(Q)
  <2> SUFFICES ASSUME NEW K \in Q, NEW L \in Q, NEW k \in 1..Len(K),
                      k <= Len(L), K[k].term = L[k].term
               PROVE  SubSeq(K, 1, k) = SubSeq(L, 1, k)
    BY DEF Matching
  <2>1. CASE K \in P /\ L \in P
    BY <2>1 DEF Logs, Matching
  <2>2. CASE K = new /\ L = new
    BY <2>2
  <2>3. CASE K = new /\ L \in P
    BY <1>2, <1>6, <2>3
  <2>4. CASE K \in P /\ L = new
    <3>1. Len(K) \in Nat
      BY <2>4, LenProperties DEF Logs
    <3>2. k \in 1..last /\ k <= Len(K)
      BY <1>1, <1>2, <2>4, <3>1
    <3> QED
      BY <1>6, <2>4, <3>2
  <2> QED
    BY <2>1, <2>2, <2>3, <2>4
<1> QED
  BY <1>2, <1>5, <1>7 DEF Logs, new

-----------------------------------------------------------------------------
(* The invariant, for clusters in which a node needs the vote of another.    *)

\* A leader is on record for its term; a candidate of a term is not yet.
Incumbents ==
  /\ \A a \in leaderByTerm : a[1] <= Term[a[2]]
  /\ \A i \in Node : state[i] = Candidate => <<Term[i], i>> \notin leaderByTerm
  /\ \A i \in Node : state[i] = Leader => <<Term[i], i>> \in leaderByTerm

\* Every entry has the term of an elected leader.
Authored(P) ==
  \A L \in P : \A k \in 1..Len(L) : \E j \in Node : <<L[k].term, j>> \in leaderByTerm

\* No log reaches beyond the leader's with an entry of its term.
Owned(P) ==
  \A i \in Node : state[i] = Leader =>
    \A L \in P : \A k \in 1..Len(L) : L[k].term = Term[i] => k <= Len(log[i])

Archive(P) ==
  /\ Logs(P)
  /\ \A i \in Node : log[i] \in P
  /\ \A m \in msgs : Carried(P, m)
  /\ Authored(P) /\ Owned(P)

MatchInv == Quorum > 1 => Incumbents /\ \E P : Archive(P)

\* In a cluster of one there is one log.
LEMMA LoneNode == ASSUME ~(Quorum > 1), NEW i \in Node, NEW j \in Node PROVE i = j
<1>1. Cardinality(Node) \in Nat /\ Cardinality(Node) < 2
  BY QuorumType DEF Quorum
<1>2. Cardinality(Node) # 0
  BY NodeAssumption, FS_EmptySet
<1>3. Cardinality(Node) = 1
  BY <1>1, <1>2
<1>4. PICK n : Node = {n}
  BY <1>3, NodeAssumption, FS_Singleton
<1> QED
  BY <1>4

\* Logs of one archive match.
LEMMA ArchiveMatches == TypeOK /\ MatchInv => LogMatching
<1> SUFFICES ASSUME TypeOK, MatchInv, NEW i \in Node, NEW j \in Node,
                    NEW k \in 1..Lesser(Len(log[i]), Len(log[j])),
                    log[i][k].term = log[j][k].term
             PROVE  Prefix(log[i], k) = Prefix(log[j], k)
  BY DEF LogMatching
<1>1. CASE Quorum > 1
  <2>1. PICK P : Archive(P)
    BY <1>1 DEF MatchInv
  <2>2. log[i] \in P /\ log[j] \in P /\ Logs(P)
    BY <2>1 DEF Archive
  <2>3. Len(log[i]) \in Nat /\ Len(log[j]) \in Nat
    BY LenProperties DEF TypeOK, LogTypeOK
  <2>4. /\ k \in 1..Len(log[i]) /\ k <= Len(log[j])
        /\ Lesser(k, Len(log[i])) = k /\ Lesser(k, Len(log[j])) = k
    BY <2>3 DEF Lesser
  <2>5. SubSeq(log[i], 1, k) = SubSeq(log[j], 1, k)
    BY <2>2, <2>4 DEF Logs, Matching
  <2> QED
    BY <2>4, <2>5, Zenon DEF Prefix
<1>2. CASE ~(Quorum > 1)
  BY <1>2, LoneNode
<1> QED
  BY <1>1, <1>2

-----------------------------------------------------------------------------
(* What a step may do to the archive.                                        *)

\* A step that elects nobody and lets no leader write.
Steady ==
  /\ leaderByTerm' = leaderByTerm
  /\ \A i \in Node : state'[i] = Candidate =>
       Term'[i] > Term[i] \/ (state[i] = Candidate /\ Term'[i] = Term[i])
  /\ \A i \in Node : state'[i] = Leader =>
       state[i] = Leader /\ Term'[i] = Term[i] /\ log'[i] = log[i]

Stored(P) == \A i \in Node : log'[i] \in P
Sent(P) == \A m \in msgs' : m \in msgs \/ Carried(P, m)

\* A steady step that stores and sends parts of the archive adds nothing to it.
LEMMA SteadyStep ==
  ASSUME NEW P, Archive(P), Steady, Stored(P), Sent(P)
  PROVE  Archive(P)'
<1>1. Owned(P)'
  BY DEF Archive, Owned, Steady
<1>2. Authored(P)'
  BY DEF Archive, Authored, Steady
<1>3. \A m \in msgs' : Carried(P, m)
  BY DEF Archive, Sent
<1> QED
  BY <1>1, <1>2, <1>3 DEF Archive, Stored

\* Candidates and leaders stay where they are in a steady step.
LEMMA SteadyIncumbents ==
  ASSUME TypeOK, TypeOK', Incumbents, Steady, VoteMonotone
  PROVE  Incumbents'
<1>1. /\ Term \in [Node -> Nat] /\ Term' \in [Node -> Nat]
      /\ leaderByTerm \in SUBSET (Nat \X Node)
  BY DEF TypeOK, RoleTypeOK
<1>2. ASSUME NEW a \in leaderByTerm' PROVE a[1] <= Term'[a[2]]
  <2>1. a[1] \in Nat /\ a[2] \in Node /\ a[1] <= Term[a[2]]
    BY <1>1 DEF Incumbents, Steady
  <2>2. Term[a[2]] \in Nat /\ Term'[a[2]] \in Nat /\ Term'[a[2]] >= Term[a[2]]
    BY <1>1, <2>1 DEF VoteMonotone
  <2> QED
    BY <2>1, <2>2
<1>3. ASSUME NEW i \in Node, state'[i] = Candidate
      PROVE  <<Term'[i], i>> \notin leaderByTerm'
  <2>1. CASE Term'[i] > Term[i]
    <3>1. ~(Term'[i] <= Term[i])
      BY <1>1, <2>1
    <3> QED
      BY <3>1 DEF Incumbents, Steady
  <2>2. CASE state[i] = Candidate /\ Term'[i] = Term[i]
    BY <2>2 DEF Incumbents, Steady
  <2> QED
    BY <1>3, <2>1, <2>2 DEF Steady
<1>4. ASSUME NEW i \in Node, state'[i] = Leader
      PROVE  <<Term'[i], i>> \in leaderByTerm'
  BY <1>4 DEF Incumbents, Steady
<1> QED
  BY <1>2, <1>3, <1>4 DEF Incumbents

\* A leader i of the term of e that appends e, with lg the log it then has.
Grows(P, i, e, lg) ==
  /\ lg = Append(log[i], e) /\ log' = [log EXCEPT ![i] = lg]
  /\ \A L \in P : \A k \in 1..Len(L) : L[k].term = e.term => k <= Len(log[i])
  /\ leaderByTerm \subseteq leaderByTerm' /\ <<e.term, i>> \in leaderByTerm'
  /\ \A j \in Node : state'[j] = Leader =>
       \/ j = i /\ Term'[i] = e.term
       \/ state[j] = Leader /\ Term'[j] = Term[j] /\ Term[j] # e.term

\* Such a step adds the log to the archive.
LEMMA GrowthStep ==
  ASSUME TypeOK, NEW P, Archive(P), NEW i \in Node, NEW e \in Entry, NEW lg,
         Grows(P, i, e, lg), Sent(P \cup {lg})
  PROVE  \E Q : Archive(Q)'
<1> USE DEF Grows
<1>1. PICK Q : Q = P \cup {lg}
  OBVIOUS
<1>2. /\ log[i] \in P /\ log[i] \in Seq(Entry) /\ DOMAIN log = Node /\ Logs(P)
      /\ Len(log[i]) \in Nat
  BY LenProperties DEF Archive, TypeOK, LogTypeOK
<1>3. /\ lg \in Seq(Entry) /\ Len(lg) = Len(log[i]) + 1
      /\ \A k \in 1..Len(log[i]) : lg[k] = log[i][k]
      /\ lg[Len(log[i]) + 1] = e
  BY <1>2, AppendProperties
<1>4. Logs(Q)
  BY <1>1, <1>2, Grown
<1>5. log'[i] = lg /\ \A j \in Node : j # i => log'[j] = log[j]
  BY <1>2
<1>6. \A j \in Node : log'[j] \in Q
  BY <1>1, <1>5 DEF Archive
<1>7. ASSUME NEW m \in msgs' PROVE Carried(Q, m)
  <2>1. CASE m \in msgs
    BY <1>1, <2>1 DEF Archive, Carried
  <2>2. CASE m \notin msgs
    BY <1>1, <1>7, <2>2 DEF Sent
  <2> QED
    BY <2>1, <2>2
<1>8. ASSUME NEW L \in Q, NEW k \in 1..Len(L)
      PROVE  \/ L = lg /\ k = Len(log[i]) + 1 /\ L[k] = e
             \/ \E K \in P : k \in 1..Len(K) /\ L[k] = K[k]
  <2>1. CASE L = lg /\ k = Len(log[i]) + 1
    BY <1>3, <2>1
  <2>2. CASE L = lg /\ k # Len(log[i]) + 1
    <3>1. k \in 1..Len(log[i])
      BY <1>2, <1>3, <2>2
    <3> QED
      BY <1>2, <1>3, <2>2, <3>1
  <2>3. CASE L \in P
    BY <2>3
  <2> QED
    BY <1>1, <2>1, <2>2, <2>3
<1>9. Authored(Q)'
  <2> SUFFICES ASSUME NEW L \in Q, NEW k \in 1..Len(L)
               PROVE  \E j \in Node : <<L[k].term, j>> \in leaderByTerm'
    BY DEF Authored
  <2>1. CASE L[k] = e
    BY <2>1
  <2>2. CASE \E K \in P : k \in 1..Len(K) /\ L[k] = K[k]
    BY <2>2 DEF Archive, Authored
  <2> QED
    BY <1>8, <2>1, <2>2
<1>10. Owned(Q)'
  <2> SUFFICES ASSUME NEW j \in Node, state'[j] = Leader, NEW L \in Q,
                      NEW k \in 1..Len(L), L[k].term = Term'[j]
               PROVE  k <= Len(log'[j])
    BY DEF Owned
  <2>1. CASE j = i /\ Term'[i] = e.term
    <3>1. CASE L = lg /\ k = Len(log[i]) + 1
      BY <1>2, <1>3, <1>5, <2>1, <3>1
    <3>2. CASE \E K \in P : k \in 1..Len(K) /\ L[k] = K[k]
      <4>1. k <= Len(log[i])
        BY <2>1, <3>2
      <4>2. k \in Int
        BY <3>2
      <4> QED
        BY <1>2, <1>3, <1>5, <2>1, <4>1, <4>2
    <3> QED
      BY <1>8, <3>1, <3>2
  <2>2. CASE state[j] = Leader /\ Term'[j] = Term[j] /\ Term[j] # e.term
    <3>1. PICK K \in P : k \in 1..Len(K) /\ L[k] = K[k]
      BY <1>8, <2>2
    <3>2. k <= Len(log[j])
      BY <2>2, <3>1 DEF Archive, Owned
    <3>3. CASE j # i
      BY <1>5, <3>2, <3>3
    <3>4. CASE j = i
      <4>1. k \in Int
        BY <3>1
      <4> QED
        BY <1>2, <1>3, <1>5, <3>2, <3>4, <4>1
    <3> QED
      BY <3>3, <3>4
  <2> QED
    BY <2>1, <2>2
<1> QED
  BY <1>4, <1>6, <1>7, <1>9, <1>10 DEF Archive
=============================================================================
