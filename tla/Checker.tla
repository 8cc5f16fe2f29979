------------------------------ MODULE Checker -------------------------------
(* The simulator's invariant checker (sim/invariants.go) and the storage wrapper *)
(* it observes (sim/node.go).  The checker has to find the faults of a core that *)
(* may have any, so the core here writes, commits and leads as it likes; what     *)
(* the storage and the drain do with that is the code's.                        *)
EXTENDS LogState, FiniteSetsExt, SequencesExt

CONSTANTS Peer,        \* the peers, numbered 1..n in the order of iv.peers
          Data,        \* the digests of entries and snapshots
          None,        \* no digest known
          MaxTerm,     \* bound: terms are 1..MaxTerm
          Scenarios    \* bounds: what happens to which peers (writes, commits, snapshots,
                       \*   roles, crashes), the last index of a log, the number of events

ASSUME CheckerBounds ==
  /\ Peer = 1..Cardinality(Peer) /\ Peer # {}
  /\ None \notin Data
  /\ MaxTerm \in Nat
  /\ \A s \in Scenarios : s.last \in Nat /\ s.events \in Nat

VARIABLES
  scenario,  \* the one this behaviour follows
  storage,   \* per peer trackedStorage: log, generation, durableCommit, committed
  node,      \* per peer nodeState: crashed, leads (the term, or 0), applied, appliedLog
  checker,   \* invariants
  firstErr,  \* what ended the run: "", "storage" or "check"
  checked,   \* the check has run since the last event
  events     \* the number of events

checkerVars == <<scenario, storage, node, checker, firstErr, checked, events>>

Entry == [term : 1..MaxTerm, data : Data]

-----------------------------------------------------------------------------
(* trackedStorage: LogState with entries that have data.                      *)

\* What a commit of the given index records.  0 and None are unknown.
CommittedRec(i, term, data, commitTerm) ==
  [index |-> i, term |-> term, data |-> data, commitTerm |-> commitTerm]

Stored(log, i) == log.entries[i - log.snapshot.index]
HasEntry(log, i) == i \in FirstIndex(log)..LastIndex(log)

Tracked(s, first, e) ==
  [s EXCEPT !.log = Appended(@, first, <<e>>), !.generation = @ + 1]

\* ApplySnapshot: the storage keeps a suffix that fits; the indexes that become
\* committed are recorded, the last one with its term.
Covered(log, snap) ==
  [log EXCEPT !.snapshot = snap,
              !.entries = IF snap.index < LastIndex(log) /\ Stored(log, snap.index).term = snap.term
                          THEN SubSeq(@, snap.index - log.snapshot.index + 1, Len(@))
                          ELSE <<>>]

Snapshotted(s, snap) ==
  LET new == [k \in 1..(snap.index - s.durableCommit) |->
                LET i == s.durableCommit + k
                IN CommittedRec(i, IF i = snap.index THEN snap.term ELSE 0, None, 0)]
  IN [log |-> Covered(s.log, snap),
      generation |-> s.generation + 1,
      durableCommit |-> IF snap.index > s.durableCommit THEN snap.index ELSE s.durableCommit,
      committed |-> s.committed \o new]

\* recordCommitAdvance without an advance: records that lack a term of commitment
\* get one, in place and as copies.
Enriched(s, commit, term) ==
  LET lacks(rec) == rec.index <= commit /\ rec.commitTerm = 0
      filled == [k \in DOMAIN s.committed |->
                   IF lacks(s.committed[k]) THEN [s.committed[k] EXCEPT !.commitTerm = term]
                   ELSE s.committed[k]]
      copies == [k \in DOMAIN SelectSeq(s.committed, lacks) |->
                   [SelectSeq(s.committed, lacks)[k] EXCEPT !.commitTerm = term]]
  IN [s EXCEPT !.committed = filled \o copies]

\* and with one: what is stored at each index.  The snapshot covers none of them.
Advanced(s, commit, term) ==
  LET rec(i) == CommittedRec(i, Stored(s.log, i).term, Stored(s.log, i).data, term)
  IN [s EXCEPT !.committed = @ \o [k \in 1..(commit - s.durableCommit) |-> rec(s.durableCommit + k)],
               !.durableCommit = commit]

Unavailable(s, commit) == commit > s.durableCommit /\ commit > LastIndex(s.log)

HardStateSet(s, commit, term) ==
  LET set == [s EXCEPT !.log.hardState = [vote |-> term, commit |-> commit], !.generation = @ + 1]
  IN IF Unavailable(s, commit) THEN set
     ELSE IF commit <= s.durableCommit THEN Enriched(set, commit, term)
     ELSE Advanced(set, commit, term)

-----------------------------------------------------------------------------
(* Events of the simulation.                                                  *)

\* applyEntry for the entries of log up to commit.
Applied(n, log, commit) ==
  LET todo == {i \in n.applied + 1..commit : HasEntry(log, i)}
      at(k) == n.applied + k
  IN [n EXCEPT !.applied = @ + Cardinality(todo),
               !.appliedLog = @ \o [k \in 1..Cardinality(todo) |->
                                      [index |-> at(k), term |-> Stored(log, at(k)).term,
                                       data |-> Stored(log, at(k)).data]]]

Event ==
  /\ firstErr = ""
  /\ events < scenario.events
  /\ events' = events + 1
  /\ checked' = FALSE
  /\ UNCHANGED checker

Up(p) == ~node[p].crashed

\* drain with a new entry, which may replace others.
AppendEntries(p, first, e) ==
  /\ Event /\ Up(p)
  /\ first > storage[p].log.snapshot.index /\ ~Gap(storage[p].log, first, <<e>>)
  /\ storage' = [storage EXCEPT ![p] = Tracked(@, first, e)]
  /\ UNCHANGED <<node, firstErr>>

\* drain with a hard state: persisted, and what it commits applied.  A commit that
\* storage cannot show ends the run.
SetHardState(p, commit, term) ==
  /\ Event /\ Up(p)
  /\ storage' = [storage EXCEPT ![p] = HardStateSet(@, commit, term)]
  /\ IF Unavailable(storage[p], commit)
     THEN firstErr' = "storage" /\ UNCHANGED node
     ELSE node' = [node EXCEPT ![p] = Applied(@, storage'[p].log, commit)] /\ UNCHANGED firstErr

\* drain with a snapshot of the leader.
InstallSnapshot(p, snap) ==
  /\ Event /\ Up(p)
  /\ ~Stale(storage[p].log, snap)
  /\ storage' = [storage EXCEPT ![p] = Snapshotted(@, snap)]
  /\ node' = [node EXCEPT ![p].applied = IF snap.index > @ THEN snap.index ELSE @]
  /\ UNCHANGED firstErr

\* maybeCompact: a snapshot of what is applied.
MaybeCompact(p, data) ==
  LET n == node[p]
      log == storage[p].log
  IN /\ Event /\ Up(p)
     /\ n.applied > log.snapshot.index
     /\ HasEntry(log, n.applied)
     /\ storage' = [storage EXCEPT ![p] =
                      Snapshotted(@, [index |-> n.applied, term |-> Stored(log, n.applied).term,
                                      data |-> data])]
     /\ UNCHANGED <<node, firstErr>>

\* The core wins an election or stops to lead.
ChangeRole(p, term) ==
  /\ Event /\ Up(p)
  /\ node[p].leads # term
  /\ node' = [node EXCEPT ![p].leads = term]
  /\ UNCHANGED <<storage, firstErr>>

Crash(p) ==
  /\ Event /\ Up(p)
  /\ node' = [node EXCEPT ![p] = [crashed |-> TRUE, leads |-> 0, applied |-> 0, appliedLog |-> <<>>]]
  /\ UNCHANGED <<storage, firstErr>>

\* Restart: from the snapshot, then a drain that applies what is committed.
Restart(p) ==
  LET log == storage[p].log
      fresh == [crashed |-> FALSE, leads |-> 0, applied |-> log.snapshot.index, appliedLog |-> <<>>]
  IN /\ Event /\ ~Up(p)
     /\ node' = [node EXCEPT ![p] = Applied(fresh, log, log.hardState.commit)]
     /\ UNCHANGED <<storage, firstErr>>

-----------------------------------------------------------------------------
(* The checker.                                                               *)

Leads(p) == Up(p) /\ node[p].leads # 0
Led == {<<node[p].leads, p>> : p \in {q \in Peer : Leads(q)}}

\* checkElectionSafety: leaderByTerm as a set of pairs.
ElectionSafety(leaders) == \A x, y \in leaders : x[1] = y[1] => x = y

\* structuralChanged compares this.
StructuralState(p) ==
  [applied |-> node[p].applied, appliedEntries |-> Len(node[p].appliedLog),
   storageGen |-> storage[p].generation, committedEvents |-> Len(storage[p].committed),
   crashed |-> node[p].crashed, leads |-> node[p].leads]

Structural == [p \in Peer |-> StructuralState(p)]

\* checkAppliedPrefix: everything is compared with the first of its index.
AppliedPrefix ==
  \A p, q \in Peer : \A r \in Range(node[p].appliedLog), s \in Range(node[q].appliedLog) :
    r.index = s.index => r = s

\* What durableMarks reads, and what it returns: the cached view while the
\* generation is the same.
View(p) ==
  LET log == storage[p].log
  IN [generation |-> storage[p].generation,
      marks |-> [i \in FirstIndex(log)..LastIndex(log) |-> Stored(log, i)],
      snapshot |-> log.snapshot]

DurableMarks(p) ==
  LET cached == checker.markCache[p]
  IN IF cached.generation = storage[p].generation THEN cached ELSE View(p)

\* checkLogMatching: each peer's marks are compared with the freshest one before.
Freshest(views, p, i) ==
  LET before == {q \in 1..(p - 1) : i \in DOMAIN views[q].marks}
  IN {q \in before : \A r \in before : views[r].marks[i].term <= views[q].marks[i].term}

LogMatching(views) ==
  /\ \A p, q \in Peer :
       views[p].snapshot.index > 0 /\ views[p].snapshot.index = views[q].snapshot.index
         => views[p].snapshot = views[q].snapshot
  /\ \A p \in Peer : \A i \in DOMAIN views[p].marks : \A q \in Freshest(views, p, i) :
       views[q].marks[i].term = views[p].marks[i].term => views[q].marks[i] = views[p].marks[i]

\* checkLeaderCompleteness, the records: one more of them.
Conflicts(x, y) ==
  \/ x.term # 0 /\ y.term # 0 /\ x.term # y.term
  \/ x.data # None /\ y.data # None /\ x.data # y.data

Merged(x, y) ==
  [x EXCEPT !.term = IF @ = 0 THEN y.term ELSE @,
            !.data = IF @ = None THEN y.data ELSE @,
            !.commitTerm = IF @ = 0 \/ (y.commitTerm # 0 /\ y.commitTerm < @) THEN y.commitTerm ELSE @]

Bind(f, i, x) == [k \in DOMAIN f \cup {i} |-> IF k = i THEN x ELSE f[k]]

\* Mutant: the version counts the committed indexes.
FoldedByLength(acc, rec) ==
  IF rec.index \notin DOMAIN acc.committed
  THEN [acc EXCEPT !.committed = Bind(@, rec.index, rec), !.version = @ + 1]
  ELSE LET prev == acc.committed[rec.index]
       IN [acc EXCEPT !.ok = @ /\ ~Conflicts(prev, rec),
                      !.committed = Bind(@, rec.index, Merged(prev, rec))]

Folded(acc, rec) ==
  IF rec.index \notin DOMAIN acc.committed
  THEN [acc EXCEPT !.committed = Bind(@, rec.index, rec), !.version = @ + 1]
  ELSE LET prev == acc.committed[rec.index]
           new == Merged(prev, rec)
       IN [ok |-> acc.ok /\ ~Conflicts(prev, rec),
           committed |-> Bind(acc.committed, rec.index, new),
           version |-> acc.version + IF new = prev /\ prev.commitTerm # 0 THEN 0 ELSE 1]

\* Those behind each peer's cursor, in the order of the peers.
NewRecords ==
  FlattenSeq([p \in Peer |-> SubSeq(storage[p].committed, checker.commitCursor[p] + 1,
                                    Len(storage[p].committed))])

Fold == FoldLeft(Folded, [ok |-> TRUE, committed |-> checker.committed,
                          version |-> checker.committedVersion], NewRecords)

\* and the leaders: the view holds what is committed.
Holds(view, want) ==
  IF want.index \in DOMAIN view.marks
  THEN ~Conflicts(view.marks[want.index], want)
  ELSE /\ view.snapshot.index >= want.index
       /\ view.snapshot.index = want.index /\ want.term # 0 => view.snapshot.term = want.term

Complete(view, term, committed) ==
  \A i \in DOMAIN committed :
    committed[i].commitTerm <= term => Holds(view, committed[i])

LeaderCheck(p, version) ==
  [generation |-> storage[p].generation, committedVersion |-> version, term |-> node[p].leads]

\* check: the verdict, and what it leaves for the next one.
Check ==
  LET leaders == checker.leaderByTerm \cup Led
      views == [p \in Peer |-> DurableMarks(p)]
      fold == Fold
      key(p) == LeaderCheck(p, fold.version)
      ok == /\ AppliedPrefix
            /\ LogMatching(views)
            /\ fold.ok
            /\ \A p \in Peer : Leads(p) => \/ checker.leaderCheckState[p] = key(p)
                                           \/ Complete(views[p], node[p].leads, fold.committed)
  IN /\ firstErr = "" /\ ~checked
     /\ checked' = TRUE
     /\ CASE ~ElectionSafety(leaders) -> firstErr' = "check" /\ UNCHANGED checker
          [] ElectionSafety(leaders) /\ Structural = checker.lastStructural ->
               checker' = [checker EXCEPT !.leaderByTerm = leaders] /\ UNCHANGED firstErr
          [] OTHER ->
               IF ~ok THEN firstErr' = "check" /\ UNCHANGED checker
               ELSE /\ checker' = [leaderByTerm |-> leaders,
                                   committed |-> fold.committed,
                                   committedVersion |-> fold.version,
                                   commitCursor |-> [p \in Peer |-> Len(storage[p].committed)],
                                   markCache |-> views,
                                   leaderCheckState |-> [p \in Peer |-> IF Leads(p) THEN key(p)
                                                           ELSE checker.leaderCheckState[p]],
                                   lastStructural |-> Structural]
                    /\ UNCHANGED firstErr
     /\ UNCHANGED <<storage, node, events>>

-----------------------------------------------------------------------------

NoView == [generation |-> -1, marks |-> <<>>, snapshot |-> NoSnapshot]

CheckerInit ==
  /\ scenario \in Scenarios
  /\ storage = [p \in Peer |-> [log |-> Empty, generation |-> 0, durableCommit |-> 0, committed |-> <<>>]]
  /\ node = [p \in Peer |-> [crashed |-> FALSE, leads |-> 0, applied |-> 0, appliedLog |-> <<>>]]
  /\ checker = [leaderByTerm |-> {}, committed |-> <<>>, committedVersion |-> 0,
                commitCursor |-> [p \in Peer |-> 0],
                markCache |-> [p \in Peer |-> NoView],
                leaderCheckState |-> [p \in Peer |-> [generation |-> -1, committedVersion |-> 0, term |-> 0]],
                lastStructural |-> <<>>]
  /\ firstErr = ""
  /\ checked = TRUE
  /\ events = 0

EventOrCheck ==
  \/ \E p \in scenario.writes, first \in 1..scenario.last, e \in Entry : AppendEntries(p, first, e)
  \/ \E p \in scenario.commits, commit \in 0..scenario.last, term \in 1..MaxTerm :
       SetHardState(p, commit, term)
  \/ \E p \in scenario.snapshots, i \in 1..scenario.last, e \in Entry :
       InstallSnapshot(p, [index |-> i, term |-> e.term, data |-> e.data])
  \/ \E p \in scenario.snapshots, d \in Data : MaybeCompact(p, d)
  \/ \E p \in scenario.roles, term \in 0..MaxTerm : ChangeRole(p, term)
  \/ \E p \in scenario.crashes : Crash(p)
  \/ \E p \in scenario.crashes : Restart(p)
  \/ Check

CheckerNext == EventOrCheck /\ UNCHANGED scenario

-----------------------------------------------------------------------------
(* Properties.                                                                *)

Records == UNION {Range(storage[p].committed) : p \in Peer}

\* The terms in which the index of a record was committed, as far as known.
CommitTerms(rec) == {r.commitTerm : r \in {s \in Records : s.index = rec.index}} \ {0}

\* Two stored entries that the checker does not compare: before the second one it
\* has met an entry of a later term.
Shadowed(q, i) ==
  \E r \in 1..(q - 1) : /\ HasEntry(storage[r].log, i)
                        /\ Stored(storage[r].log, i).term > Stored(storage[q].log, i).term

\* The four properties the checker is to find violated, from the logs and records
\* themselves.
Sound ==
  /\ ElectionSafety(checker.leaderByTerm \cup Led)
  /\ AppliedPrefix
  /\ \A p, q \in Peer :
       LET u == storage[p].log
           v == storage[q].log
       IN /\ u.snapshot.index > 0 /\ u.snapshot.index = v.snapshot.index => u.snapshot = v.snapshot
          /\ p < q => \A i \in 1..scenario.last :
               /\ HasEntry(u, i) /\ HasEntry(v, i) /\ ~Shadowed(q, i)
               /\ Stored(u, i).term = Stored(v, i).term
               => Stored(u, i) = Stored(v, i)
  /\ \A r, s \in Records : r.index = s.index => ~Conflicts(r, s)
  /\ \A p \in Peer : Leads(p) => \A rec \in Records :
       (CommitTerms(rec) = {} \/ \E t \in CommitTerms(rec) : t <= node[p].leads)
         => Holds(View(p), rec)

\* The checker's verdict is that of the four properties read off the logs and the
\* records, whatever it skips, caches, folds once or remembers to have passed: no
\* fault is hidden by an unchanged observation, a cached view or a memo, and none
\* is made up (structuralChanged, durableMarks, commitCursor, committedVersion,
\* leaderCheckState).  Log matching is exact up to entries that are shadowed.
VerdictIsExact == checked => (firstErr = "check" <=> ~Sound)

=============================================================================
