------------------------------ MODULE RaftLog -------------------------------
(* The log of one node between the core and its storage: raftLog with its       *)
(* unstable tail (raft/log.go), Ready and Advance (raft/node.go), and the drain  *)
(* of the drivers (server/drive.go, sim/loop.go), step by step.  The process     *)
(* may die before each step and inside the calls of the storage (LogStorage).    *)
(*                                                                           *)
(* Inputs are what the core does to the log.  They are those of leaders that      *)
(* have what this node was told is committed, and whose logs match its own.       *)
EXTENDS LogStorage, SequencesExt

CONSTANTS Terms,       \* terms of entries
          MaxIndex,    \* bound: the length of the log
          MaxBatch,    \* bound: entries in one message
          MaxVotes,    \* bound: changes of term or vote
          MaxCrashes   \* bound: crashes

ASSUME RaftLogBounds ==
  /\ Terms \subseteq Nat \ {0}
  /\ {MaxIndex, MaxBatch, MaxVotes, MaxCrashes} \subseteq Nat

VARIABLES
  unstable,     \* snapshot (NoSnapshot: none), entries, and the index of their first
  committed, applied,
  vote,         \* the term and vote in memory
  prevHardSt,   \* the hard state the driver was given last
  msgs,         \* the promises in the messages not yet handed over
  rd,           \* pendingReady
  todo,         \* the steps left of the drain's pass over rd
  smApplied,    \* the driver's applied: what the state machine has seen
  accepting,    \* the drain is over, or has not begun: the core takes an input
  failed,       \* a panic, or an error that ends the drive loop
  crashes,
  settled,      \* the cluster: the entries this node was told are committed
  promised      \* history: what messages that were sent have promised

coreVars == <<unstable, committed, applied, vote, prevHardSt, msgs>>
driverVars == <<rd, todo, smApplied, accepting>>
vars == <<storageVars, coreVars, driverVars, failed, crashes, settled, promised>>

-----------------------------------------------------------------------------
(* raftLog: the unstable part first, then the storage.                         *)

Held == unstable.entries # <<>> \/ unstable.snapshot # NoSnapshot

FirstLogIndex ==
  IF unstable.snapshot # NoSnapshot THEN unstable.snapshot.index + 1 ELSE FirstIndex(stored)

LastLogIndex ==
  IF unstable.entries # <<>> THEN unstable.offset + Len(unstable.entries) - 1
  ELSE IF unstable.snapshot # NoSnapshot THEN unstable.snapshot.index
  ELSE LastIndex(stored)

\* maybeTerm; 0 where unstable does not hold the index.
MaybeTerm(i) ==
  IF i < unstable.offset
  THEN IF i = unstable.snapshot.index THEN unstable.snapshot.term ELSE 0
  ELSE IF i < unstable.offset + Len(unstable.entries)
  THEN unstable.entries[i - unstable.offset + 1] ELSE 0

\* Mutant: the storage is asked first.
LogTermStored(i) ==
  IF i < FirstLogIndex - 1 \/ i > LastLogIndex THEN 0
  ELSE IF i \in stored.snapshot.index..LastIndex(stored) THEN Term(stored, i)
  ELSE MaybeTerm(i)

\* term; 0 outside the log.
LogTerm(i) ==
  IF i < FirstLogIndex - 1 \/ i > LastLogIndex THEN 0
  ELSE IF Held /\ MaybeTerm(i) # 0 THEN MaybeTerm(i)
  ELSE Term(stored, i)

\* slice goes to the storage for what lies below unstable, which may refuse.
Unavailable(lo, hi) ==
  lo < hi /\ lo < unstable.offset
  /\ (lo < FirstIndex(stored) \/ Min({hi, unstable.offset}) > LastIndex(stored) + 1)

\* truncateAppend
TruncateAppend(u, first, ts) ==
  IF first = u.offset + Len(u.entries) THEN [u EXCEPT !.entries = @ \o ts]
  ELSE IF first <= u.offset THEN [u EXCEPT !.offset = first, !.entries = ts]
  ELSE [u EXCEPT !.entries = SubSeq(@, 1, first - u.offset) \o ts]

\* unstable.restore
Restored(snap) == [snapshot |-> snap, entries |-> <<>>, offset |-> snap.index + 1]

\* stableTo and stableSnapTo, for what a batch b held.
StableTo(u, b) ==
  LET last == b.first + Len(b.entries) - 1
      kept == b.entries # <<>> /\ MaybeTerm(last) = b.entries[Len(b.entries)]
              /\ last >= u.offset
  IN [snapshot |-> IF u.snapshot = b.snapshot THEN NoSnapshot ELSE u.snapshot,
      entries |-> IF kept THEN SubSeq(u.entries, last + 2 - u.offset, Len(u.entries))
                  ELSE u.entries,
      offset |-> IF kept THEN last + 1 ELSE u.offset]

-----------------------------------------------------------------------------
(* Ready.                                                                     *)

HardState == [vote |-> vote, commit |-> committed]

NextCommitted == Max({applied + 1, FirstLogIndex})

HasReady ==
  \/ msgs # {}
  \/ Held
  \/ committed + 1 > NextCommitted
  \/ HardState # prevHardSt

\* Mutant: a batch with entries only is not synced.
MustSyncVotes(b) == b.snapshot # NoSnapshot \/ b.hardState.vote # prevHardSt.vote

MustSync(b) ==
  \/ b.entries # <<>>
  \/ b.snapshot # NoSnapshot
  \/ b.hardState.vote # prevHardSt.vote

\* CommittedEntries are the ones from index next on.
Batch ==
  [snapshot |-> unstable.snapshot, first |-> unstable.offset,
   entries |-> unstable.entries, hardState |-> HardState, messages |-> msgs,
   next |-> NextCommitted,
   committed |-> [k \in 1..committed + 1 - NextCommitted |-> LogTerm(NextCommitted + k - 1)]]

NoBatch == [snapshot |-> NoSnapshot, first |-> 0, entries |-> <<>>,
            hardState |-> NoHardState, messages |-> {}, next |-> 0, committed |-> <<>>]

\* Mutant: the hard state is written ahead of the entries it commits.
DrainStepsHardStateFirst == <<"snapshot", "hardState", "entries", "sync", "send", "apply", "advance", "compact">>

\* Mutant: messages leave before the batch is synced.
DrainStepsEager == <<"snapshot", "entries", "hardState", "send", "sync", "apply", "advance", "compact">>

DrainSteps == <<"snapshot", "entries", "hardState", "sync", "send", "apply", "advance", "compact">>

\* Mutant: a commit index by itself is not written.
NeededVotes(b, step) ==
  CASE step = "snapshot" -> b.snapshot # NoSnapshot
    [] step = "entries" -> b.entries # <<>>
    [] step = "hardState" -> b.hardState.vote # prevHardSt.vote
    [] step = "sync" -> MustSync(b)
    [] step = "send" -> b.messages # {}
    [] step = "apply" -> b.snapshot # NoSnapshot \/ b.committed # <<>>
    [] OTHER -> TRUE

Needed(b, step) ==
  CASE step = "snapshot" -> b.snapshot # NoSnapshot
    [] step = "entries" -> b.entries # <<>>
    [] step = "hardState" -> b.hardState # prevHardSt
    [] step = "sync" -> MustSync(b)
    [] step = "send" -> b.messages # {}
    [] step = "apply" -> b.snapshot # NoSnapshot \/ b.committed # <<>>
    [] OTHER -> TRUE

Running == up /\ ~failed

Ready ==
  /\ Running /\ todo = <<>>
  /\ HasReady
  /\ accepting' = FALSE
  /\ IF Unavailable(NextCommitted, committed + 1)
     THEN failed' = TRUE /\ UNCHANGED <<rd, todo>>
     ELSE /\ rd' = Batch
          /\ todo' = SelectSeq(DrainSteps, LAMBDA step : Needed(Batch, step))
          /\ UNCHANGED failed
  /\ UNCHANGED <<storageVars, coreVars, smApplied, crashes, settled, promised>>

-----------------------------------------------------------------------------
(* The pass over the batch.                                                    *)

Doing(step) ==
  /\ Running /\ todo # <<>> /\ Head(todo) = step
  /\ todo' = Tail(todo)
  /\ UNCHANGED <<crashes, settled>>

\* The simulator fails on a snapshot its storage refuses, where the server goes on.
PersistSnapshot ==
  /\ Doing("snapshot")
  /\ failed' = Stale(stored, rd.snapshot)
  /\ IF failed' THEN UNCHANGED storageVars ELSE ApplySnapshot(rd.snapshot)
  /\ UNCHANGED <<coreVars, rd, smApplied, accepting, promised>>

PersistEntries ==
  /\ Doing("entries")
  /\ failed' = Gap(stored, rd.first, rd.entries)
  /\ IF failed' THEN UNCHANGED storageVars ELSE AppendEntries(rd.first, rd.entries)
  /\ UNCHANGED <<coreVars, rd, smApplied, accepting, promised>>

PersistHardState ==
  /\ Doing("hardState")
  /\ SetHardState(rd.hardState)
  /\ UNCHANGED <<coreVars, rd, smApplied, accepting, failed, promised>>

SyncBatch ==
  /\ Doing("sync")
  /\ Sync
  /\ UNCHANGED <<coreVars, rd, smApplied, accepting, failed, promised>>

\* A message tells its receiver this node's term and vote, and which entries it has.
SendMessages ==
  /\ Doing("send")
  /\ promised' = [log |-> Max({promised.log} \cup {m.log : m \in rd.messages}),
                  vote |-> Max({promised.vote} \cup {m.vote : m \in rd.messages})]
  /\ UNCHANGED <<storageVars, coreVars, rd, smApplied, accepting, failed>>

\* The snapshot, then the entries; applyEntry skips what was applied before.
ApplyBatch ==
  /\ Doing("apply")
  /\ smApplied' = Max({smApplied, rd.snapshot.index, rd.next + Len(rd.committed) - 1})
  /\ UNCHANGED <<storageVars, coreVars, rd, accepting, failed, promised>>

\* Advance; appliedTo panics outside [applied, committed].
Advance ==
  LET last == rd.next + Len(rd.committed) - 1
  IN /\ Doing("advance")
     /\ prevHardSt' = rd.hardState
     /\ unstable' = StableTo(unstable, rd)
     /\ applied' = IF rd.committed = <<>> THEN applied ELSE last
     /\ failed' = (rd.committed # <<>> /\ last \notin applied..committed)
     /\ msgs' = {}
     /\ rd' = NoBatch
     /\ UNCHANGED <<storageVars, committed, vote, smApplied, accepting, promised>>

\* maybeCompact of the simulator, whether or not its threshold is reached.
Compaction == [index |-> smApplied, term |-> Term(stored, smApplied)]

MaybeCompact ==
  /\ Doing("compact")
  /\ \/ UNCHANGED storageVars
     \/ /\ smApplied \in FirstIndex(stored)..LastIndex(stored)
        /\ ApplySnapshot(Compaction)
  /\ UNCHANGED <<coreVars, rd, smApplied, failed, promised>>
  /\ accepting' = ~HasReady'

-----------------------------------------------------------------------------
(* What one input makes the core do to the log: a new term or vote, then one of   *)
(* the others.  The drivers drain after every input.                            *)

AtInput == Running /\ accepting

Promising(n) == msgs' = msgs \cup {[log |-> n, vote |-> vote]}

InputFrame ==
  /\ accepting' = FALSE
  /\ UNCHANGED <<storageVars, vote, prevHardSt, rd, todo, smApplied, crashes>>

\* The logs of leaders this node may hear from.
Ascending(ts) == \A k \in 1..Len(ts) - 1 : ts[k] <= ts[k + 1]
Logs == {ts \in UNION {[1..n -> Terms] : n \in 0..MaxIndex} : Ascending(ts)}

LogsMatch(ts) ==
  \A i \in DOMAIN ts : LogTerm(i) = ts[i] => \A j \in FirstLogIndex..i : LogTerm(j) = ts[j]

Leading(ts) == IsPrefix(settled, ts) /\ LogsMatch(ts)

\* The leader of ts tells that n of its entries are committed.
Settle(ts, n) == settled' = IF n > Len(settled) THEN SubSeq(ts, 1, n) ELSE settled

\* findConflict: the number of entries already in the log.
Matching(prev, ts) ==
  Max({k \in 0..Len(ts) : \A j \in 1..k : LogTerm(prev + j) = ts[j]})

\* handleAppend and maybeAppend, with their panics: the entries of source from prev
\* to hi.
HandleAppend(source, prev, hi, commit) ==
  LET ts == SubSeq(source, prev + 1, hi)
      logTerm == IF prev = 0 THEN 0 ELSE source[prev]
      same == Matching(prev, ts)
      first == prev + same + 1
      com == Max({committed, Min({commit, hi})})
  IN /\ AtInput
     /\ Leading(source) /\ Settle(source, commit)
     /\ InputFrame
     /\ \/ /\ prev < committed
           /\ Promising(committed)
           /\ UNCHANGED <<unstable, committed, failed, promised>>
        \/ /\ prev >= committed /\ LogTerm(prev) # logTerm
           /\ Promising(0)
           /\ UNCHANGED <<unstable, committed, failed, promised>>
        \/ /\ prev >= committed /\ LogTerm(prev) = logTerm
           /\ IF same = Len(ts) THEN UNCHANGED <<unstable, promised>>
              ELSE /\ unstable' = TruncateAppend(unstable, first, SubSeq(ts, same + 1, Len(ts)))
                   /\ promised' = [promised EXCEPT !.log = Min({@, first - 1})]
           /\ committed' = com
           /\ failed' = ((same < Len(ts) /\ first <= committed) \/ com > LastLogIndex')
           /\ Promising(hi)
     /\ UNCHANGED applied

\* What the core reads through unstable and storage.
View == [snapshot |-> IF unstable.snapshot # NoSnapshot THEN unstable.snapshot
                      ELSE stored.snapshot,
         entries |-> [k \in 1..LastLogIndex + 1 - FirstLogIndex |->
                        LogTerm(FirstLogIndex + k - 1)]]

\* The log holds all that is committed.
Complete == Len(settled) <= LastLogIndex /\ \A i \in FirstLogIndex..Len(settled) : LogTerm(i) = settled[i]

\* handleHeartbeat, and the commits of a leader: nothing but the commit index moves.
CommitTo(n) ==
  /\ AtInput
  /\ n \in committed + 1..LastLogIndex
  /\ Complete
  /\ settled' = settled \o [k \in 1..Max({0, n - Len(settled)}) |-> LogTerm(Len(settled) + k)]
  /\ committed' = n
  /\ Promising(0)
  /\ UNCHANGED <<unstable, applied, failed, promised>>
  /\ InputFrame

\* A leader, whose log holds all that is committed, adds an entry.
AppendEntry(t) ==
  /\ AtInput
  /\ Complete /\ LastLogIndex < MaxIndex /\ t >= LogTerm(LastLogIndex)
  /\ unstable' = TruncateAppend(unstable, LastLogIndex + 1, <<t>>)
  /\ Promising(LastLogIndex + 1)
  /\ UNCHANGED <<committed, applied, failed, settled, promised>>
  /\ InputFrame

\* handleSnapshot: already covered, fast-forward, or restore.
HandleSnapshot(source, n) ==
  /\ AtInput
  /\ Leading(source) /\ Settle(source, n)
  /\ committed' = Max({committed, n})
  /\ IF n <= committed \/ LogTerm(n) = source[n]
     THEN UNCHANGED <<unstable, applied, promised>>
     ELSE /\ unstable' = Restored([index |-> n, term |-> source[n]])
          /\ applied' = Max({applied, n})
          /\ promised' = [promised EXCEPT !.log = Min({@, committed})]
  /\ Promising(committed')
  /\ UNCHANGED failed
  /\ InputFrame

\* A new term or vote, and the answer that tells of it; more may follow.
NewVote ==
  /\ AtInput
  /\ vote < MaxVotes
  /\ vote' = vote + 1
  /\ msgs' = msgs \cup {[log |-> 0, vote |-> vote + 1]}
  /\ UNCHANGED <<storageVars, unstable, committed, applied, prevHardSt, driverVars, failed,
                 crashes, settled, promised>>

-----------------------------------------------------------------------------
(* The process dies and starts again.                                          *)

NothingUnstable(next) == [snapshot |-> NoSnapshot, entries |-> <<>>, offset |-> next]

Die ==
  /\ crashes < MaxCrashes
  /\ crashes' = crashes + 1
  /\ unstable' = NothingUnstable(1)
  /\ committed' = 0 /\ applied' = 0 /\ vote' = 0 /\ prevHardSt' = NoHardState
  /\ msgs' = {} /\ rd' = NoBatch /\ todo' = <<>> /\ smApplied' = 0 /\ accepting' = TRUE
  /\ UNCHANGED <<failed, settled, promised>>

Kill == Crash /\ Die

KillInPersistSnapshot ==
  /\ todo # <<>> /\ Head(todo) = "snapshot"
  /\ CrashInApplySnapshot(rd.snapshot)
  /\ Die

KillInCompact ==
  /\ todo # <<>> /\ Head(todo) = "compact"
  /\ smApplied \in FirstIndex(stored)..LastIndex(stored)
  /\ CrashInApplySnapshot(Compaction)
  /\ Die

\* Open, newLog, newRaft and server.New: everything the snapshot covers is committed
\* and applied, and a commit index the log does not reach is a panic.
Start ==
  LET hs == stored'.hardState
      base == stored'.snapshot.index
  IN /\ Open
     /\ unstable' = NothingUnstable(LastIndex(stored') + 1)
     /\ committed' = Max({base, hs.commit})
     /\ failed' = (hs.commit > base /\ hs.commit > LastIndex(stored'))
     /\ vote' = hs.vote
     /\ prevHardSt' = [vote |-> hs.vote, commit |-> committed']
     /\ applied' = base /\ smApplied' = base
     /\ UNCHANGED <<msgs, rd, todo, accepting, crashes, settled, promised>>

-----------------------------------------------------------------------------

Init ==
  /\ StorageInit
  /\ unstable = NothingUnstable(1)
  /\ committed = 0 /\ applied = 0 /\ vote = 0 /\ prevHardSt = NoHardState
  /\ msgs = {} /\ rd = NoBatch /\ todo = <<>> /\ smApplied = 0 /\ accepting = TRUE
  /\ failed = FALSE /\ crashes = 0
  /\ settled = <<>>
  /\ promised = [log |-> 0, vote |-> 0]

Next ==
  \/ Ready
  \/ PersistSnapshot \/ PersistEntries \/ PersistHardState \/ SyncBatch
  \/ SendMessages \/ ApplyBatch \/ Advance \/ MaybeCompact
  \/ \E source \in Logs : \E prev, commit \in 0..Len(source) :
       \E hi \in prev..Min({prev + MaxBatch, Len(source)}) : HandleAppend(source, prev, hi, commit)
  \/ \E n \in 1..MaxIndex : CommitTo(n)
  \/ \E t \in Terms : AppendEntry(t)
  \/ \E source \in Logs : \E n \in DOMAIN source : HandleSnapshot(source, n)
  \/ NewVote
  \/ Kill \/ KillInPersistSnapshot \/ KillInCompact
  \/ Start

Spec == Init /\ [][Next]_vars

-----------------------------------------------------------------------------
(* Properties.                                                                *)

\* The values s and t hold the same entries up to index n, as far as both still
\* have them one by one.
SameUpTo(s, t, n) ==
  /\ n <= LastIndex(s) /\ n <= LastIndex(t)
  /\ \A i \in Max({FirstIndex(s), FirstIndex(t)})..n : Term(s, i) = Term(t, i)

\* Whatever instant the process is killed at, the entries it has told others it holds
\* and the term and vote it has told them of are found again: a message leaves the
\* node after the fsync of what it speaks of (Ready.MustSync, the order of drain).
PromisesSurvive ==
  up => \A s \in durable : /\ SameUpTo(s, View, promised.log)
                           /\ s.hardState.vote >= promised.vote

\* Entries are handed to the state machine in order, without a gap, as the cluster
\* settled them; and all it was given is found again after a kill, so that a state
\* machine is never ahead of its log (nextCommittedEnts, appliedTo, applyEntry).
AppliedIsSafe ==
  up => /\ todo # <<>> /\ Head(todo) = "apply" =>
             /\ rd.next <= Max({smApplied, rd.snapshot.index}) + 1
             /\ \A k \in DOMAIN rd.committed : rd.committed[k] = settled[rd.next + k - 1]
        /\ \A s \in durable :
             /\ smApplied <= LastIndex(s)
             /\ \A i \in FirstIndex(s)..smApplied : Term(s, i) = settled[i]

\* No panic of raftLog and no refusal of the storage is reachable, also when a kill
\* falls between any two steps of a drain (commitTo, appliedTo, maybeAppend, slice).
NeverFails == ~failed

\* Once an input is drained nothing is left over: a restart would find the log, the
\* vote and the commit index of the core, and everything committed is applied.
DrainedIsStored ==
  up /\ ~HasReady =>
    /\ View = [snapshot |-> stored.snapshot, entries |-> stored.entries]
    /\ vote = stored.hardState.vote
    /\ committed = Max({stored.snapshot.index, stored.hardState.commit})
    /\ applied = committed /\ smApplied = committed

Plain == INSTANCE PlainLog WITH plain <- View, com <- committed

\* Through snapshot, unstable tail and storage the log is one plain sequence: the
\* inputs change it as they would a sequence, and no step of a drain changes it.
ImplementsPlainLog == Plain!PlainInit /\ [][Plain!PlainNext \/ ~up \/ ~up']_<<View, committed>>

=============================================================================
