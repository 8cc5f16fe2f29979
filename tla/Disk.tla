-------------------------------- MODULE Disk --------------------------------
(* The production log storage (storage/disk): an in-memory mirror, a buffer   *)
(* of records not yet written, a segmented write-ahead log and snapshot       *)
(* files.  One node, called by its drive loop; the process may die between    *)
(* any two calls and inside each of them, and Open recovers what is on disk.  *)
(*                                                                           *)
(* Values are those of LogState.  A frame cut short or failing its checksum   *)
(* is a record of type "torn".  Segment sizes are counted in records.          *)
EXTENDS LogState, SequencesExt

CONSTANTS Terms,        \* terms of entries and snapshots
          MaxIndex,     \* bound: the highest log index
          MaxBatch,     \* bound: entries in one AppendEntries
          MaxVotes,     \* bound: hard states that differ in term or vote
          MaxRecords,   \* bound: records written or buffered
          MaxCrashes,   \* bound: crashes
          SegmentSize   \* records after which a segment is full (maxSegmentSize)

ASSUME DiskBounds ==
  /\ Terms \subseteq Nat \ {0}
  /\ {MaxIndex, MaxBatch, MaxVotes, MaxRecords, MaxCrashes} \subseteq Nat
  /\ SegmentSize \in Nat \ {0}

VARIABLES
  open,        \* the process runs
  hardState,   \* the mirror: last hard state set,
  snapshot,    \*   snapshot metadata,
  entries,     \*   log above the snapshot
  buf,         \* records accumulated since the last Sync
  segs,        \* the WAL segments on disk, oldest first
  files,       \* the snapshot files on disk
  crashes,     \* crashes so far
  durable      \* history: the storage states a recovery may come back with

vars == <<open, hardState, snapshot, entries, buf, segs, files, crashes, durable>>
mirror == <<hardState, snapshot, entries>>

Mirror == [hardState |-> hardState, snapshot |-> snapshot, entries |-> entries]

-----------------------------------------------------------------------------
(* Records and segments.                                                      *)

EntryRecord(i, t) == [type |-> "entry", index |-> i, term |-> t]
HardStateRecord(h) == [type |-> "hardState", st |-> h]
TruncateRecord(snap) == [type |-> "truncateSuffix", index |-> snap.index, term |-> snap.term]
TornRecord == [type |-> "torn"]

Records == FlattenSeq(segs)

\* syncBuffered: rotate when the active segment is full, then append.
Written(ss, recs) ==
  IF Len(Last(ss)) >= SegmentSize THEN Append(ss, recs)
  ELSE [ss EXCEPT ![Len(ss)] = @ \o recs]

\* What a crash inside syncBuffered may leave: some of the records, the next one
\* perhaps in part.
PartlyWritten(ss, recs) ==
  {Written(ss, SubSeq(recs, 1, k)) : k \in 0..Len(recs)}
    \cup {Written(ss, Append(SubSeq(recs, 1, k), TornRecord)) : k \in 0..Len(recs) - 1}

-----------------------------------------------------------------------------
(* Recovery.                                                                  *)

\* loadLatestSnapshot: the newest file, and whether it still waits for its
\* truncation record.
LatestSnapshot(fs) ==
  IF fs = {} THEN [snap |-> NoSnapshot, truncate |-> FALSE]
  ELSE CHOOSE f \in fs : \A g \in fs : g.snap.index <= f.snap.index

\* Mutant: the conflicting suffix is not cut.
ApplyEntryRecordKeepsSuffix(s, r) ==
  IF r.index <= s.snapshot.index THEN s ELSE [s EXCEPT !.entries = Append(@, r.term)]

\* applyEntryRecord.  A record the snapshot covers is skipped, a gap ends the log.
ApplyEntryRecord(s, r) ==
  LET off == s.snapshot.index
      pos == r.index - (off + 1)
  IN CASE r.index <= off -> s
       [] r.index > off /\ pos > Len(s.entries) -> [s EXCEPT !.torn = TRUE]
       [] OTHER -> [s EXCEPT !.entries = Append(SubSeq(@, 1, pos), r.term)]

\* truncateSuffix.
TruncateSuffix(s, index) ==
  LET off == s.snapshot.index
  IN SubSeq(s.entries, 1, IF index <= off THEN 0 ELSE Min({index - off, Len(s.entries)}))

\* applyRecord.
ApplyRecord(s, r) ==
  CASE r.type = "entry" -> ApplyEntryRecord(s, r)
    [] r.type = "hardState" -> [s EXCEPT !.hardState = r.st]
    [] r.type = "truncateSuffix" ->
         [s EXCEPT !.entries = TruncateSuffix(s, r.index),
                   !.pending = @ /\ s.snapshot # [index |-> r.index, term |-> r.term]]
    [] OTHER -> [s EXCEPT !.torn = TRUE]

\* Mutant: replay stops at the bad record but leaves it in the file.
ReplayRecordLeavesTail(s, r) ==
  LET applied == ApplyRecord(s, r)
  IN IF s.torn THEN s ELSE [applied EXCEPT !.kept[Len(s.kept)] = Append(@, r)]

\* The loop of replaySegment: the first bad record is the end of the log, and the
\* file is cut there.
ReplayRecord(s, r) ==
  LET applied == ApplyRecord(s, r)
  IN IF s.torn THEN s
     ELSE IF applied.torn THEN applied
     ELSE [applied EXCEPT !.kept[Len(s.kept)] = Append(@, r)]

\* The loop of Open: segments after a torn one are removed.
ReplaySegment(s, seg) ==
  IF s.torn THEN s
  ELSE FoldLeft(ReplayRecord, [s EXCEPT !.kept = Append(@, <<>>)], seg)

Replayed ==
  LET latest == LatestSnapshot(files)
  IN FoldLeft(ReplaySegment,
              [hardState |-> NoHardState, snapshot |-> latest.snap, entries |-> <<>>,
               pending |-> latest.truncate, torn |-> FALSE, kept |-> <<>>],
              segs)

\* Mutant: Open trusts the replayed suffix.
RecoveryKeepsSuffix(r) ==
  [hardState |-> r.hardState, snapshot |-> r.snapshot, entries |-> r.entries]

\* The mirror Open builds: no replayed suffix survives a snapshot whose truncation
\* record is missing.
Recovery(r) ==
  [hardState |-> r.hardState, snapshot |-> r.snapshot,
   entries |-> IF r.pending THEN <<>> ELSE r.entries]

Recovered == Recovery(Replayed)

-----------------------------------------------------------------------------
(* The calls of the drive loop.                                               *)

Init ==
  /\ open = TRUE
  /\ hardState = NoHardState
  /\ snapshot = NoSnapshot
  /\ entries = <<>>
  /\ buf = <<>>
  /\ segs = << <<>> >>
  /\ files = {}
  /\ crashes = 0
  /\ durable = {Empty}

Room(n) == Len(Records) + Len(buf) + n <= MaxRecords

\* The drive loop syncs entries before it persists anything else.
EntriesSynced == \A k \in DOMAIN buf : buf[k].type # "entry"

NonDecreasing(ts) == \A k \in 1..Len(ts) - 1 : ts[k] <= ts[k + 1]

\* What the core appends: above what is committed, the next entries or ones that
\* conflict with those stored.
Unstable(first, ts) ==
  /\ first > snapshot.index
  /\ first > hardState.commit
  /\ first <= LastIndex(Mirror) + 1
  /\ first + Len(ts) - 1 <= MaxIndex
  /\ NonDecreasing(<<Term(Mirror, first - 1)>> \o ts)
  /\ first <= LastIndex(Mirror) => ts[1] # Term(Mirror, first)

AppendEntries(first, ts) ==
  /\ open
  /\ EntriesSynced
  /\ Unstable(first, ts)
  /\ Room(Len(ts))
  /\ entries' = Appended(Mirror, first, ts).entries
  /\ buf' = buf \o [k \in DOMAIN ts |-> EntryRecord(first + k - 1, ts[k])]
  /\ durable' = durable \cup {Appended(Mirror, first, SubSeq(ts, 1, k)) : k \in DOMAIN ts}
  /\ UNCHANGED <<open, hardState, snapshot, segs, files, crashes>>

SetHardState(st) ==
  /\ open
  /\ st # hardState
  /\ st.vote \in {hardState.vote, hardState.vote + 1}
  /\ st.commit \in hardState.commit..LastIndex(Mirror)
  /\ st.commit >= snapshot.index
  /\ Room(1)
  /\ hardState' = st
  /\ buf' = Append(buf, HardStateRecord(st))
  /\ durable' = durable \cup {[Mirror EXCEPT !.hardState = st]}
  /\ UNCHANGED <<open, snapshot, entries, segs, files, crashes>>

Sync ==
  /\ open
  /\ buf # <<>>
  /\ segs' = Written(segs, buf)
  /\ buf' = <<>>
  /\ durable' = {Mirror}
  /\ UNCHANGED <<open, mirror, files, crashes>>

\* What ApplySnapshot is called with: a snapshot of the node's own committed
\* prefix, or one from the leader that is ahead of it and not already in its log.
Compaction(snap) ==
  /\ snap.index \in snapshot.index + 1..Min({hardState.commit, LastIndex(Mirror)})
  /\ snap.term = Term(Mirror, snap.index)

FromLeader(snap) ==
  /\ snap.index > snapshot.index
  /\ snap.index > hardState.commit
  /\ hardState.commit >= snapshot.index
  /\ snap.term >= Term(Mirror, hardState.commit)
  /\ snap.index <= LastIndex(Mirror) => snap.term # Term(Mirror, snap.index)

Legal(snap) == EntriesSynced /\ (Compaction(snap) \/ FromLeader(snap))

TruncatesSuffix(snap) ==
  snap.index < LastIndex(Mirror) /\ ~RetainSuffix(Mirror, snap)

\* Mutant: the file does not say that a truncation record has to follow.
SnapshotFileUnflagged(snap) == [snap |-> snap, truncate |-> FALSE]

\* writeSnapshotFile: atomic (temporary file, fsync, rename, fsync of the directory).
SnapshotFile(snap) == [snap |-> snap, truncate |-> TruncatesSuffix(snap)]

ApplySnapshot(snap) ==
  /\ open
  /\ Legal(snap)
  /\ Room(1)
  /\ files' = files \cup {SnapshotFile(snap)}
  /\ snapshot' = snap
  /\ entries' = Installed(Mirror, snap).entries
  /\ IF TruncatesSuffix(snap)
     THEN /\ segs' = Written(segs, Append(buf, TruncateRecord(snap)))
          /\ buf' = <<>>
          /\ durable' = {Installed(Mirror, snap)}
     ELSE /\ durable' = {Installed(s, snap) : s \in durable}
          /\ UNCHANGED <<segs, buf>>
  /\ UNCHANGED <<open, hardState, crashes>>

-----------------------------------------------------------------------------
(* The process dies and comes back.                                           *)

Die ==
  /\ open
  /\ crashes < MaxCrashes
  /\ open' = FALSE
  /\ hardState' = NoHardState
  /\ snapshot' = NoSnapshot
  /\ entries' = <<>>
  /\ buf' = <<>>
  /\ crashes' = crashes + 1

\* Between two calls, or before a call has changed the disk.
Crash ==
  /\ Die
  /\ UNCHANGED <<segs, files, durable>>

CrashInSync ==
  /\ Die
  /\ buf # <<>>
  /\ segs' \in PartlyWritten(segs, buf)
  /\ UNCHANGED <<files, durable>>

\* The snapshot file is durable; its truncation record may not be.
CrashInApplySnapshot(snap) ==
  /\ Die
  /\ Legal(snap)
  /\ Room(1)
  /\ files' = files \cup {SnapshotFile(snap)}
  /\ durable' = {Installed(s, snap) : s \in durable}
  /\ IF TruncatesSuffix(snap)
     THEN segs' \in {segs} \cup PartlyWritten(segs, Append(buf, TruncateRecord(snap)))
     ELSE UNCHANGED segs

\* The missing truncation record is written before Open returns.
Repaired(r) == Written(r.kept, <<TruncateRecord(r.snapshot)>>)

Open ==
  LET r == Replayed
      s == Recovery(r)
  IN /\ ~open
     /\ open' = TRUE
     /\ hardState' = s.hardState
     /\ snapshot' = s.snapshot
     /\ entries' = s.entries
     /\ segs' = IF r.pending THEN Repaired(r) ELSE r.kept
     /\ durable' = {s}
     /\ UNCHANGED <<buf, files, crashes>>

\* The repair itself is cut short.
CrashInOpen ==
  /\ ~open
  /\ crashes < MaxCrashes
  /\ crashes' = crashes + 1
  /\ Replayed.pending
  /\ segs' \in PartlyWritten(Replayed.kept, <<TruncateRecord(Replayed.snapshot)>>)
  /\ UNCHANGED <<open, mirror, buf, files, durable>>

Snapshots == [index : 1..MaxIndex, term : Terms]
Batches == UNION {[1..n -> Terms] : n \in 1..MaxBatch}
HardStates == [vote : 0..MaxVotes, commit : 0..MaxIndex]

Next ==
  \/ \E first \in 1..MaxIndex, ts \in Batches : AppendEntries(first, ts)
  \/ \E st \in HardStates : SetHardState(st)
  \/ Sync
  \/ \E snap \in Snapshots : ApplySnapshot(snap)
  \/ Crash
  \/ CrashInSync
  \/ \E snap \in Snapshots : CrashInApplySnapshot(snap)
  \/ Open
  \/ CrashInOpen

Spec == Init /\ [][Next]_vars

-----------------------------------------------------------------------------
(* Properties.                                                                *)

SnapshotsOrNone == Snapshots \cup {NoSnapshot}
EntriesType == UNION {[1..n -> Terms] : n \in 0..MaxIndex}
StorageStates == [hardState : HardStates, snapshot : SnapshotsOrNone, entries : EntriesType]

Record == {HardStateRecord(h) : h \in HardStates}
            \cup {EntryRecord(i, t) : i \in 1..MaxIndex, t \in Terms}
            \cup {TruncateRecord(s) : s \in Snapshots}

\* Every variable has its type; no buffered record is torn.
TypeOK ==
  /\ open \in BOOLEAN
  /\ Mirror \in StorageStates
  /\ LastIndex(Mirror) <= MaxIndex
  /\ \A k \in DOMAIN buf : buf[k] \in Record
  /\ Len(segs) >= 1
  /\ \A k \in DOMAIN Records : Records[k] \in Record \cup {TornRecord}
  /\ files \subseteq [snap : Snapshots, truncate : BOOLEAN]
  /\ crashes \in 0..MaxCrashes
  /\ durable \subseteq StorageStates /\ durable # {}

\* Killing the process now loses nothing that was promised: the hard state and the
\* snapshot recovery finds are those after the last Sync or after some later call,
\* and the entries of that state are all recovered, in place and with their terms
\* (Sync and ApplySnapshot return only when their effect survives a crash).
SyncedSurvives ==
  LET r == Recovered
  IN \E s \in durable : /\ r.hardState = s.hardState
                        /\ r.snapshot = s.snapshot
                        /\ IsPrefix(s.entries, r.entries)

\* An entry above the snapshot was overwritten by a record the snapshot now covers.
Shadowed ==
  \E i, j \in DOMAIN Records :
     /\ i < j
     /\ Records[i].type = "entry" /\ Records[j].type = "entry"
     /\ Records[j].index <= LatestSnapshot(files).snap.index
     /\ LatestSnapshot(files).snap.index < Records[i].index

\* Killing the process now brings back nothing that was removed: recovery returns
\* exactly a state the caller may expect.  The one exception is a suffix whose
\* removal was implied by an entry record that a later snapshot covers.  A suffix
\* removed by ApplySnapshot stays removed whatever the point of the crash.
NothingElseReturns == Recovered \in durable \/ Shadowed

\* The WAL is a redo log: replaying every record in order reconstructs the durable
\* state (the package comment of storage/disk).
ReplayReconstructs == Recovered \in durable

Promise == INSTANCE LogStorage WITH up <- open, stored <- Mirror

\* The storage keeps the promise of LogStorage: every call, crash and recovery is a
\* step of it, or none at all.  A recovery that meets shadowed entries is excepted.
ImplementsLogStorage ==
  /\ Promise!StorageInit
  /\ [][Promise!StorageNext \/ (Open /\ Shadowed)]_<<open, mirror, durable>>

=============================================================================
