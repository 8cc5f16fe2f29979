----------------------------- MODULE LogStorage -----------------------------
(* The promise of raft.LogStorage, as the drive loop relies on it: a value and   *)
(* the values that may be found after a crash.  storage/disk keeps it with a     *)
(* buffer, a write-ahead log and snapshot files (Disk).                         *)
EXTENDS LogState

VARIABLES
  up,       \* the process runs
  stored,   \* the value the calls see
  durable   \* the values a crash may leave

storageVars == <<up, stored, durable>>

StorageInit ==
  /\ up = TRUE
  /\ stored = Empty
  /\ durable = {Empty}

\* Until the next Sync a crash may leave any part of the entries.
AppendEntries(first, ts) ==
  /\ up
  /\ ~Gap(stored, first, ts)
  /\ stored' = Appended(stored, first, ts)
  /\ durable' = durable \cup {Appended(stored, first, SubSeq(ts, 1, k)) : k \in DOMAIN ts}
  /\ UNCHANGED up

SetHardState(st) ==
  /\ up
  /\ stored' = [stored EXCEPT !.hardState = st]
  /\ durable' = durable \cup {stored'}
  /\ UNCHANGED up

Sync ==
  /\ up
  /\ durable' = {stored}
  /\ UNCHANGED <<up, stored>>

\* A snapshot is durable when the call returns, with or without the writes before it.
ApplySnapshot(snap) ==
  /\ up
  /\ ~Stale(stored, snap)
  /\ stored' = Installed(stored, snap)
  /\ \/ durable' = {stored'}
     \/ durable' = {Installed(s, snap) : s \in durable}
  /\ UNCHANGED up

Crash ==
  /\ up
  /\ up' = FALSE
  /\ stored' = Empty
  /\ UNCHANGED durable

\* The call has made the snapshot durable and does not return.
CrashInApplySnapshot(snap) ==
  /\ up
  /\ up' = FALSE
  /\ stored' = Empty
  /\ durable' = {Installed(s, snap) : s \in durable}

Open ==
  /\ ~up
  /\ up' = TRUE
  /\ stored' \in durable
  /\ durable' = {stored'}

\* A call is known by what it leaves behind.
StorageNext ==
  \/ \E kept \in 0..Len(stored.entries) :
       /\ kept < Len(stored'.entries)
       /\ AppendEntries(FirstIndex(stored) + kept,
                        SubSeq(stored'.entries, kept + 1, Len(stored'.entries)))
  \/ SetHardState(stored'.hardState)
  \/ Sync
  \/ ApplySnapshot(stored'.snapshot)
  \/ Crash
  \/ \E s \in durable' : CrashInApplySnapshot(s.snapshot)
  \/ Open

StorageSpec == StorageInit /\ [][StorageNext]_storageVars

=============================================================================
