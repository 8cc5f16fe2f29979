------------------------------ MODULE LogState ------------------------------
(* The value a LogStorage holds and what its calls make of it: storage/mem,     *)
(* which keeps it in memory, and the mirror of storage/disk.                   *)
(*                                                                           *)
(* An entry is its term; entries[k] is the entry at index snapshot.index + k.   *)
(* A snapshot is its metadata.  The term and vote of a hard state are one       *)
(* number that grows.                                                         *)
EXTENDS Integers, Sequences

NoSnapshot == [index |-> 0, term |-> 0]
NoHardState == [vote |-> 0, commit |-> 0]
Empty == [hardState |-> NoHardState, snapshot |-> NoSnapshot, entries |-> <<>>]

FirstIndex(s) == s.snapshot.index + 1
LastIndex(s) == s.snapshot.index + Len(s.entries)

\* Term, where it returns no error.
Term(s, i) == IF i = s.snapshot.index THEN s.snapshot.term
              ELSE s.entries[i - s.snapshot.index]

\* AppendEntries refuses to leave a gap,
Gap(s, first, ts) ==
  first + Len(ts) - 1 > s.snapshot.index /\ first > LastIndex(s) + 1

\* skips what the snapshot covers, and replaces all that stood at or above the rest.
Appended(s, first, ts) ==
  LET covered == IF first > s.snapshot.index THEN 0 ELSE s.snapshot.index + 1 - first
      new == SubSeq(ts, covered + 1, Len(ts))
  IN IF covered >= Len(ts) THEN s
     ELSE [s EXCEPT !.entries = SubSeq(@, 1, first + covered - s.snapshot.index - 1) \o new]

\* ApplySnapshot refuses a snapshot that is not newer than the stored one
Stale(s, snap) == snap.index <= s.snapshot.index

\* and keeps the suffix above a boundary that has the snapshot's term.
RetainSuffix(s, snap) ==
  snap.index < LastIndex(s) /\ Term(s, snap.index) = snap.term

Installed(s, snap) ==
  [s EXCEPT !.snapshot = snap,
            !.entries = IF RetainSuffix(s, snap)
                        THEN SubSeq(@, snap.index - s.snapshot.index + 1, Len(@))
                        ELSE <<>>]

=============================================================================
