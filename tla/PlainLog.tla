------------------------------ MODULE PlainLog ------------------------------
(* The log as the consensus core thinks of it, and as Raft models it: one         *)
(* sequence above a snapshot, and a commit index that never exceeds it.          *)
EXTENDS LogState

VARIABLES plain,   \* snapshot and entries
          com      \* the commit index

plainVars == <<plain, com>>

PlainInit == plain = [snapshot |-> NoSnapshot, entries |-> <<>>] /\ com = 0

CommitMoves == com' \in com..LastIndex(plain')

\* Entries above the commit index are added or replaced, and more may be committed.
Accept ==
  /\ \E kept \in 0..Len(plain.entries) :
       /\ plain.snapshot.index + kept >= com
       /\ plain' = Appended(plain, FirstIndex(plain) + kept,
                            SubSeq(plain'.entries, kept + 1, Len(plain'.entries)))
  /\ CommitMoves

Learn == UNCHANGED plain /\ CommitMoves

\* A snapshot beyond the commit index replaces everything,
Install ==
  /\ plain'.snapshot.index > com
  /\ plain'.entries = <<>>
  /\ com' = plain'.snapshot.index

\* one at or below it covers a prefix.
Compact ==
  LET snap == plain'.snapshot
  IN /\ snap.index \in FirstIndex(plain)..com
     /\ snap.term = Term(plain, snap.index)
     /\ plain' = Installed(plain, snap)
     /\ UNCHANGED com

PlainNext == Accept \/ Learn \/ Install \/ Compact

PlainSpec == PlainInit /\ [][PlainNext]_plainVars

=============================================================================
