----------------------------- MODULE RaftClaims -----------------------------
(* A statement of the repository's documents about the consensus core that the *)
(* code does not keep.                                                         *)
EXTENDS MCRaft

\* docs/DESIGN_NOTES.md: "the probe does not change any node's term".  Then every
\* term a node is in was entered by a candidate that asked for votes in it.
TermsAreCampaigned ==
  \A i \in Node :
    Term[i] > 0 => \E m \in msgs : m.type = "MsgVote" /\ m.term = Term[i]
=============================================================================
