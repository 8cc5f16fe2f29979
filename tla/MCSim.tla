------------------------------- MODULE MCSim --------------------------------
(* The simulator's two judges for TLC: the checker of every step and the check   *)
(* of the history.  They share nothing, so each behaviour is about one of them.  *)
EXTENDS Checker, Lin

CONSTANTS a, b

Scenario(writes, commits, snapshots, roles, crashes, last, max) ==
  [writes |-> writes, commits |-> commits, snapshots |-> snapshots, roles |-> roles,
   crashes |-> crashes, last |-> last, events |-> max]

Quiet == Scenario({}, {}, {}, {}, {}, 0, 0)

\* One leader and commits at two others; snapshots and two indexes; a replica that
\* compacts, crashes and restarts; three logs and three leaders.
AllScenarios == {Quiet,
   Scenario({2, 3}, {2, 3}, {}, {1}, {}, 1, 5),
   Scenario({1, 2}, {2, 3}, {3}, {1}, {}, 2, 4),
   Scenario({1, 2}, {1}, {1}, {}, {1}, 1, 5),
   Scenario({1, 2, 3}, {}, {}, {1, 2, 3}, {}, 1, 4)}

Op(op, key, value, expect) == [op |-> op, key |-> key, value |-> value, expect |-> expect]

Silent == <<<<>>, <<>>, <<>>>>

\* A key written, read and deleted; created, swapped and read; two keys; three
\* clients at once.
AllScripts == {Silent,
   <<<<Op("put", 1, a, Nil), Op("get", 1, Nil, Nil)>>, <<Op("delete", 1, Nil, Nil)>>, <<>>>>,
   <<<<Op("cas", 1, a, Nil), Op("cas", 1, b, a)>>, <<Op("get", 1, Nil, Nil)>>, <<>>>>,
   <<<<Op("put", 1, a, Nil), Op("get", 2, Nil, Nil)>>, <<Op("put", 2, b, Nil)>>, <<>>>>,
   <<<<Op("put", 1, a, Nil)>>, <<Op("put", 1, b, Nil)>>, <<Op("get", 1, Nil, Nil)>>>>}

SimInit ==
  /\ CheckerInit /\ LinInit
  /\ (scenario = Quiet) # (script = Silent)

SimNext ==
  \/ CheckerNext /\ UNCHANGED linVars
  \/ LinNext /\ UNCHANGED checkerVars

SimSpec == SimInit /\ [][SimNext]_<<checkerVars, linVars>>

=============================================================================
