----------------------------- MODULE MCService ------------------------------
(* Instances of Service for TLC: what the clients do.                         *)
EXTENDS Service

CONSTANTS a, b

Op(op, value, expect) == [op |-> op, key |-> 1, value |-> value, expect |-> expect]

\* One client creates the key and swaps its value, the other one deletes it.
Swaps == <<<<Op("cas", a, Nil), Op("cas", b, a)>>, <<Op("delete", Nil, Nil)>>>>

\* One client overwrites the key, its seqs running into each other's retries.
Puts == <<<<Op("put", a, Nil), Op("put", b, Nil)>>, <<>>>>

\* One client writes, the other reads.
WriteRead == <<<<Op("put", a, Nil)>>, <<Op("get", Nil, Nil)>>>>

Scenario(script, tries, roles, noops, breaks, snapshots, restarts) ==
  [script |-> script, tries |-> tries,
   bounds |-> [roles |-> roles, noops |-> noops, breaks |-> breaks,
               snapshots |-> snapshots, restarts |-> restarts]]

\* Two clients; one client with snapshots and a restart; reads with a restart, and
\* reads with an empty entry.
AllScenarios == {Scenario(Swaps, 2, 2, 0, 1, 0, 0),
                 Scenario(Puts, 3, 2, 0, 1, 2, 1),
                 Scenario(WriteRead, 2, 2, 0, 1, 0, 1),
                 Scenario(WriteRead, 2, 2, 1, 1, 0, 0)}

=============================================================================
