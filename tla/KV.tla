--------------------------------- MODULE KV ---------------------------------
(* The replicated state machine (kv): a store with versions and the table of  *)
(* client sessions that makes a retried command take effect once.             *)
(*                                                                           *)
(* A state is [data, sessions], two maps; a command is [client, seq, op, key,  *)
(* value, expect].  Clients and keys are numbers, for the order in which a     *)
(* snapshot lists them.  A nil and an empty value are the same value: the store *)
(* compares them as equal.  The nil Expect of a CAS is Nil.                    *)
EXTENDS Integers, SequencesExt

CONSTANTS Client, Key, Value, Nil

ASSUME KVSets ==
  /\ Client \subseteq Nat
  /\ Key \subseteq Nat
  /\ Nil \notin Value

\* A map with one more binding, and with one less.
With(f, k, v) == [x \in DOMAIN f \cup {k} |-> IF x = k THEN v ELSE f[x]]
Without(f, k) == [x \in DOMAIN f \ {k} |-> f[x]]
NoMap == [x \in {} |-> Nil]

EmptyStore == [data |-> NoMap, sessions |-> NoMap]

Result(status, value, version) ==
  [status |-> status, value |-> value, version |-> version]

-----------------------------------------------------------------------------
(* Commands.                                                                  *)

Version(data, key) == IF key \in DOMAIN data THEN data[key].version ELSE 0

\* get and Read.
Read(m, key) ==
  IF key \in DOMAIN m.data
  THEN Result("ok", m.data[key].value, m.data[key].version)
  ELSE Result("notFound", Nil, 0)

\* The write that Put and a successful CAS share.
Written(m, cmd) ==
  LET version == Version(m.data, cmd.key) + 1
  IN [store |-> With(m.data, cmd.key, [value |-> cmd.value, version |-> version]),
      res |-> Result("ok", Nil, version)]

Put(m, cmd) == Written(m, cmd)

Delete(m, cmd) ==
  IF cmd.key \in DOMAIN m.data
  THEN [store |-> Without(m.data, cmd.key), res |-> Result("ok", Nil, 0)]
  ELSE [store |-> m.data, res |-> Result("notFound", Nil, 0)]

\* cas: Expect = Nil asks for an absent key, any other Expect for that value.
CAS(m, cmd) ==
  LET current == Read(m, cmd.key)
      matches == IF cmd.expect = Nil THEN current.status = "notFound"
                 ELSE current.status = "ok" /\ current.value = cmd.expect
  IN IF matches THEN Written(m, cmd)
     ELSE [store |-> m.data, res |-> Result("casMismatch", current.value, current.version)]

Execute(m, cmd) ==
  CASE cmd.op = "get" -> [store |-> m.data, res |-> Read(m, cmd.key)]
    [] cmd.op = "put" -> Put(m, cmd)
    [] cmd.op = "delete" -> Delete(m, cmd)
    [] cmd.op = "cas" -> CAS(m, cmd)

\* Apply: the session answers a retry of the last command and refuses an older
\* one; any other command runs and becomes the session's last.
Apply(m, cmd) ==
  LET last == IF cmd.client \in DOMAIN m.sessions THEN m.sessions[cmd.client].lastSeq ELSE -1
      run == Execute(m, cmd)
  IN CASE cmd.seq = last -> [sm |-> m, res |-> m.sessions[cmd.client].lastResult]
       [] cmd.seq < last -> [sm |-> m, res |-> Result("staleSeq", Nil, 0)]
       [] OTHER -> [sm |-> [data |-> run.store,
                            sessions |-> With(m.sessions, cmd.client,
                                              [lastSeq |-> cmd.seq, lastResult |-> run.res])],
                    res |-> run.res]

-----------------------------------------------------------------------------
(* Snapshots: both maps as lists in ascending order, and back.                *)

Listed(f) ==
  LET keys == SetToSortSeq(DOMAIN f, <)
  IN [i \in DOMAIN keys |-> <<keys[i], f[keys[i]]>>]

Unlisted(s) ==
  [k \in {s[i][1] : i \in DOMAIN s} |-> s[CHOOSE i \in DOMAIN s : s[i][1] = k][2]]

\* Mutant: the sessions are left out of the snapshot.
SnapshotData(m) == [sessions |-> <<>>, data |-> Listed(m.data)]

Snapshot(m) == [sessions |-> Listed(m.sessions), data |-> Listed(m.data)]

Restore(s) == [data |-> Unlisted(s.data), sessions |-> Unlisted(s.sessions)]

=============================================================================
