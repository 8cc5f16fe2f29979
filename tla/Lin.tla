-------------------------------- MODULE Lin ---------------------------------
(* The simulator's workload as its history records it (sim/workload.go), and the *)
(* check of that history (sim/lin).  The cluster may be wrong: an operation gets  *)
(* any answer of its kind, at any time, or none.                               *)
EXTENDS KV

CONSTANTS Scripts,   \* bounds: the operations of each client, in order
          MaxTime    \* bound: the last virtual time

ASSUME LinBounds ==
  /\ MaxTime \in Nat
  /\ \A s \in Scripts : DOMAIN s = Client

VARIABLES
  script,   \* the one this behaviour follows
  client,   \* per client: seq, pending, histID
  hist,     \* History: ops (completed), pending, nextID
  now       \* virtual time

linVars == <<script, client, hist, now>>

-----------------------------------------------------------------------------
(* Recording.                                                                 *)

\* issue and History.Invoke.
Issue(c, t) ==
  LET seq == client[c].seq + 1
      cmd == [client |-> c, seq |-> seq, op |-> script[c][seq].op, key |-> script[c][seq].key,
              value |-> script[c][seq].value, expect |-> script[c][seq].expect]
  IN /\ ~client[c].pending
     /\ seq <= Len(script[c])
     /\ now' = t
     /\ client' = [client EXCEPT ![c] = [seq |-> seq, pending |-> TRUE, histID |-> hist.nextID]]
     /\ hist' = [hist EXCEPT !.nextID = @ + 1,
                             !.pending = With(@, hist.nextID, [input |-> cmd, call |-> t])]
     /\ UNCHANGED script

\* finish and History.Complete.
Finish(c, res, t) ==
  LET op == hist.pending[client[c].histID]
  IN /\ client[c].pending
     /\ now' = t
     /\ client' = [client EXCEPT ![c].pending = FALSE]
     /\ hist' = [hist EXCEPT !.pending = Without(@, client[c].histID),
                             !.ops = Append(@, [input |-> op.input, output |-> res,
                                                call |-> op.call, return |-> t])]
     /\ UNCHANGED script

\* The answers an operation may get.
Results(op) ==
  LET versions == 1..2
      values == {Result("ok", v, n) : v \in Value, n \in versions}
      written == {Result("ok", Nil, n) : n \in versions}
  IN CASE op = "get" -> values \cup {Result("notFound", Nil, 0)}
       [] op = "put" -> written \cup {Result("staleSeq", Nil, 0)}
       [] op = "delete" -> {Result("ok", Nil, 0), Result("notFound", Nil, 0)}
       [] op = "cas" -> written \cup {Result("casMismatch", Nil, 0)}
                          \cup {[r EXCEPT !.status = "casMismatch"] : r \in values}

-----------------------------------------------------------------------------
(* The sequential model of one key.                                           *)

KeyState(value, version) == [present |-> TRUE, value |-> value, version |-> version]
Absent == [present |-> FALSE, value |-> Nil, version |-> 0]

CasMatches(st, cmd) ==
  IF cmd.expect = Nil THEN ~st.present ELSE st.present /\ st.value = cmd.expect

ApplyOp(st, cmd) ==
  CASE cmd.op = "put" -> KeyState(cmd.value, st.version + 1)
    [] cmd.op = "delete" -> Absent
    [] cmd.op = "cas" /\ CasMatches(st, cmd) -> KeyState(cmd.value, st.version + 1)
    [] OTHER -> st

\* stepKV for an answer that was seen: the model gives the same one.
Observed(st, cmd, res) ==
  LET current == res.value = st.value /\ res.version = st.version
  IN CASE cmd.op = "get" -> IF st.present THEN res.status = "ok" /\ current
                            ELSE res.status = "notFound"
       [] cmd.op = "delete" -> res.status = IF st.present THEN "ok" ELSE "notFound"
       [] cmd.op = "cas" /\ ~CasMatches(st, cmd) ->
            res.status = "casMismatch" /\ (st.present => current)
       [] OTHER -> res.status = "ok" /\ res.version = st.version + 1

StepKV(st, op) ==
  IF op.output = Nil THEN {ApplyOp(st, op.input), st}
  ELSE IF Observed(st, op.input, op.output) THEN {ApplyOp(st, op.input)}
  ELSE {}

-----------------------------------------------------------------------------
(* The check.                                                                 *)

Completed == Range(hist.ops)

\* Mutant: it has returned when Invoke says so.
UnansweredEarly ==
  {[input |-> op.input, output |-> Nil, call |-> op.call, return |-> -1] : op \in Range(hist.pending)}

\* What Check hands to Porcupine: an operation without an answer returns last.
Unanswered ==
  {[input |-> op.input, output |-> Nil, call |-> op.call, return |-> MaxTime + 1] :
     op \in Range(hist.pending)}

\* Porcupine: an order in which no operation stands after one that was called when
\* it had returned, and that leaves the power-set model a state.
RECURSIVE Search(_, _)
Search(rest, states) ==
  \/ rest = {}
  \/ \E op \in rest :
       LET after == UNION {StepKV(st, op) : st \in states}
       IN /\ \A other \in rest : other.return >= op.call
          /\ after # {}
          /\ Search(rest \ {op}, after)

\* Check, key by key.
CheckHistory ==
  \A k \in Key : Search({op \in Completed \cup Unanswered : op.input.key = k}, {Absent})

-----------------------------------------------------------------------------

LinInit ==
  /\ script \in Scripts
  /\ client = [c \in Client |-> [seq |-> 0, pending |-> FALSE, histID |-> 0]]
  /\ hist = [ops |-> <<>>, pending |-> NoMap, nextID |-> 0]
  /\ now = 0

LinNext ==
  \E c \in Client, t \in {now, now + 1} \cap 0..MaxTime :
    \/ Issue(c, t)
    \/ client[c].pending /\ \E res \in Results(script[c][client[c].seq].op) : Finish(c, res, t)

-----------------------------------------------------------------------------
(* Properties.                                                                *)

\* A client's answer is the one the store gives.  The check does not look at what a
\* mismatch returns for the value of an absent key, and neither does this.
Gives(res, seen) == \/ seen = res
                    \/ res = Result("casMismatch", Nil, 0) /\ seen.status = "casMismatch"

\* The operations run in this order on the store, all keys together, give each
\* client the answer it got.
Runs(order) ==
  FoldLeft(LAMBDA acc, op :
             LET run == Execute(acc.m, op.input)
             IN [m |-> [acc.m EXCEPT !.data = run.store],
                 ok |-> acc.ok /\ ("output" \in DOMAIN op => Gives(run.res, op.output))],
           [m |-> EmptyStore, ok |-> TRUE], order).ok

\* p had returned when q was called.
Before(p, q) == "return" \in DOMAIN p /\ p.return < q.call

\* The history is linearizable: some of the operations without an answer took effect,
\* and there is an order of these and the completed ones that keeps to real time.
LinearizableHistory ==
  \E took \in SUBSET Range(hist.pending) : \E order \in SetToSeqs(Completed \cup took) :
    /\ \A i, j \in DOMAIN order : i < j => ~Before(order[j], order[i])
    /\ Runs(order)

\* lin.Check accepts a history exactly when it is linearizable with respect to the
\* state machine the replicas run: neither the model of one key, nor checking key by
\* key, nor the way lost answers are treated accepts a wrong answer or rejects a
\* right one, but for the value in a mismatch on an absent key (KVModel, stepKV, Check; kv.Apply).
CheckIsExact == CheckHistory <=> LinearizableHistory

=============================================================================
