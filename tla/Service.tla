------------------------------ MODULE Service -------------------------------
(* The client service: the leader-chasing client (client), the request         *)
(* handlers and the drive loop with its waiters (server), and one copy of the   *)
(* state machine (KV) per node.                                               *)
(*                                                                           *)
(* Consensus is reduced to what Raft guarantees: one growing sequence of        *)
(* committed entries, which every node learns in order; a proposal a node       *)
(* accepted may be committed late, or never; several nodes may think they lead;  *)
(* the index a confirmed read waits for covers all that was committed when the   *)
(* read was asked for (Raft!ReadsAreFresh).                                    *)
(*                                                                           *)
(* A call is one attempt of one operation, <<client, seq, try>>.               *)
EXTENDS KV

CONSTANTS Node,       \* the addresses, numbered 1..n in the order the client has them
          Scenarios   \* what the clients do, each with its bounds: script[c][s], the
                      \*   operation client c issues with seq s; tries, the attempts for
                      \*   one operation; and how often the limited steps happen

Limited == {"roles", "noops", "breaks", "snapshots", "restarts"}

ASSUME ServiceBounds ==
  /\ Node = 1..Cardinality(Node) /\ Node # {}
  /\ \A s \in Scenarios :
       /\ s.script \in [Client -> Seq([op : {"get", "put", "delete", "cas"}, key : Key,
                                       value : Value \cup {Nil}, expect : Value \cup {Nil}])]
       /\ s.tries \in Nat \ {0}
       /\ s.bounds \in [Limited -> Nat]

VARIABLES
  scenario,      \* the one this behaviour follows
  client,        \* per client: seq, try, leader (the address it uses), whether it is
                 \*   waiting, and what was committed when the operation began
  queue,         \* reqCh: calls the drive loop has not taken yet
  replies,       \* answers on their way to a client that waits for them
  role,          \* the node thinks it leads
  sm,            \* the node's state machine
  applied,       \* index of the last entry applied to it
  writeWaiters,  \* calls waiting for their command to be applied
  readWaiters,   \* calls waiting for their read, by token
  readToken,     \* last token used
  pendingReads,  \* confirmed reads waiting for applied: <<token, index>>
  snap,          \* the node's stored snapshot
  reading,       \* consensus: reads not yet confirmed, <<token, index>>
  pool,          \* consensus: accepted proposals not committed
  chosen,        \* consensus: the committed entries
  meaning,       \* history: the store after each of them
  budget,        \* how much of each bound is left: changes of leadership, entries without
                 \*   a command, failed and given up attempts, snapshots, restarts
  done,          \* history: the answers clients got
  overtaken      \* history: calls that lost their waiter to an earlier attempt

clientVars == <<client, replies, done>>
log == <<chosen, meaning>>
nodeVars == <<role, sm, applied, writeWaiters, readWaiters, readToken, pendingReads, snap, reading>>
vars == <<scenario, clientVars, queue, nodeVars, pool, log, budget, overtaken>>

\* An entry is the call that proposed it, or a leader's empty entry.
Noop == <<>>

\* A limited kind of step uses up one of its kind.
Spend(kind) == budget[kind] > 0 /\ budget' = [budget EXCEPT ![kind] = @ - 1]

-----------------------------------------------------------------------------
(* Calls and answers.                                                         *)

Script(c) == scenario.script[c]
Operation(call) == Script(call[1])[call[2]]
IsRead(call) == Operation(call).op = "get"
Command(call) == [client |-> call[1], seq |-> call[2], op |-> Operation(call).op,
                  key |-> Operation(call).key, value |-> Operation(call).value,
                  expect |-> Operation(call).expect]

\* clientKey: what a write waiter is filed under.
SameCommand(c, d) == c[1] = d[1] /\ c[2] = d[2]

CallOf(c) == <<c, client[c].seq, client[c].try>>
Waiting(call) == client[call[1]].busy /\ CallOf(call[1]) = call

\* What the handlers of KVService make of a result.
Response(op, res) ==
  CASE op = "get" -> IF res.status = "ok" THEN <<TRUE, res.value, res.version>>
                     ELSE <<FALSE, Nil, 0>>
    [] op = "put" -> <<res.version>>
    [] op = "delete" -> <<res.status = "ok">>
    [] op = "cas" -> <<res.status = "ok", res.version,
                       IF res.status = "casMismatch" THEN res.value ELSE Nil>>

\* A handler's answer reaches the client only while the client waits for it.
Answer(call, body) == [call |-> call, kind |-> "result", body |-> body]
NotLeader(call) == [call |-> call, kind |-> "notLeader", body |-> Nil]
Broken(call) == [call |-> call, kind |-> "error", body |-> Nil]
Post(answers) == replies' = replies \cup {a \in answers : Waiting(a.call)}

-----------------------------------------------------------------------------
(* The client.                                                                *)

Idle(c) == ~client[c].busy

\* Between two operations a client keeps its seq and the address it used last.
Resting(leader, cl) ==
  [seq |-> cl.seq, try |-> 0, leader |-> leader, busy |-> FALSE, from |-> 0]

\* header, then the first attempt.
Invoke(c) ==
  LET next == [client[c] EXCEPT !.seq = @ + 1, !.try = 1, !.busy = TRUE, !.from = Len(chosen)]
  IN /\ Idle(c)
     /\ client[c].seq < Len(Script(c))
     /\ client' = [client EXCEPT ![c] = next]
     /\ queue' = [queue EXCEPT ![next.leader] = @ \cup {<<c, next.seq, 1>>}]
     /\ UNCHANGED <<replies, done, nodeVars, pool, log, overtaken, budget>>

\* advanceLeader without a hint.
RoundRobin(n) == (n % Cardinality(Node)) + 1

Forget(c) == replies' = {a \in replies : a.call[1] # c}

\* The next attempt goes to leader with the same seq; the last one has failed.
Retry(c, leader) ==
  LET next == [client[c] EXCEPT !.leader = leader, !.try = @ + 1]
  IN /\ Forget(c)
     /\ IF client[c].try < scenario.tries
        THEN /\ client' = [client EXCEPT ![c] = next]
             /\ queue' = [queue EXCEPT ![leader] = @ \cup {<<c, next.seq, next.try>>}]
        ELSE /\ client' = [client EXCEPT ![c] = Resting(leader, @)]
             /\ UNCHANGED queue

\* The RPC fails, whatever became of the request.
RpcError(c) ==
  /\ client[c].busy
  /\ Spend("breaks")
  /\ Retry(c, RoundRobin(client[c].leader))
  /\ UNCHANGED <<done, nodeVars, pool, log, overtaken>>

\* The node it was talking to went away.
ConnectionLost(c) ==
  /\ \E a \in replies : a.call[1] = c /\ a.kind = "error"
  /\ Retry(c, RoundRobin(client[c].leader))
  /\ UNCHANGED <<done, nodeVars, pool, log, overtaken, budget>>

\* A redirect names the node the server takes for the leader, or none.
Redirected(c) ==
  /\ \E a \in replies : a.call[1] = c /\ a.kind = "notLeader"
  /\ \E leader \in Node : Retry(c, leader)
  /\ UNCHANGED <<done, nodeVars, pool, log, overtaken, budget>>

\* The caller's context expires.
GiveUp(c) ==
  /\ client[c].busy
  /\ Spend("breaks")
  /\ Forget(c)
  /\ client' = [client EXCEPT ![c] = Resting(@.leader, @)]
  /\ UNCHANGED <<queue, done, nodeVars, pool, log, overtaken>>

Complete(c) ==
  \E a \in replies :
     /\ a.call[1] = c /\ a.kind = "result"
     /\ client' = [client EXCEPT ![c] = Resting(@.leader, @)]
     /\ done' = done \cup {[call |-> a.call, body |-> a.body,
                            from |-> client[c].from, to |-> Len(chosen)]}
     /\ Forget(c)
     /\ UNCHANGED <<queue, nodeVars, pool, log, overtaken, budget>>

-----------------------------------------------------------------------------
(* The drive loop: every event ends in drain.                                 *)

\* Mutant: a retry leaves the waiter of the earlier attempt in place.
RegisterWriteAgain(n, call) == writeWaiters[n] \cup {call}

\* The waiter of a retried command replaces the one of the earlier attempt.
RegisterWrite(n, call) == {w \in writeWaiters[n] : ~SameCommand(w, call)} \cup {call}

\* handleRequest on a node that does not lead.
Redirect(n, call) ==
  /\ call \in queue[n]
  /\ ~role[n]
  /\ queue' = [queue EXCEPT ![n] = @ \ {call}]
  /\ Post({NotLeader(call)})
  /\ readToken' = IF IsRead(call) THEN [readToken EXCEPT ![n] = @ + 1] ELSE readToken
  /\ UNCHANGED <<client, done, role, sm, applied, writeWaiters, readWaiters,
                 pendingReads, snap, reading, pool, log, overtaken, budget>>

Propose(n, call) ==
  /\ call \in queue[n]
  /\ role[n] /\ ~IsRead(call)
  /\ queue' = [queue EXCEPT ![n] = @ \ {call}]
  /\ pool' = pool \cup {call}
  /\ writeWaiters' = [writeWaiters EXCEPT ![n] = RegisterWrite(n, call)]
  /\ overtaken' = overtaken \cup {w \in writeWaiters[n] :
                                    SameCommand(w, call) /\ w[3] > call[3]}
  /\ UNCHANGED <<clientVars, role, sm, applied, readWaiters, readToken,
                 pendingReads, snap, reading, log, budget>>

AskRead(n, call) ==
  LET token == readToken[n] + 1
  IN /\ call \in queue[n]
     /\ role[n] /\ IsRead(call)
     /\ queue' = [queue EXCEPT ![n] = @ \ {call}]
     /\ readToken' = [readToken EXCEPT ![n] = token]
     /\ readWaiters' = [readWaiters EXCEPT ![n] = With(@, token, call)]
     /\ reading' = [reading EXCEPT ![n] = @ \cup {<<token, Len(chosen)>>}]
     /\ UNCHANGED <<clientVars, role, sm, applied, writeWaiters, pendingReads,
                    snap, pool, log, overtaken, budget>>

\* serveRead: the answers to those of the reads rs that have a waiter, from state m.
Served(n, rs, m) ==
  {Answer(readWaiters[n][t], Response("get", Read(m, Operation(readWaiters[n][t]).key))) :
     t \in {r[1] : r \in rs} \cap DOMAIN readWaiters[n]}

Unwaited(n, rs) == [t \in DOMAIN readWaiters[n] \ {r[1] : r \in rs} |-> readWaiters[n][t]]

\* applyEntry: apply the next entry, complete its waiter, serve the reads that
\* waited for it.
ApplyEntry(n) ==
  LET index == applied[n] + 1
      entry == chosen[index]
      outcome == IF entry = Noop THEN [sm |-> sm[n], res |-> Nil]
                 ELSE Apply(sm[n], Command(entry))
      completed == IF entry = Noop THEN {}
                   ELSE {w \in writeWaiters[n] : SameCommand(w, entry)}
      ready == {r \in pendingReads[n] : index >= r[2]}
  IN /\ index \in DOMAIN chosen
     /\ applied' = [applied EXCEPT ![n] = index]
     /\ sm' = [sm EXCEPT ![n] = outcome.sm]
     /\ writeWaiters' = [writeWaiters EXCEPT ![n] = @ \ completed]
     /\ pendingReads' = [pendingReads EXCEPT ![n] = @ \ ready]
     /\ readWaiters' = [readWaiters EXCEPT ![n] = Unwaited(n, ready)]
     /\ Post({Answer(w, Response(Operation(w).op, outcome.res)) : w \in completed}
               \cup Served(n, ready, outcome.sm))
     /\ UNCHANGED <<client, done, queue, role, readToken, snap, reading, pool, log, overtaken, budget>>

\* Mutant: a confirmed read does not wait for its index.
ReadyNow(n, read) == TRUE

Ready(n, read) == applied[n] >= read[2]

\* releaseRead: a confirmed read is served, or kept until its index is applied.
ReleaseRead(n, read) ==
  /\ role[n]
  /\ read \in reading[n]
  /\ reading' = [reading EXCEPT ![n] = @ \ {read}]
  /\ IF Ready(n, read)
     THEN /\ Post(Served(n, {read}, sm[n]))
          /\ readWaiters' = [readWaiters EXCEPT ![n] = Unwaited(n, {read})]
          /\ UNCHANGED pendingReads
     ELSE /\ pendingReads' = [pendingReads EXCEPT ![n] = @ \cup {read}]
          /\ UNCHANGED <<replies, readWaiters>>
  /\ UNCHANGED <<client, done, queue, role, sm, applied, writeWaiters, readToken, snap,
                 pool, log, overtaken, budget>>

Elected(n) ==
  /\ ~role[n]
  /\ Spend("roles")
  /\ role' = [role EXCEPT ![n] = TRUE]
  /\ UNCHANGED <<clientVars, queue, sm, applied, writeWaiters, readWaiters, readToken,
                 pendingReads, snap, reading, pool, log, overtaken>>

\* Mutant: only the reads are answered.
FlushedReads(n) == Range(readWaiters[n])

\* The waiters checkLeadership answers when leadership is lost.
Flushed(n) == writeWaiters[n] \cup Range(readWaiters[n])

\* The node steps down and checkLeadership sends its waiters elsewhere.
Deposed(n) ==
  /\ role[n]
  /\ Spend("roles")
  /\ role' = [role EXCEPT ![n] = FALSE]
  /\ Post({NotLeader(w) : w \in Flushed(n)})
  /\ writeWaiters' = [writeWaiters EXCEPT ![n] = {}]
  /\ readWaiters' = [readWaiters EXCEPT ![n] = NoMap]
  /\ pendingReads' = [pendingReads EXCEPT ![n] = {}]
  /\ reading' = [reading EXCEPT ![n] = {}]
  /\ UNCHANGED <<client, done, queue, sm, applied, readToken, snap, pool, log, overtaken>>

\* maybeCompact: the node stores a snapshot of its state machine.
Compact(n) ==
  /\ applied[n] > snap[n].index
  /\ Spend("snapshots")
  /\ snap' = [snap EXCEPT ![n] = [index |-> applied[n], data |-> Snapshot(sm[n])]]
  /\ UNCHANGED <<clientVars, queue, role, sm, applied, writeWaiters, readWaiters, readToken,
                 pendingReads, reading, pool, log, overtaken>>

\* drain with a snapshot from the leader m: stored, then restored.
InstallSnapshot(n, m) ==
  /\ ~role[n]
  /\ snap[m].index > applied[n]
  /\ Spend("snapshots")
  /\ snap' = [snap EXCEPT ![n] = snap[m]]
  /\ sm' = [sm EXCEPT ![n] = Restore(snap[m].data)]
  /\ applied' = [applied EXCEPT ![n] = snap[m].index]
  /\ UNCHANGED <<clientVars, queue, role, writeWaiters, readWaiters, readToken,
                 pendingReads, reading, pool, log, overtaken>>

\* The process dies and New starts it again from its snapshot; connections break.
Restart(n) ==
  /\ Spend("restarts")
  /\ role' = [role EXCEPT ![n] = FALSE]
  /\ sm' = [sm EXCEPT ![n] = Restore(snap[n].data)]
  /\ applied' = [applied EXCEPT ![n] = snap[n].index]
  /\ queue' = [queue EXCEPT ![n] = {}]
  /\ writeWaiters' = [writeWaiters EXCEPT ![n] = {}]
  /\ readWaiters' = [readWaiters EXCEPT ![n] = NoMap]
  /\ readToken' = [readToken EXCEPT ![n] = 0]
  /\ pendingReads' = [pendingReads EXCEPT ![n] = {}]
  /\ reading' = [reading EXCEPT ![n] = {}]
  /\ Post({Broken(CallOf(c)) : c \in {d \in Client : client[d].leader = n}})
  /\ UNCHANGED <<client, done, snap, pool, log, overtaken>>

-----------------------------------------------------------------------------
(* Consensus.                                                                 *)

\* What the committed entries mean, without sessions: a command takes effect at its
\* first place, unless its client already has a later one before it.
Superseded(call, n) ==
  \E k \in 1..n : /\ chosen[k] # Noop
                  /\ chosen[k][1] = call[1] /\ chosen[k][2] >= call[2]

DataAfter(k) == IF k = 0 THEN EmptyStore.data ELSE meaning[k]
StoreAfter(k) == [EmptyStore EXCEPT !.data = DataAfter(k)]

Commit(call) ==
  /\ call \in pool
  /\ pool' = pool \ {call}
  /\ chosen' = Append(chosen, call)
  /\ meaning' = Append(meaning, IF Superseded(call, Len(chosen))
                                THEN DataAfter(Len(chosen))
                                ELSE Execute(StoreAfter(Len(chosen)), Command(call)).store)
  /\ UNCHANGED <<clientVars, queue, nodeVars, budget, overtaken>>

CommitNoop ==
  /\ Spend("noops")
  /\ chosen' = Append(chosen, Noop)
  /\ meaning' = Append(meaning, DataAfter(Len(chosen)))
  /\ UNCHANGED <<clientVars, queue, nodeVars, pool, overtaken>>

-----------------------------------------------------------------------------

NoSnapshot == [index |-> 0, data |-> Snapshot(EmptyStore)]

Init ==
  /\ scenario \in Scenarios
  /\ client = [c \in Client |-> [seq |-> 0, try |-> 0, leader |-> 1, busy |-> FALSE, from |-> 0]]
  /\ queue = [n \in Node |-> {}]
  /\ replies = {}
  /\ role = [n \in Node |-> FALSE]
  /\ sm = [n \in Node |-> EmptyStore]
  /\ applied = [n \in Node |-> 0]
  /\ writeWaiters = [n \in Node |-> {}]
  /\ readWaiters = [n \in Node |-> NoMap]
  /\ readToken = [n \in Node |-> 0]
  /\ pendingReads = [n \in Node |-> {}]
  /\ snap = [n \in Node |-> NoSnapshot]
  /\ reading = [n \in Node |-> {}]
  /\ pool = {}
  /\ chosen = <<>>
  /\ meaning = <<>>
  /\ budget = scenario.bounds
  /\ done = {}
  /\ overtaken = {}

Step ==
  \/ \E c \in Client : Invoke(c)
  \/ \E c \in Client : RpcError(c)
  \/ \E c \in Client : ConnectionLost(c)
  \/ \E c \in Client : Redirected(c)
  \/ \E c \in Client : GiveUp(c)
  \/ \E c \in Client : Complete(c)
  \/ \E n \in Node : \E call \in queue[n] : Redirect(n, call)
  \/ \E n \in Node : \E call \in queue[n] : Propose(n, call)
  \/ \E n \in Node : \E call \in queue[n] : AskRead(n, call)
  \/ \E n \in Node : ApplyEntry(n)
  \/ \E n \in Node : \E read \in reading[n] : ReleaseRead(n, read)
  \/ \E n \in Node : Elected(n)
  \/ \E n \in Node : Deposed(n)
  \/ \E n \in Node : Compact(n)
  \/ \E n, m \in Node : InstallSnapshot(n, m)
  \/ \E n \in Node : Restart(n)
  \/ \E call \in pool : Commit(call)
  \/ CommitNoop

Next == Step /\ UNCHANGED scenario

Spec == Init /\ [][Next]_vars

-----------------------------------------------------------------------------
(* Properties.                                                                *)

IsCall(call) ==
  /\ call[1] \in Client
  /\ call[2] \in DOMAIN Script(call[1])
  /\ call[3] \in 1..scenario.tries

\* Types; a node never holds two write waiters for one command, nor any waiter
\* while it follows.
TypeOK ==
  /\ \A n \in Node :
       /\ \A call \in queue[n] \cup writeWaiters[n] \cup Range(readWaiters[n]) : IsCall(call)
       /\ applied[n] \in 0..Len(chosen)
       /\ snap[n].index \in 0..applied[n]
       /\ \A v, w \in writeWaiters[n] : SameCommand(v, w) => v = w
       /\ DOMAIN readWaiters[n] \subseteq 1..readToken[n]
       /\ ~role[n] => writeWaiters[n] = {} /\ DOMAIN readWaiters[n] = {}
  /\ \A call \in pool \cup (Range(chosen) \ {Noop}) \cup overtaken : IsCall(call)
  /\ Len(meaning) = Len(chosen)
  /\ \A a \in replies : Waiting(a.call)

\* Every replica holds what the committed entries mean when each command takes
\* effect once, at its first place: retries, late and reordered duplicates,
\* snapshots, installs and restarts make no difference (Apply, Restore).
ExactlyOnce == \A n \in Node : sm[n].data = DataAfter(applied[n])

\* The answers clients get are linearizable.  A write's answer is the result of its
\* command at the one place where it counts, and that place was committed between
\* the operation's start and its end.  A read's answer is the value after some
\* prefix that was committed by the end and covers all that was committed at the
\* start (KVService, handleRequest, applyEntry, serveRead).
Linearizable ==
  \A d \in done :
     IF IsRead(d.call)
     THEN \E k \in d.from..d.to :
            d.body = Response("get", Read(StoreAfter(k), Operation(d.call).key))
     ELSE \E k \in d.from + 1..d.to :
            /\ chosen[k] # Noop /\ SameCommand(chosen[k], d.call)
            /\ ~Superseded(d.call, k - 1)
            /\ d.body = Response(Operation(d.call).op,
                                 Execute(StoreAfter(k - 1), Command(d.call)).res)

\* A client never waits for an answer nobody will give: its call is queued, or
\* answered, or has a waiter at a node that leads and that something can still
\* complete, be it an entry to apply or a read to confirm or to serve.  The one
\* exception is a call whose waiter gave way to that of an earlier attempt handled
\* late: handleRequest files waiters under the command, not the attempt.
NoCallIsForgotten ==
  \A c \in Client : client[c].busy =>
    LET call == CallOf(c)
        n == client[c].leader
        written == {chosen[k] : k \in applied[n] + 1..Len(chosen)} \cup pool
        asked == {r[1] : r \in reading[n] \cup pendingReads[n]}
    IN \/ call \in queue[n] \cup overtaken
       \/ \E a \in replies : a.call = call
       \/ /\ call \in writeWaiters[n]
          /\ \E w \in written : w # Noop /\ SameCommand(w, call)
       \/ \E t \in DOMAIN readWaiters[n] \cap asked : readWaiters[n][t] = call

=============================================================================
