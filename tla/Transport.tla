----------------------------- MODULE Transport ------------------------------
(* The goroutines of the server processes and the channels between them: the      *)
(* peer transport (transport/grpc), the drive loop and its client requests, and   *)
(* the way a process stops (server).  What the messages and requests say is left  *)
(* to Raft and Service.  gRPC is external: a call may be lost, or outlive the     *)
(* caller that gave it up.                                                      *)
EXTENDS Integers, FiniteSets, SequencesExt

CONSTANTS Node,
          Call,             \* client calls
          ServedBy,         \* the node each of them is made to
          OutboundQueue,    \* outboundQueue, recvQueue and the size of reqCh
          RecvQueue,
          RequestQueue,
          Batches,          \* for each node, the sizes of the batches it sends to each peer
          Stopping          \* nodes whose context is cancelled

VARIABLES
  pc,         \* where the goroutine of Run is in each process
  sent,       \* how many batches its drive loop has handed to Send
  senders,    \* per peer: the state of run, the batch it forwards, and whether done is closed
  outbox,     \* per peer: peerSender.ch
  rpcs,       \* calls of RaftTransport.Step that may still have an effect
  recvCh,
  recvOpen,   \* recvCh is not closed
  reqCh,
  waiters,    \* the calls registered with the drive loop
  calls,      \* the state of each client call in submit
  resp,       \* the answers in each call's resp channel
  got,        \* history: the messages the drive loop took
  givenUp,    \* history: batches whose RPC its sender gave up
  leftBehind, \* history: batches whose handler srv.Stop did not wait for
  panicked    \* history: batches whose handler sent on a closed channel

peerVars == <<sent, senders, outbox, rpcs, recvCh, recvOpen, got, givenUp, leftBehind, panicked>>
callVars == <<reqCh, waiters, calls, resp>>
vars == <<pc, peerVars, callVars>>

Alive(n) == pc[n] # "crashed"
Driving(n) == pc[n] = "drive"

-----------------------------------------------------------------------------
(* Outbound: Send and the goroutine of each peer.                              *)

\* The batch number k from n to p: messages are numbered in the order of sending.
BatchOf(n, p, k) == [i \in 1..Batches[n][k] |-> [from |-> n, to |-> p, batch |-> k, pos |-> i]]

Idle == [st |-> "idle", batch |-> <<>>, done |-> FALSE]
NoSender == [st |-> "none", batch |-> <<>>, done |-> FALSE]

\* Send hands a batch to every other peer's queue, starting its goroutine if needed,
\* and drops it when the queue is full.
Send(n) ==
  LET k == sent[n] + 1
      others == Node \ {n}
  IN /\ Driving(n)
     /\ k \in DOMAIN Batches[n]
     /\ sent' = [sent EXCEPT ![n] = k]
     /\ senders' = [senders EXCEPT ![n] = [p \in Node |->
                      IF p \in others /\ @[p].st = "none" THEN Idle ELSE @[p]]]
     /\ outbox' = [outbox EXCEPT ![n] = [p \in Node |->
                      IF p \in others /\ Len(@[p]) < OutboundQueue
                      THEN Append(@[p], BatchOf(n, p, k)) ELSE @[p]]]
     /\ UNCHANGED <<pc, rpcs, recvCh, recvOpen, got, givenUp, leftBehind, panicked, callVars>>

\* Mutant: the next batch does not wait for the RPC.
TakeAhead(n, p) ==
  LET batch == Head(outbox[n][p])
  IN /\ Alive(n)
     /\ senders[n][p].st = "idle" /\ outbox[n][p] # <<>>
     /\ outbox' = [outbox EXCEPT ![n][p] = Tail(@)]
     /\ rpcs' = rpcs \cup {[batch |-> batch, to |-> p, st |-> "sent", left |-> batch]}
     /\ UNCHANGED <<pc, sent, senders, recvCh, recvOpen, got, givenUp, leftBehind, panicked, callVars>>

\* run takes a batch; the dial fails, or the RPC is under way.
Take(n, p) ==
  LET batch == Head(outbox[n][p])
  IN /\ Alive(n)
     /\ senders[n][p].st = "idle" /\ outbox[n][p] # <<>>
     /\ outbox' = [outbox EXCEPT ![n][p] = Tail(@)]
     /\ \/ UNCHANGED <<senders, rpcs>>
        \/ /\ senders' = [senders EXCEPT ![n][p] = [@ EXCEPT !.st = "calling", !.batch = batch]]
           /\ rpcs' = rpcs \cup {[batch |-> batch, to |-> p, st |-> "sent", left |-> batch]}
     /\ UNCHANGED <<pc, sent, recvCh, recvOpen, got, givenUp, leftBehind, panicked, callVars>>

\* Mutant: a batch whose RPC failed is sent again.
CallReturnsRetry(n, p) ==
  LET batch == senders[n][p].batch
  IN /\ Alive(n)
     /\ senders[n][p].st = "calling"
     /\ senders' = [senders EXCEPT ![n][p] = [@ EXCEPT !.st = "idle", !.batch = <<>>]]
     /\ \/ /\ \E r \in rpcs : r.batch = batch /\ r.st = "done"
           /\ UNCHANGED <<givenUp, outbox>>
        \/ /\ outbox' = [outbox EXCEPT ![n][p] = Append(@, batch)]
           /\ givenUp' = givenUp \cup {batch}
     /\ rpcs' = {r \in rpcs : r.batch # batch \/ r.st # "done"}
     /\ UNCHANGED <<pc, sent, recvCh, recvOpen, got, leftBehind, panicked, callVars>>

\* Mutant: the RPC has no deadline.
CallReturnsWaits(n, p) ==
  LET batch == senders[n][p].batch
  IN /\ Alive(n)
     /\ senders[n][p].st = "calling"
     /\ \E r \in rpcs : r.batch = batch /\ r.st = "done"
     /\ senders' = [senders EXCEPT ![n][p] = [@ EXCEPT !.st = "idle", !.batch = <<>>]]
     /\ rpcs' = {r \in rpcs : r.batch # batch \/ r.st # "done"}
     /\ UNCHANGED <<pc, sent, outbox, recvCh, recvOpen, got, givenUp, leftBehind, panicked, callVars>>

\* The RPC returns; or it fails, at the latest when its 500 ms are over, and the
\* batch is dropped.  The handler may be running, or yet to start, all the same.
CallReturns(n, p) ==
  LET batch == senders[n][p].batch
  IN /\ Alive(n)
     /\ senders[n][p].st = "calling"
     /\ senders' = [senders EXCEPT ![n][p] = [@ EXCEPT !.st = "idle", !.batch = <<>>]]
     /\ \/ /\ \E r \in rpcs : r.batch = batch /\ r.st = "done"
           /\ UNCHANGED givenUp
        \/ givenUp' = givenUp \cup {batch}
     /\ rpcs' = {r \in rpcs : r.batch # batch \/ r.st # "done"}
     /\ UNCHANGED <<pc, sent, outbox, recvCh, recvOpen, got, leftBehind, panicked, callVars>>

SenderExits(n, p) ==
  /\ Alive(n)
  /\ senders[n][p].st = "idle" /\ senders[n][p].done
  /\ senders' = [senders EXCEPT ![n][p].st = "exited"]
  /\ UNCHANGED <<pc, sent, outbox, rpcs, recvCh, recvOpen, got, givenUp, leftBehind, panicked, callVars>>

-----------------------------------------------------------------------------
(* Inbound: the RPCs (external) and the handler Step.                           *)

Serving(n) == pc[n] \in {"drive", "stopClients", "close", "signal", "stopServer"}

StartHandler(r) ==
  /\ r.st = "sent" /\ Serving(r.to)
  /\ rpcs' = (rpcs \ {r}) \cup {[r EXCEPT !.st = "running"]}
  /\ UNCHANGED <<pc, sent, senders, outbox, recvCh, recvOpen, got, givenUp, leftBehind, panicked, callVars>>

LoseRPC(r) ==
  /\ r.st = "sent"
  /\ rpcs' = rpcs \ {r}
  /\ UNCHANGED <<pc, sent, senders, outbox, recvCh, recvOpen, got, givenUp, leftBehind, panicked, callVars>>

\* What is left of a process that panics.
Crash(n) ==
  /\ pc' = [pc EXCEPT ![n] = "crashed"]
  /\ senders' = [senders EXCEPT ![n] = [p \in Node |-> NoSender]]
  /\ outbox' = [outbox EXCEPT ![n] = [p \in Node |-> <<>>]]
  /\ rpcs' = {r \in rpcs : r.to # n}
  /\ reqCh' = [reqCh EXCEPT ![n] = <<>>]
  /\ waiters' = [waiters EXCEPT ![n] = {}]
  /\ calls' = [c \in Call |-> IF ServedBy[c] = n THEN "returned" ELSE calls[c]]

\* One turn of Step's loop: the message goes into recvCh or is dropped, and a send on
\* the closed channel is a panic.  After the last one the handler returns.
HandlerStep(r) ==
  LET n == r.to
      rest == Tail(r.left)
  IN /\ r.st = "running" /\ Alive(n)
     /\ IF recvOpen[n]
        THEN /\ recvCh' = [recvCh EXCEPT ![n] =
                             IF Len(@) < RecvQueue THEN Append(@, Head(r.left)) ELSE @]
             /\ rpcs' = (rpcs \ {r}) \cup {[r EXCEPT !.left = rest,
                                               !.st = IF rest = <<>> THEN "done" ELSE "running"]}
             /\ UNCHANGED <<pc, senders, outbox, panicked, callVars>>
        ELSE /\ Crash(n)
             /\ panicked' = panicked \cup {r.batch}
             /\ UNCHANGED <<recvCh, resp>>
     /\ UNCHANGED <<sent, recvOpen, got, givenUp, leftBehind>>

-----------------------------------------------------------------------------
(* The drive loop's inputs, and submit.                                        *)

Recv(n) ==
  /\ Driving(n)
  /\ recvCh[n] # <<>>
  /\ got' = [got EXCEPT ![n] = Append(@, Head(recvCh[n]))]
  /\ recvCh' = [recvCh EXCEPT ![n] = Tail(@)]
  /\ UNCHANGED <<pc, sent, senders, outbox, rpcs, recvOpen, givenUp, leftBehind, panicked, callVars>>

\* A client's RPC reaches the process,
Submit(c) ==
  /\ pc[ServedBy[c]] \in {"drive", "stopClients"}
  /\ calls[c] = "none"
  /\ calls' = [calls EXCEPT ![c] = "submitting"]
  /\ UNCHANGED <<pc, peerVars, reqCh, waiters, resp>>

\* waits for room in reqCh,
Enqueue(c) ==
  /\ calls[c] = "submitting"
  /\ Len(reqCh[ServedBy[c]]) < RequestQueue
  /\ reqCh' = [reqCh EXCEPT ![ServedBy[c]] = Append(@, c)]
  /\ calls' = [calls EXCEPT ![c] = "waiting"]
  /\ UNCHANGED <<pc, peerVars, waiters, resp>>

\* and ends with an answer,
Answered(c) ==
  /\ calls[c] = "waiting" /\ resp[c] > 0
  /\ resp' = [resp EXCEPT ![c] = @ - 1]
  /\ calls' = [calls EXCEPT ![c] = "returned"]
  /\ UNCHANGED <<pc, peerVars, reqCh, waiters>>

\* Mutant: the wait for room has no end.
CtxDoneWaiting(c) ==
  /\ calls[c] = "waiting"
  /\ calls' = [calls EXCEPT ![c] = "returned"]
  /\ UNCHANGED <<pc, peerVars, reqCh, waiters, resp>>

\* with the deadline every client sets, or because the connection was closed.
CtxDone(c) ==
  /\ calls[c] \in {"submitting", "waiting"}
  /\ calls' = [calls EXCEPT ![c] = "returned"]
  /\ UNCHANGED <<pc, peerVars, reqCh, waiters, resp>>

\* resp has room for one answer: a second one would block the drive loop for ever.
Answer(n, cs) ==
  /\ resp' = [c \in Call |-> IF c \in cs THEN resp[c] + 1 ELSE resp[c]]
  /\ pc' = [pc EXCEPT ![n] = IF \E c \in cs : resp[c] > 0 THEN "blocked" ELSE @]

\* handleRequest: answered at once, or registered.
HandleRequest(n) ==
  LET c == Head(reqCh[n])
  IN /\ Driving(n)
     /\ reqCh[n] # <<>>
     /\ reqCh' = [reqCh EXCEPT ![n] = Tail(@)]
     /\ \/ Answer(n, {c}) /\ UNCHANGED waiters
        \/ waiters' = [waiters EXCEPT ![n] = @ \cup {c}] /\ UNCHANGED <<pc, resp>>
     /\ UNCHANGED <<peerVars, calls>>

\* applyEntry and serveRead: one waiter is answered, and removed.
Complete(n) ==
  /\ Driving(n)
  /\ \E c \in waiters[n] :
       /\ Answer(n, {c})
       /\ waiters' = [waiters EXCEPT ![n] = @ \ {c}]
  /\ UNCHANGED <<peerVars, reqCh, calls>>

\* Mutant: the waiters stay registered.
CheckLeadershipKeeps(n) ==
  /\ Driving(n)
  /\ waiters[n] # {}
  /\ Answer(n, waiters[n])
  /\ UNCHANGED <<peerVars, reqCh, calls, waiters>>

\* checkLeadership: all of them are.
CheckLeadership(n) ==
  /\ Driving(n)
  /\ waiters[n] # {}
  /\ Answer(n, waiters[n])
  /\ waiters' = [waiters EXCEPT ![n] = {}]
  /\ UNCHANGED <<peerVars, reqCh, calls>>

-----------------------------------------------------------------------------
(* The process stops: Run, shutdown and Close, step by step.                   *)

Goes(n, from, to) == pc[n] = from /\ pc' = [pc EXCEPT ![n] = to]

\* The context is cancelled, or a drain has failed.
LoopReturns(n) ==
  /\ n \in Stopping
  /\ Goes(n, "drive", "stopClients")
  /\ UNCHANGED <<peerVars, callVars>>

\* clientSrv.Stop closes the clients' connections, which ends their contexts.
StopClients(n) ==
  /\ Goes(n, "stopClients", "close")
  /\ UNCHANGED <<peerVars, callVars>>

\* Close: closed is set and the senders are taken out, under the lock.
MarkClosed(n) ==
  /\ Goes(n, "close", "signal")
  /\ UNCHANGED <<peerVars, callVars>>

\* Mutant: recvCh is closed before the server stops.
CloseDonesAndRecv(n) ==
  /\ Goes(n, "signal", "stopServer")
  /\ senders' = [senders EXCEPT ![n] = [p \in Node |-> [@[p] EXCEPT !.done = TRUE]]]
  /\ recvOpen' = [recvOpen EXCEPT ![n] = FALSE]
  /\ UNCHANGED <<sent, outbox, rpcs, recvCh, got, givenUp, leftBehind, panicked, callVars>>

\* Mutant: the senders were forgotten before they were told.
CloseDonesNone(n) ==
  /\ Goes(n, "signal", "stopServer")
  /\ UNCHANGED <<peerVars, callVars>>

CloseDones(n) ==
  /\ Goes(n, "signal", "stopServer")
  /\ senders' = [senders EXCEPT ![n] = [p \in Node |-> [@[p] EXCEPT !.done = TRUE]]]
  /\ UNCHANGED <<sent, outbox, rpcs, recvCh, recvOpen, got, givenUp, leftBehind, panicked, callVars>>

\* srv.Stop (external): no handler starts any more; those that run may be left running.
StopServer(n) ==
  LET running == {r \in rpcs : r.to = n /\ r.st = "running"}
  IN /\ Goes(n, "stopServer", "closeRecv")
     /\ leftBehind' = leftBehind \cup {r.batch : r \in running}
     /\ UNCHANGED <<sent, senders, outbox, rpcs, recvCh, recvOpen, got, givenUp, panicked, callVars>>

\* Then the storage is closed and Run returns.
CloseRecv(n) ==
  /\ Goes(n, "closeRecv", "stopped")
  /\ recvOpen' = [recvOpen EXCEPT ![n] = FALSE]
  /\ UNCHANGED <<sent, senders, outbox, rpcs, recvCh, got, givenUp, leftBehind, panicked, callVars>>

-----------------------------------------------------------------------------

\* Processes that run, with nothing under way.
Quiet ==
  /\ pc = [n \in Node |-> "drive"]
  /\ outbox = [n \in Node |-> [p \in Node |-> <<>>]]
  /\ rpcs = {}
  /\ recvCh = [n \in Node |-> <<>>]
  /\ recvOpen = [n \in Node |-> TRUE]
  /\ got = [n \in Node |-> <<>>]
  /\ givenUp = {} /\ leftBehind = {} /\ panicked = {}
  /\ reqCh = [n \in Node |-> <<>>]
  /\ waiters = [n \in Node |-> {}]
  /\ resp = [c \in Call |-> 0]

Init ==
  /\ Quiet
  /\ sent = [n \in Node |-> 0]
  /\ senders = [n \in Node |-> [p \in Node |-> NoSender]]
  /\ calls = [c \in Call |-> "none"]

\* The goroutines.
Sender(n, p) == Take(n, p) \/ CallReturns(n, p) \/ SenderExits(n, p)
Loop(n) == Recv(n) \/ HandleRequest(n)
Shutdown(n) == StopClients(n) \/ MarkClosed(n) \/ CloseDones(n) \/ StopServer(n) \/ CloseRecv(n)
Client(c) == Enqueue(c) \/ Answered(c) \/ CtxDone(c)

Next ==
  \/ \E n, p \in Node : Take(n, p) \/ CallReturns(n, p) \/ SenderExits(n, p)
  \/ \E r \in rpcs : StartHandler(r) \/ LoseRPC(r) \/ HandlerStep(r)
  \/ \E n \in Node : \/ Send(n) \/ Recv(n)
                     \/ HandleRequest(n) \/ Complete(n) \/ CheckLeadership(n)
                     \/ LoopReturns(n)
                     \/ StopClients(n) \/ MarkClosed(n) \/ CloseDones(n)
                     \/ StopServer(n) \/ CloseRecv(n)
  \/ \E c \in Call : Submit(c) \/ Enqueue(c) \/ Answered(c) \/ CtxDone(c)

\* Every goroutine that can go on does.
Fairness ==
  /\ \A n, p \in Node : WF_vars(Sender(n, p))
  /\ \A n \in Node : WF_vars(Loop(n)) /\ WF_vars(Shutdown(n))
  /\ \A c \in Call : WF_vars(Client(c))

Spec == Init /\ [][Next]_vars /\ Fairness

-----------------------------------------------------------------------------
(* Properties.                                                                *)

\* The transport loses and delays messages but hands none to a drive loop twice: a
\* failed RPC is not repeated, although its handler may have run (peerSender.run).
AtMostOnce ==
  \A n \in Node : \A i, j \in DOMAIN got[n] : got[n][i] = got[n][j] => i = j

\* m was handed to Send before l, by the same process.
SentBefore(m, l) ==
  m.from = l.from /\ (m.batch < l.batch \/ (m.batch = l.batch /\ m.pos < l.pos))

\* Messages of one peer overtake each other only when the RPC of the slower one was
\* given up while its handler was alive.
OvertakenWasGivenUp ==
  \A n \in Node : \A i, j \in DOMAIN got[n] :
    i < j /\ SentBefore(got[n][j], got[n][i]) =>
      \E b \in givenUp : got[n][j] \in ToSet(b)

\* Close stops the server before it closes recvCh, so that only a handler the
\* library's Stop leaves running can meet the closed channel.
ClosedAfterHandlers == panicked \subseteq leftBehind

\* No answer of the drive loop blocks it: a call gets one answer at most, into a
\* channel with room for one, whether or not its caller is still there.
LoopNeverBlocks == \A n \in Node : pc[n] # "blocked"

\* A process that begins to stop, stops, and all its senders end (Close, run), unless
\* a handler that was left behind takes it down.
Stops ==
  \A n \in Node :
    pc[n] = "stopClients" ~> \/ pc[n] = "stopped" /\ \A p \in Node : senders[n][p].st \in {"none", "exited"}
                             \/ pc[n] = "crashed"

\* Every client call ends, also when the drive loop is gone or reqCh stays full.
CallsReturn == \A c \in Call : calls[c] = "submitting" ~> calls[c] = "returned"

\* An unreachable peer does not hold up its backlog for good: a full queue has room
\* again, as long as the process runs.
BacklogMoves ==
  \A n, p \in Node : Len(outbox[n][p]) = OutboundQueue
                       ~> Len(outbox[n][p]) < OutboundQueue \/ pc[n] # "drive"

=============================================================================
