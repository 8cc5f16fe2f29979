---------------------------- MODULE MCTransport -----------------------------
(* Two processes: a sends to b, which serves the clients.  Both may stop.        *)
EXTENDS Transport

CONSTANTS a, b, c1, c2

ToB == [c \in Call |-> b]
FromA == [n \in Node |-> IF n = a THEN <<1, 2>> ELSE <<>>]

\* The peers' messages, after all client calls have ended at their deadline;
PeersInit ==
  /\ Quiet
  /\ sent = [n \in Node |-> 0]
  /\ senders = [n \in Node |-> [p \in Node |-> NoSender]]
  /\ calls = [c \in Call |-> "returned"]

\* and the client calls, after every batch was dropped by a failed dial.
ClientsInit ==
  /\ Quiet
  /\ sent = [n \in Node |-> Len(Batches[n])]
  /\ senders = [n \in Node |-> [p \in Node |->
                   IF Batches[n] # <<>> /\ p # n THEN Idle ELSE NoSender]]
  /\ calls = [c \in Call |-> "none"]

ApartSpec == (PeersInit \/ ClientsInit) /\ [][Next]_vars /\ Fairness

=============================================================================
