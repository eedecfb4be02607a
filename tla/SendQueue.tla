----------------------------- MODULE SendQueue -----------------------------
(***************************************************************************)
(* What a UDP socket promises of the datagrams it accepts: each is handed  *)
(* to the kernel once, in the order of the calls of coudp_send, unless the *)
(* socket is closed first. There is no linked list and no socket state.    *)
(*                                                                         *)
(* IoService implements this specification (IoService!InOrder).            *)
(***************************************************************************)
EXTENDS Sequences

CONSTANTS Socket, Datagram

VARIABLE queue     \* the datagrams each socket has accepted and not sent

Elements(q) == {q[k] : k \in DOMAIN q}

Init == queue = [s \in Socket |-> <<>>]

\* A datagram that waits nowhere else.
Accept(s, d) == /\ \A t \in Socket : d \notin Elements(queue[t])
                /\ queue' = [queue EXCEPT ![s] = Append(@, d)]

Transmit(s) == /\ queue[s] # <<>>
               /\ queue' = [queue EXCEPT ![s] = Tail(@)]

\* The socket is closed.
Discard(s) == queue' = [queue EXCEPT ![s] = <<>>]

Next == \E s \in Socket : \/ \E d \in Datagram : Accept(s, d)
                          \/ Transmit(s)
                          \/ Discard(s)

Spec == Init /\ [][Next]_queue
=============================================================================
