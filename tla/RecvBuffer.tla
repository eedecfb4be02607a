----------------------------- MODULE RecvBuffer -----------------------------
(***************************************************************************)
(* The receive buffer of a socket, from src/co_ioservice.c: allocated when *)
(* there is something to read, and meant to double when a read fills it.   *)
(* The FD and UDP services have the same lines for theirs.                 *)
(*                                                                         *)
(* recvsize is a uint16_t, and so is the limit: 65536 converted to one.    *)
(***************************************************************************)
EXTENDS Integers

CONSTANTS INIT_READ_BUF,
          Pieces,        \* sizes of what the peer sends at a time
          MaxPending     \* bound: bytes sent and not read

VARIABLES recvsize,
          recvbuf,    \* "NULL", a buffer of recvsize bytes, or one that realloc(p, 0) made
          pending,    \* kernel: bytes that can be read
          shut,       \* kernel: the peer closed the connection
          state

vars == <<recvsize, recvbuf, pending, shut, state>>

-----------------------------------------------------------------------------
uint16_t(n) == n % 2 ^ 16

MAX_READ_BUF == uint16_t(65536)

CO_MIN(m, n) == IF m > n THEN n ELSE m

Init == /\ recvsize = 0
        /\ recvbuf = "NULL"
        /\ pending = 0
        /\ shut = FALSE
        /\ state = "connected"

peer_sends(n) == /\ ~shut /\ pending + n <= MaxPending
                 /\ pending' = pending + n
                 /\ UNCHANGED <<recvsize, recvbuf, shut, state>>

peer_closes == /\ ~shut /\ shut' = TRUE
               /\ UNCHANGED <<recvsize, recvbuf, pending, state>>

\* The size the socket reads with.
ReadSize == IF recvbuf = "NULL" THEN INIT_READ_BUF ELSE recvsize

\* What realloc may return for a size: glibc frees the buffer when it is 0, other systems
\* return a buffer of no bytes.
Reallocated(size) == IF size > 0 THEN {"buffer"} ELSE {"NULL", "empty"}

\* A read returns what there is, up to the size asked for. The buffer grows when it was
\* filled, unless fn_recv closed the socket.
_cotcp_handle_read ==
  LET n == CO_MIN(ReadSize, pending)
      size == uint16_t(CO_MIN(MAX_READ_BUF, ReadSize * 2))
  IN  /\ state = "connected"
      /\ pending > 0 \/ shut
      /\ pending' = pending - n
      /\ UNCHANGED shut
      /\ IF n = 0      \* taken for the end of the stream
         THEN state' = "closed" /\ recvbuf' = "NULL" /\ UNCHANGED recvsize
         ELSE \/ state' = "closed" /\ recvbuf' = "NULL" /\ UNCHANGED recvsize
              \/ /\ UNCHANGED state
                 /\ IF n = ReadSize
                    THEN recvsize' = size /\ recvbuf' \in Reallocated(size)
                    ELSE recvsize' = ReadSize
                         /\ recvbuf' = IF recvbuf = "NULL" THEN "buffer" ELSE recvbuf

Next == \/ \E n \in Pieces : peer_sends(n)
        \/ peer_closes
        \/ _cotcp_handle_read

Spec == Init /\ [][Next]_vars

-----------------------------------------------------------------------------
\* A read that returns nothing means that the peer closed the connection, as the comment
\* on _cotcp_handle_read's branch for it says (co_ioservice.c:316, "socket closed").
ZeroMeansClosed == [][_cotcp_handle_read /\ pending' = pending => shut]_vars
=============================================================================
