-------------------------------- MODULE Ring --------------------------------
(***************************************************************************)
(* The two circular queues of the library, which grow when they are about  *)
(* to be full: the ring buffer of src/co_buffer.c, in which the sockets    *)
(* keep the bytes they have not sent, and the queue of src/co_queue.c.     *)
(* They differ in what they are asked to do and in when they grow; the     *)
(* storage, the two ends and the growth of a queue that wraps around are   *)
(* the same.                                                               *)
(*                                                                         *)
(* Queues_proof proves the invariant and the refinement for every size.    *)
(***************************************************************************)
EXTENDS Integers, Sequences

CONSTANTS Item,        \* bytes, or items of a queue
          Junk,        \* what uninitialised memory holds
          INIT_SIZE,   \* the first size of a queue
          RingSize,    \* the sizes the user makes ring buffers of
          MaxSize,     \* bound: storage
          MaxData      \* bound: items of one write

ASSUME RingAssumption ==
  /\ Junk \notin Item
  /\ INIT_SIZE \in Nat \ {0}
  /\ RingSize \subseteq Nat \ {0}
  /\ MaxSize \in Nat /\ MaxData \in Nat \ {0}

VARIABLES kind,     \* "ringbuf" or "queue"
          size,     \* rb->size, queue->vec->size
          head,
          tail,
          buffer,   \* the storage, from 0 on
          got       \* what the last call returned through its pointer

vars == <<kind, size, head, tail, buffer, got>>

-----------------------------------------------------------------------------
\* coringbuf_readable_size and coqueue_size.
Readable == IF tail >= head THEN tail - head ELSE size - (head - tail)

\* The items that can be read at once from the head on.
ReadOnce == IF tail >= head THEN tail - head ELSE size - head

Least(m, n) == IF m <= n THEN m ELSE n
Greatest(m, n) == IF m >= n THEN m ELSE n

\* Faulty variant: a buffer that the write fills to the last byte does not grow.
NewSize_Exact(n) ==
  IF kind = "ringbuf"
  THEN IF size - Readable < n THEN Greatest(size * 2, Readable + n + 1) ELSE size
  ELSE IF Readable + 1 >= size THEN size * 2 ELSE size

\* The storage a write of n items needs.
NewSize(n) ==
  IF kind = "ringbuf"
  THEN IF size - Readable <= n THEN Greatest(size * 2, Readable + n + 1) ELSE size
  ELSE IF Readable + 1 >= size THEN size * 2 ELSE size

\* What wraps around is moved to the new end of the storage, and the head with it.
NewHead(n) == IF tail < head THEN NewSize(n) - (size - head) ELSE head

\* Faulty variant: the head moves to the new end, the items do not.
Grown_NotMoved(n) == [i \in 0 .. NewSize(n) - 1 |-> IF i < size THEN buffer[i] ELSE Junk]

\* The storage after it was enlarged.
Grown(n) == [i \in 0 .. NewSize(n) - 1 |->
               IF tail < head /\ i >= NewHead(n) THEN buffer[i - NewHead(n) + head]
               ELSE IF i < size THEN buffer[i] ELSE Junk]

\* The storage after a write, in two parts if the data reaches the end.
Filled(data) ==
  LET n == Len(data)
      len == Least(n, NewSize(n) - tail)
  IN  [i \in 0 .. NewSize(n) - 1 |->
         IF i \in tail .. tail + len - 1 THEN data[i - tail + 1]
         ELSE IF i < n - len THEN data[len + i + 1]
         ELSE Grown(n)[i]]

Put(data) == LET n == Len(data)
             IN  /\ NewSize(n) <= MaxSize
                 /\ size' = NewSize(n)
                 /\ head' = NewHead(n)
                 /\ buffer' = Filled(data)
                 /\ tail' = (tail + n) % NewSize(n)
                 /\ UNCHANGED <<kind, got>>

-----------------------------------------------------------------------------
Init == /\ \/ kind = "ringbuf" /\ size \in RingSize
           \/ kind = "queue" /\ size = INIT_SIZE
        /\ head = 0
        /\ tail = 0
        /\ buffer = [i \in 0 .. size - 1 |-> Junk]
        /\ got = <<>>

coringbuf_write(data) == kind = "ringbuf" /\ Put(data)

coqueue_push(x) == kind = "queue" /\ Put(<<x>>)

\* The first n items, in two parts if they wrap around.
Ahead(n) == LET len == Least(n, ReadOnce)
            IN  [k \in 1 .. n |-> IF k <= len THEN buffer[head + k - 1]
                                  ELSE buffer[k - len - 1]]

Take(n) == /\ got' = Ahead(n)
           /\ head' = (head + n) % size
           /\ UNCHANGED <<kind, size, tail, buffer>>

\* A read of more than there is returns what there is.
coringbuf_read(n) == kind = "ringbuf" /\ Take(Least(n, Readable))

\* As _cotcp_handle_write uses it: some of the bytes at coringbuf_head, then consumed.
coringbuf_consume_size(n) == /\ kind = "ringbuf"
                             /\ n <= ReadOnce
                             /\ got' = [k \in 1 .. n |-> buffer[head + k - 1]]
                             /\ head' = (head + n) % size
                             /\ UNCHANGED <<kind, size, tail, buffer>>

coqueue_pop == /\ kind = "queue"
               /\ Readable # 0
               /\ got' = <<buffer[head]>>
               /\ head' = (head + 1) % size
               /\ UNCHANGED <<kind, size, tail, buffer>>

\* An index below zero counts from the end.
coqueue_peek(index) ==
  LET k == IF index < 0 THEN Readable + index ELSE index
  IN  /\ kind = "queue"
      /\ k \in 0 .. Readable - 1
      /\ got' = <<buffer[(head + k) % size]>>
      /\ UNCHANGED <<kind, size, head, tail, buffer>>

Next == \/ \E n \in 1 .. MaxData : \E data \in [1 .. n -> Item] : coringbuf_write(data)
        \/ \E x \in Item : coqueue_push(x)
        \/ \E n \in 0 .. MaxData : coringbuf_read(n) \/ coringbuf_consume_size(n)
        \/ coqueue_pop
        \/ \E index \in -MaxSize .. MaxSize : coqueue_peek(index)

Spec == Init /\ [][Next]_vars

-----------------------------------------------------------------------------
\* The cell of the k-th item, and the items from the head to the tail.
Cell(k) == IF head + k <= size THEN head + k - 1 ELSE head + k - 1 - size

Contents == [k \in 1 .. Readable |-> buffer[Cell(k)]]

\* The ends stay inside the storage, and uninitialised memory is never part of the
\* contents, nor returned to a caller, however often the storage grew and wrapped around.
RingOK ==
  /\ kind \in {"ringbuf", "queue"}
  /\ size \in Nat \ {0}
  /\ head \in 0 .. size - 1
  /\ tail \in 0 .. size - 1
  /\ buffer \in [0 .. size - 1 -> Item \cup {Junk}]
  /\ Contents \in Seq(Item)
  /\ got \in Seq(Item)

\* Refinement: what is written is read once and in order, across wrap-around and growth.
Queue == INSTANCE Fifo WITH queue <- Contents

KeepsOrder == Queue!Spec
=============================================================================
