-------------------------------- MODULE Fifo --------------------------------
(***************************************************************************)
(* What a queue of items promises: every item that is written is read      *)
(* once, in the order of the writes, and nothing else is ever read. There  *)
(* is no storage, no head and no tail, and it is never full.               *)
(*                                                                         *)
(* Ring implements this specification (Ring!KeepsOrder).                   *)
(***************************************************************************)
EXTENDS Integers, Sequences

CONSTANTS Item,
          MaxData      \* bound: items of one write

VARIABLES queue,    \* the items that are written and not read
          got       \* what the last read or look returned

Init == queue = <<>> /\ got = <<>>

Write(data) == /\ queue' = queue \o data
               /\ UNCHANGED got

\* Takes the first n items.
Read(n) == /\ got' = SubSeq(queue, 1, n)
           /\ queue' = SubSeq(queue, n + 1, Len(queue))

\* Looks at the k-th item.
Peek(k) == /\ got' = <<queue[k]>>
           /\ UNCHANGED queue

Next == \/ \E n \in 1 .. MaxData : \E data \in [1 .. n -> Item] : Write(data)
        \/ \E n \in 0 .. Len(queue) : Read(n)
        \/ \E k \in 1 .. Len(queue) : Peek(k)

Spec == Init /\ [][Next]_<<queue, got>>
=============================================================================
