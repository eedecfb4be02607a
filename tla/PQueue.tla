------------------------------- MODULE PQueue -------------------------------
(***************************************************************************)
(* The priority queue of src/co_pqueue.c: a heap in a vector, the greatest *)
(* entry in front. Pushing lets the new entry rise from the end, popping   *)
(* moves the last entry to the front and lets it sink. A turn of either    *)
(* loop compares one entry with its neighbours and is one step here.       *)
(*                                                                         *)
(* Entries have an identity, so that equal data pushed twice is two        *)
(* entries of the same priority.                                           *)
(***************************************************************************)
EXTENDS Integers, Sequences

CONSTANTS Entry,
          Prio,         \* fn_comp(x, y) is the sign of Prio[x] - Prio[y]
          MaxEntries    \* bound: entries in the queue

ASSUME PQueueAssumption == Prio \in [Entry -> Int] /\ MaxEntries \in Nat

VARIABLES pqvec,     \* the items of pq->vec, from 0 on
          pqsize,    \* covec_size(pq->vec)
          pqat,      \* child of _heap_up_tail, parent of _heap_down_head
          pqpc,      \* "idle", or the loop the thread is in: "up" or "down"
          pqgot      \* what the last copqueue_pop returned

pqvars == <<pqvec, pqsize, pqat, pqpc, pqgot>>

-----------------------------------------------------------------------------
\* Faulty variant: the indexes of a vector that starts at 1.
HEAP_PARENT_FromOne(child) == child \div 2

HEAP_PARENT(child) == (child - 1) \div 2

HEAP_LCHILD(parent) == parent * 2 + 1
HEAP_RCHILD(parent) == parent * 2 + 2

\* covec_swap
Swap(i, j) == [pqvec EXCEPT ![i] = pqvec[j], ![j] = pqvec[i]]

\* Faulty variant: the left child, whichever is greater.
GreaterChild_Left(parent) == HEAP_LCHILD(parent)

\* The child that a sinking entry is compared with.
GreaterChild(parent) ==
  IF /\ HEAP_RCHILD(parent) < pqsize
     /\ Prio[pqvec[HEAP_LCHILD(parent)]] < Prio[pqvec[HEAP_RCHILD(parent)]]
  THEN HEAP_RCHILD(parent) ELSE HEAP_LCHILD(parent)

PQInit == /\ pqvec = [i \in {} |-> i]
          /\ pqsize = 0
          /\ pqat = 0
          /\ pqpc = "idle"
          /\ pqgot = <<>>

copqueue_push(x) ==
  /\ pqpc = "idle"
  /\ pqsize < MaxEntries
  /\ \A i \in 0 .. pqsize - 1 : pqvec[i] # x
  /\ pqvec' = [i \in 0 .. pqsize |-> IF i = pqsize THEN x ELSE pqvec[i]]
  /\ pqsize' = pqsize + 1
  /\ pqat' = pqsize
  /\ pqpc' = "up"
  /\ UNCHANGED pqgot

\* The first and the last are swapped and the last is deleted.
copqueue_pop ==
  /\ pqpc = "idle"
  /\ pqsize > 0
  /\ pqgot' = <<pqvec[0]>>
  /\ pqvec' = [i \in 0 .. pqsize - 2 |-> IF i = 0 THEN pqvec[pqsize - 1] ELSE pqvec[i]]
  /\ pqsize' = pqsize - 1
  /\ pqat' = 0
  /\ pqpc' = "down"

Settle == /\ pqpc' = "idle"
          /\ pqat' = 0
          /\ UNCHANGED <<pqvec, pqsize, pqgot>>

MoveTo(i) == /\ pqvec' = Swap(pqat, i)
             /\ pqat' = i
             /\ UNCHANGED <<pqsize, pqpc, pqgot>>

Rises == pqat > 0 /\ Prio[pqvec[HEAP_PARENT(pqat)]] < Prio[pqvec[pqat]]

Sinks == /\ HEAP_LCHILD(pqat) < pqsize
         /\ Prio[pqvec[pqat]] < Prio[pqvec[GreaterChild(pqat)]]

_heap_up_tail == /\ pqpc = "up"
                 /\ IF Rises THEN MoveTo(HEAP_PARENT(pqat)) ELSE Settle

_heap_down_head == /\ pqpc = "down"
                   /\ IF Sinks THEN MoveTo(GreaterChild(pqat)) ELSE Settle

PQNext == \/ \E x \in Entry : copqueue_push(x)
          \/ copqueue_pop
          \/ _heap_up_tail
          \/ _heap_down_head

PQSpec == PQInit /\ [][PQNext]_pqvars

-----------------------------------------------------------------------------
\* Entries pqvec[i] and its parent are in order.
InOrder(i) == Prio[pqvec[i]] <= Prio[pqvec[HEAP_PARENT(i)]]

\* What is below the entry on its way is in order with what is above that entry.
AroundInOrder ==
  \A i \in 1 .. pqsize - 1 :
    HEAP_PARENT(i) = pqat /\ pqat > 0
      => Prio[pqvec[i]] <= Prio[pqvec[HEAP_PARENT(pqat)]]

\* The vector is a heap but for the one entry that rises or sinks, between any two
\* comparisons: the loops of copqueue_push and copqueue_pop may stop where they do.
HeapOrdered ==
  /\ \A i \in 1 .. pqsize - 1 :
       \/ InOrder(i)
       \/ pqpc = "up" /\ i = pqat
       \/ pqpc = "down" /\ HEAP_PARENT(i) = pqat
  /\ pqpc # "idle" => AroundInOrder

\* Refinement: copqueue_pop returns an entry as great as any that was pushed and not
\* yet popped, and none is lost or returned twice.
PS == INSTANCE PrioritySet WITH entries <- {pqvec[i] : i \in 0 .. pqsize - 1}, taken <- pqgot

PopsGreatest == PS!Spec
=============================================================================
