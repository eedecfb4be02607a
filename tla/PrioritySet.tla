---------------------------- MODULE PrioritySet ----------------------------
(***************************************************************************)
(* What a priority queue promises: it holds the entries that were put and  *)
(* not yet taken, and the one that is taken is as great as any other.      *)
(***************************************************************************)
EXTENDS Integers, Sequences

CONSTANTS Entry, Prio

VARIABLES entries,   \* the entries in the queue
          taken      \* what the last take returned

Init == entries = {} /\ taken = <<>>

Put(x) == /\ x \in Entry \ entries
          /\ entries' = entries \cup {x}
          /\ UNCHANGED taken

Take(x) == /\ x \in entries
           /\ \A y \in entries : Prio[y] <= Prio[x]
           /\ entries' = entries \ {x}
           /\ taken' = <<x>>

Next == \E x \in Entry : Put(x) \/ Take(x)

Spec == Init /\ [][Next]_<<entries, taken>>
=============================================================================
