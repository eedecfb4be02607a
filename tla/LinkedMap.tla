----------------------------- MODULE LinkedMap -----------------------------
(***************************************************************************)
(* What a dictionary promises: at most one entry of a key, and an order in *)
(* which it is iterated, that of the first set of each key until an entry  *)
(* is moved to an end (from which an LRU cache is made).                   *)
(***************************************************************************)
EXTENDS Integers, Sequences, SequencesExt

CONSTANTS Key, Val

VARIABLE entries   \* sequence of [key, value]

With(es, k, v) ==
  IF \E i \in DOMAIN es : es[i].key = k
  THEN [i \in DOMAIN es |-> IF es[i].key = k THEN [es[i] EXCEPT !.value = v] ELSE es[i]]
  ELSE Append(es, [key |-> k, value |-> v])

Init == entries = <<>>

Next ==
  LET es == entries
  IN  entries' \in {With(es, k, v) : k \in Key, v \in Val}                      \* set
             \cup {RemoveAt(es, i) : i \in DOMAIN es}                         \* delete
             \cup {<<es[i]>> \o RemoveAt(es, i) : i \in DOMAIN es}            \* to the head
             \cup {Append(RemoveAt(es, i), es[i]) : i \in DOMAIN es}          \* to the tail
             \cup {<<>>}                                                     \* clear

Spec == Init /\ [][Next]_entries
=============================================================================
