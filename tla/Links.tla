-------------------------------- MODULE Links -------------------------------
(***************************************************************************)
(* Nodes that are linked by pointers, as in the list of src/co_list.c and  *)
(* in the chains and the list of the dictionary of src/co_dict.c.          *)
(***************************************************************************)
EXTENDS Integers, FiniteSets

CONSTANT MaxNodes    \* bound: nodes at a time

ASSUME LinksAssumption == MaxNodes \in Nat

NULL == 0
Node == 1 .. MaxNodes   \* their addresses

\* The nodes from start on, as the links have them, until one links to none.
Followed(start, link) ==
  LET node[i \in 1 .. MaxNodes + 1] ==
        IF i = 1 THEN start
        ELSE LET prev == node[i - 1] IN IF prev = NULL THEN NULL ELSE link[prev]
  IN  [i \in 1 .. Cardinality({j \in 1 .. MaxNodes + 1 : node[j] # NULL}) |-> node[i]]
=============================================================================
