------------------------------- MODULE KeySet -------------------------------
(***************************************************************************)
(* What a set promises of each call: adding, deleting, and the union,      *)
(* intersection and difference with another set. A module that implements  *)
(* a set takes these steps next to its own, with the same arguments, and   *)
(* says that what it holds is members.                                     *)
(***************************************************************************)
CONSTANTS Data, OtherSets

VARIABLE members

Init == members = {}

Add(x) == members' = members \cup {x}

Delete(x) == members' = members \ {x}

Union(other) == members' = members \cup other

Intersect(other) == members' = members \cap other

Minus(other) == members' = members \ other

Clear == members' = {}

Next == \/ \E x \in Data : Add(x) \/ Delete(x)
        \/ \E other \in OtherSets : Union(other) \/ Intersect(other) \/ Minus(other)
        \/ Clear

Spec == Init /\ [][Next]_members
=============================================================================
