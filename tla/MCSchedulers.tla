---------------------------- MODULE MCSchedulers ----------------------------
(* What is scheduled by itself: coroutines and the timing wheel. They have *)
(* nothing in common here, so that a behavior is of one of them and the    *)
(* instances add up.                                                       *)
(*                                                                         *)
(* A table that starts with two slots and may double once, so that slots   *)
(* are reused and the table grows under every nesting of three coroutines. *)
(* Four upper wheels as in the code, each with the smallest size, so that  *)
(* a 5-bit tick counter wraps around and a tick cascades up to all of the  *)
(* wheels.                                                                 *)
EXTENDS CoRoutine, TimingWheel, TLC

CONSTANTS n1, n2

VARIABLE chosen     \* which of the two this behavior is of

Symmetry == Permutations(Node)

MCInit == chosen \in {"coroutines", "wheel"} /\ Init /\ TWInit

MCNext == /\ \/ chosen = "coroutines" /\ Next /\ UNCHANGED twvars
             \/ chosen = "wheel" /\ TWNext /\ UNCHANGED vars
          /\ UNCHANGED chosen

MCSpec == MCInit /\ [][MCNext]_<<vars, twvars, chosen>>
=============================================================================
