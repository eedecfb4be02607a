---------------------------- MODULE MCContainers ----------------------------
(* The containers have nothing in common but that each of them is used by  *)
(* one thread: a behavior picks one and goes on with it alone, so that the *)
(* instances add up and are not multiplied.                                *)
(*                                                                         *)
(* Rings start with one to three bytes and a queue with two items, each of *)
(* which can wrap around, grow while it is wrapped, and wrap around again. *)
(* Seven entries of four priorities reach a third level of the heap on     *)
(* both sides. The table grows from one bucket to three, three of the four *)
(* keys share one of them, and is from then on only rebuilt. Eight nodes   *)
(* are enough for every case of both fix-ups, repeated one level up. Words *)
(* are prefixes and parts of each other, longer and shorter than what a    *)
(* text has of them, and not all of them are well-formed; a line of a file *)
(* fills the buffer, is cut twice, or is the last and of a single byte;    *)
(* and a text is filtered with a character that words have, too. A vector  *)
(* of four items is enlarged twice, a list of four has nodes that are      *)
(* neither end.                                                            *)
EXTENDS Ring, PQueue, Dict, RbSet, WordFilter, VecList, TLC

CONSTANTS item1, item2, junk

MCEntry == 0 .. 6
MCPrio == [x \in MCEntry |-> x \div 2]

MCKey == 1 .. 4
MCHash == <<1, 4, 2, 7>>
MCBucketSizes == <<1, 3>>

MCDataSet == 1 .. 8
MCOtherSets == {{}, {2, 5}, {1, 3, 4}}

MCWidth == (0 :> 1) @@ (1 :> 1) @@ (2 :> 3) @@ (3 :> 1) @@ (4 :> 2) @@ (5 :> 1)
MCWords == {<<2>>, <<2, 1>>, <<1, 2, 3>>, <<3, 1>>, <<4>>, <<1, 0, 3>>, <<0>>, <<>>}
MCFiles == {[lines |-> <<<<4, 2>>, <<>>, <<3, 1>>>>, newline |-> FALSE],
            [lines |-> <<<<1>>>>, newline |-> TRUE],
            [lines |-> <<<<3, 4, 2, 1>>>>, newline |-> FALSE],
            [lines |-> <<<<2, 1>>, <<3>>>>, newline |-> FALSE]}
MCTexts == UNION {[1 .. n -> 0 .. 3] : n \in 0 .. 3}
             \cup {<<3, 1, 2, 3>>, <<4, 2, 1, 4>>, <<1, 1, 2, 1, 2, 3>>, <<1, 2, 0, 2>>, <<5, 2, 1, 5>>}

VARIABLE chosen     \* the container of this behavior

allvars == <<vars, pqvars, dvars, setvars, wfvars, vlvars, chosen>>

MCInit == /\ chosen \in {"ring", "pqueue", "dict", "set", "filter", "veclist"}
          /\ Init /\ (chosen = "ring" \/ kind = "queue")
          /\ PQInit /\ DictInit /\ SetInit /\ WFInit
          /\ VLInit /\ (chosen = "veclist" \/ form = "vec")

\* The container that a behavior is of.
Only(name) == chosen = name /\ UNCHANGED chosen

RingNext == Only("ring") /\ Next /\ UNCHANGED <<pqvars, dvars, setvars, wfvars, vlvars>>

HeapNext == Only("pqueue") /\ PQNext /\ UNCHANGED <<vars, dvars, setvars, wfvars, vlvars>>

TableNext == Only("dict") /\ DictNext /\ UNCHANGED <<vars, pqvars, setvars, wfvars, vlvars>>

TreeNext == Only("set") /\ SetNext /\ UNCHANGED <<vars, pqvars, dvars, wfvars, vlvars>>

FilterNext == Only("filter") /\ WFNext /\ UNCHANGED <<vars, pqvars, dvars, setvars, vlvars>>

SeqNext == Only("veclist") /\ VLNext /\ UNCHANGED <<vars, pqvars, dvars, setvars, wfvars>>

MCNext == RingNext \/ HeapNext \/ TableNext \/ TreeNext \/ FilterNext \/ SeqNext

MCSpec == MCInit /\ [][MCNext]_allvars
=============================================================================
