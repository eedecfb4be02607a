----------------------------- MODULE CallStack -----------------------------
(***************************************************************************)
(* What a coroutine scheduler promises its user, with no status field, no  *)
(* slot table and no resume link: coroutines nest like procedure calls.    *)
(*                                                                         *)
(*   stack   the coroutines whose cort_resume has not returned yet, the    *)
(*           main coroutine first and the one that executes last; empty    *)
(*           while there is no scheduler                                   *)
(*   parked  the coroutines that wait for a cort_resume                    *)
(*                                                                         *)
(* CoRoutine implements this specification (CoRoutine!Nesting).            *)
(***************************************************************************)
EXTENDS Integers, Sequences

CONSTANTS Ids,    \* coroutine ids
          Main    \* the id of the main coroutine

VARIABLES stack, parked

csvars == <<stack, parked>>

OnStack == {stack[k] : k \in DOMAIN stack}

Top == stack[Len(stack)]

Below == [k \in 1 .. Len(stack) - 1 |-> stack[k]]

Init == stack = <<>> /\ parked = {}

Open == /\ stack = <<>>
        /\ stack' = <<Main>>
        /\ parked' = {}

\* A new coroutine gets an id nobody else holds, and does not start by itself.
Spawn(id) == /\ stack # <<>>
             /\ id \notin OnStack \cup parked
             /\ parked' = parked \cup {id}
             /\ UNCHANGED stack

\* Only a parked coroutine can be resumed; its resumer waits right below it.
Resume(id) == /\ id \in parked
              /\ stack' = Append(stack, id)
              /\ parked' = parked \ {id}

\* Control goes back to the coroutine below, which is the one that resumed.
Yield == /\ Len(stack) > 1
         /\ stack' = Below
         /\ parked' = parked \cup {Top}

Finish == /\ Len(stack) > 1
          /\ stack' = Below
          /\ UNCHANGED parked

\* The scheduler is closed by the main coroutine, with every other one parked.
Close == /\ Len(stack) = 1
         /\ stack' = <<>>
         /\ parked' = {}

Next == \/ Open
        \/ Yield
        \/ Finish
        \/ Close
        \/ \E id \in Ids : Spawn(id) \/ Resume(id)

Spec == Init /\ [][Next]_csvars
=============================================================================
