---------------------------- MODULE TimerService ----------------------------
(***************************************************************************)
(* The timer service of src/co_timerservice.c: timers are items of a       *)
(* cofalloc (Falloc) whose node is linked in a timing wheel (TimingWheel). *)
(* A looping timer is linked again before its callback is called.          *)
(*                                                                         *)
(* The code that uses the service adds timers and deletes those whose      *)
(* handle it kept, between updates and in callbacks. A handle is passed to *)
(* cots_del_timer by its address, which clears it: the user has one copy.  *)
(***************************************************************************)
EXTENDS Integers, Sequences

CONSTANTS TVR_BITS, TVN_BITS, Wheels, Interval, Delays, Steps, MaxTime,
          Loops,         \* values of the loop parameter
          PerBlock, MaxBlocks

VARIABLES currtick, lasttime, remainder, diff, pc, expire, place,
          nblock, freeitem, flag, held,
          loop,          \* item->loop
          handles        \* the timers whose handle the user has

Item == 1 .. PerBlock * MaxBlocks

TW == INSTANCE TimingWheel WITH Node <- Item

FA == INSTANCE Falloc WITH CoversFlag <- TRUE     \* item->cb lies over the flag

twheel == <<currtick, lasttime, remainder, diff, pc, expire, place>>
ASSUME TimerAssumption ==
  /\ TW!Geometry
  /\ Interval \in Nat \ {0}
  /\ Delays \subseteq 0 .. TW!Word - 1 /\ Loops \subseteq 0 .. TW!Word - 1
  /\ Steps \subseteq Nat \ {0} /\ MaxTime \in Nat
  /\ PerBlock \in Nat \ {0}
  /\ MaxBlocks \in Nat

alloc == <<nblock, freeitem, flag, held>>
vars == <<twheel, alloc, loop, handles>>

-----------------------------------------------------------------------------
Init == /\ TW!TWInit
        /\ FA!Init
        /\ loop = [i \in Item |-> 0]
        /\ handles = {}

\* The user keeps the returned handle or, as cort_sleep does, drops it.
cots_add_timer(delay, lp) ==
  /\ FA!cofalloc_newitem
  /\ TW!cotw_add(FA!NewItem, delay)
  /\ loop' = [loop EXCEPT ![FA!NewItem] = lp]
  /\ handles' \in {handles, handles \cup {FA!NewItem}}

\* Faulty variant: the node stays in the wheel.
cots_del_timer_NoUnlink(i) ==
  /\ TW!UserCode
  /\ ~FA!cofalloc_isfree(i)
  /\ FA!cofalloc_freeitem(i)
  /\ handles' = handles \ {i}
  /\ UNCHANGED <<twheel, loop>>

\* Nothing happens to a timer whose item was released. cotw_del unlinks the node if
\* it is in a list.
cots_del_timer(i) ==
  /\ TW!UserCode
  /\ ~FA!cofalloc_isfree(i)
  /\ IF place[i] = TW!None THEN UNCHANGED twheel ELSE TW!cotw_del(i)
  /\ FA!cofalloc_freeitem(i)
  /\ handles' = handles \ {i}
  /\ UNCHANGED loop

\* Faulty variant: the tick that is being processed is counted again.
_on_timer_OneTickLate(i) ==
  /\ pc \in {"tick", "callback"}
  /\ place[i] = TW!Due
  /\ expire' = [expire EXCEPT ![i] = IF loop[i] = 0 THEN 0 ELSE TW!ExpireIn(loop[i] + 1)]
  /\ place' = [place EXCEPT ![i] = IF loop[i] = 0 THEN TW!None
                                   ELSE TW!Slot(TW!ExpireIn(loop[i] + 1), currtick)]
  /\ pc' = "callback"
  /\ UNCHANGED <<currtick, lasttime, remainder, diff, alloc, loop, handles>>

\* The next node of the tick is unlinked and _on_timer called: it links a looping timer
\* again, and calls the user's callback.
_on_timer(i) ==
  /\ pc \in {"tick", "callback"}
  /\ place[i] = TW!Due
  /\ expire' = [expire EXCEPT ![i] = IF loop[i] = 0 THEN 0 ELSE TW!ExpireIn(loop[i])]
  /\ place' = [place EXCEPT ![i] = IF loop[i] = 0 THEN TW!None
                                   ELSE TW!Slot(TW!ExpireIn(loop[i]), currtick)]
  /\ pc' = "callback"
  /\ UNCHANGED <<currtick, lasttime, remainder, diff, alloc, loop, handles>>

User == \/ \E delay \in Delays, lp \in Loops : cots_add_timer(delay, lp)
        \/ \E i \in handles : cots_del_timer(i)

cots_update ==
  /\ \E s \in Steps : lasttime + s <= MaxTime /\ TW!cotw_update(lasttime + s)
  /\ UNCHANGED <<alloc, loop, handles>>

\* What the thread does inside cots_update.
Tick == /\ TW!_cotw_tick \/ TW!tick_end \/ TW!update_end
        /\ UNCHANGED <<alloc, loop, handles>>

Updating == Tick \/ \E i \in Item : _on_timer(i)

Next == User \/ cots_update \/ Updating

\* Callbacks return, and the thread inside cots_update goes on.
Spec == Init /\ [][Next]_vars /\ WF_vars(Updating)

-----------------------------------------------------------------------------
\* The wheel and the allocator have the types of their modules.
TypeOK ==
  /\ TW!TWTypeOK
  /\ nblock \in 0 .. MaxBlocks
  /\ freeitem \in Seq(Item)
  /\ flag \in [Item -> FA!Flags]
  /\ held \subseteq Item
  /\ loop \in [Item -> Nat]
  /\ handles \subseteq Item

\* No list of the wheel contains an item that is not in use: cots_add_timer never links
\* an item that is still in a list, and no callback runs for released memory.
LinkedIsHeld == \A i \in Item : place[i] # TW!None => i \in held

\* A handle the user has not passed to cots_del_timer denotes a timer in use that it
\* can delete, and the free list stays sound, however timers are added and deleted from
\* the callbacks of others of the same tick.
HandlesUsable == handles \subseteq held /\ FA!HeldIsNotFree /\ FA!FreeListSound

\* Refinement: timers fire in exactly the tick they were set for and every loop ticks
\* from then on, until they are deleted; a deleted timer does not fire, even when it is
\* due in the same tick.
CD == INSTANCE Countdown WITH Timer <- Item, MaxDelay <- TW!Word - 1,
                              remaining <- TW!remaining, period <- loop

Periodic == CD!Spec

\* cots_update returns: no callback can keep a tick going by adding timers, as every
\* new one is at least one tick away.
UpdateReturns == pc # "idle" ~> pc = "idle"
=============================================================================
