---------------------------- MODULE TimingWheel ----------------------------
(***************************************************************************)
(* The hierarchical timing wheel of src/co_timingwheel.c: a root wheel     *)
(* with one list per tick, upper wheels whose lists are cascaded down when *)
(* the wheel below has gone round, and cotw_update, which turns elapsed    *)
(* milliseconds into ticks.                                                *)
(*                                                                         *)
(* A list of the wheel is the set of the nodes whose "place" it is: no     *)
(* property tells the order within a list, so that the nodes of a tick     *)
(* fire in any order. The callback of a node runs inside _cotw_tick, and   *)
(* is the code that calls cotw_add and cotw_del between two firings.       *)
(***************************************************************************)
EXTENDS Integers

CONSTANTS Node,        \* timer nodes
          TVR_BITS,    \* bits of the root wheel's index
          TVN_BITS,    \* bits of an upper wheel's index
          Wheels,      \* number of upper wheels
          Interval,    \* tw->interval: milliseconds of a tick
          Delays,      \* ticks passed to cotw_add
          Steps,       \* milliseconds between two calls of cotw_update
          MaxTime      \* bound: the clock is not read beyond it

TVR_SIZE == 2 ^ TVR_BITS
TVN_SIZE == 2 ^ TVN_BITS

\* The width of tick counters is what the wheels cover: 8 + 4 * 6 = 32 bits in the
\* code, uint32_t.
Word == 2 ^ (TVR_BITS + Wheels * TVN_BITS)

\* What is known of the sizes: each wheel spans what the one below it does, times the
\* number of its lists (an instance of the law of powers).
Geometry ==
  /\ TVR_BITS \in Nat \ {0} /\ TVN_BITS \in Nat \ {0} /\ Wheels \in Nat \ {0}
  /\ TVR_SIZE \in Nat \ {0, 1} /\ TVN_SIZE \in Nat \ {0} /\ Word \in Nat \ {0}
  /\ \A l \in 0 .. Wheels - 1 : 2 ^ (TVR_BITS + (l + 1) * TVN_BITS)
                                = 2 ^ (TVR_BITS + l * TVN_BITS) * TVN_SIZE

ASSUME WheelAssumption ==
  /\ Geometry
  /\ Interval \in Nat \ {0}
  /\ Delays \subseteq 0 .. Word - 1
  /\ Steps \subseteq Nat \ {0}
  /\ MaxTime \in Nat

VARIABLES currtick,    \* tw->currtick
          lasttime,    \* tw->lasttime, from the initial time on
          remainder,   \* tw->remainder
          diff,        \* local of cotw_update: milliseconds not yet ticked
          pc,          \* where the thread is, see below
          expire,      \* node->expire; dead in a node without a list, and 0 here
          place        \* the list node is linked in

wheel == <<currtick, expire, place>>
clock == <<lasttime, remainder, diff>>
twvars == <<currtick, lasttime, remainder, diff, pc, expire, place>>

\* pc: "idle" outside cotw_update, "update" between two ticks of its loop, "tick" in
\* _cotw_tick before the first callback, "callback" inside a callback.
PCs == {"idle", "update", "tick", "callback"}

\* Code outside the wheel runs between updates and in callbacks.
UserCode == pc \in {"idle", "callback"}

None == <<"none", 0, 0>>          \* linked in no list
Due  == <<"due", 0, 0>>           \* the local list of _cotw_tick
Root(i)  == <<"tvroot", 0, i>>
Tv(l, i) == <<"tv", l, i>>

FIRST_INDEX(v) == v % TVR_SIZE
NTH_INDEX(v, n) == (v \div 2 ^ (TVR_BITS + n * TVN_BITS)) % TVN_SIZE

Places == {None, Due} \cup {Root(i) : i \in 0 .. TVR_SIZE - 1}
                      \cup {Tv(l, i) : l \in 0 .. Wheels - 1, i \in 0 .. TVN_SIZE - 1}

\* The list _cotw_add links a node into at tick now: the lowest wheel whose span
\* covers the distance.
Slot(exp, now) ==
  LET idx == (exp - now) % Word
      Fits(l) == idx < 2 ^ (TVR_BITS + (l + 1) * TVN_BITS)
      l == CHOOSE n \in 0 .. Wheels - 1 : Fits(n) /\ \A m \in 0 .. n - 1 : ~Fits(m)
  IN  IF idx < TVR_SIZE THEN Root(FIRST_INDEX(exp)) ELSE Tv(l, NTH_INDEX(exp, l))

\* Ticks until a node expires.
Distance(n) == (expire[n] - currtick) % Word

\* Faulty variant: only the first upper wheel is cascaded.
Cascades_FirstWheel(t, l) == FIRST_INDEX(t) = 0 /\ l = 0

\* The upper wheels that tick t cascades: the first, and every other one below which
\* all indexes are 0.
Cascades(t, l) ==
  FIRST_INDEX(t) = 0 /\ \A m \in 0 .. l - 1 : NTH_INDEX(t, m) = 0

\* _cotw_cascade of one wheel and then the next: the lists of tick t are linked anew.
Cascaded(t) ==
  LET after[l \in 0 .. Wheels] ==
        IF l = 0 THEN place
        ELSE [n \in Node |->
                IF /\ Cascades(t, l - 1)
                   /\ after[l - 1][n] = Tv(l - 1, NTH_INDEX(t, l - 1))
                THEN Slot(expire[n], t)
                ELSE after[l - 1][n]]
  IN  after[Wheels]

-----------------------------------------------------------------------------
TWInit == /\ currtick = 0
          /\ lasttime = 0
          /\ remainder = 0
          /\ diff = 0
          /\ pc = "idle"
          /\ expire = [n \in Node |-> 0]
          /\ place = [n \in Node |-> None]

\* The expiry of cotw_add: at least one tick away.
ExpireIn(ticks) == (currtick + (IF ticks > 0 THEN ticks ELSE 1)) % Word

\* cotw_add of a node that is in no list: linking a node twice would break both lists.
cotw_add(n, ticks) ==
  /\ UserCode
  /\ place[n] = None
  /\ expire' = [expire EXCEPT ![n] = ExpireIn(ticks)]
  /\ place' = [place EXCEPT ![n] = Slot(ExpireIn(ticks), currtick)]
  /\ UNCHANGED <<currtick, clock, pc>>

\* cotw_del of a linked node takes it out of its list, _cotw_tick's included.
cotw_del(n) ==
  /\ UserCode
  /\ place[n] # None
  /\ place' = [place EXCEPT ![n] = None]
  /\ expire' = [expire EXCEPT ![n] = 0]
  /\ UNCHANGED <<currtick, clock, pc>>

\* cotw_update: a time that is not later than the last one is ignored.
cotw_update(now) ==
  /\ pc = "idle"
  /\ now > lasttime
  /\ diff' = now - lasttime + remainder
  /\ lasttime' = now
  /\ pc' = "update"
  /\ UNCHANGED <<wheel, remainder>>

\* Faulty variant: the interval is not taken off.
_cotw_tick_NoProgress ==
  /\ pc = "update"
  /\ diff >= Interval
  /\ diff' = diff
  /\ LET t == (currtick + 1) % Word
         now == Cascaded(t)
     IN  /\ currtick' = t
         /\ place' = [n \in Node |-> IF now[n] = Root(FIRST_INDEX(t)) THEN Due ELSE now[n]]
  /\ pc' = "tick"
  /\ UNCHANGED <<expire, lasttime, remainder>>

\* One turn of its loop, up to the callbacks: _cotw_tick cascades and takes the list
\* of the new tick.
_cotw_tick ==
  /\ pc = "update"
  /\ diff >= Interval
  /\ diff' = diff - Interval
  /\ LET t == (currtick + 1) % Word
         now == Cascaded(t)
     IN  /\ currtick' = t
         /\ place' = [n \in Node |-> IF now[n] = Root(FIRST_INDEX(t)) THEN Due ELSE now[n]]
  /\ pc' = "tick"
  /\ UNCHANGED <<expire, lasttime, remainder>>

\* The next node of the tick: unlinked, then its callback is called.
fire(n) ==
  /\ pc \in {"tick", "callback"}
  /\ place[n] = Due
  /\ place' = [place EXCEPT ![n] = None]
  /\ expire' = [expire EXCEPT ![n] = 0]
  /\ pc' = "callback"
  /\ UNCHANGED <<currtick, clock>>

\* The list of the tick is empty.
tick_end ==
  /\ pc \in {"tick", "callback"}
  /\ \A n \in Node : place[n] # Due
  /\ pc' = "update"
  /\ UNCHANGED <<wheel, clock>>

\* Faulty variant: the milliseconds short of a tick are forgotten.
update_end_NoRemainder ==
  /\ pc = "update"
  /\ diff < Interval
  /\ remainder' = 0
  /\ diff' = 0
  /\ pc' = "idle"
  /\ UNCHANGED <<wheel, lasttime>>

\* The loop of cotw_update ends: what is short of a tick waits for the next update.
update_end ==
  /\ pc = "update"
  /\ diff < Interval
  /\ remainder' = diff
  /\ diff' = 0
  /\ pc' = "idle"
  /\ UNCHANGED <<wheel, lasttime>>

TWNext == \/ \E n \in Node, ticks \in Delays : cotw_add(n, ticks)
          \/ \E n \in Node : cotw_del(n) \/ fire(n)
          \/ \E s \in Steps : lasttime + s <= MaxTime /\ cotw_update(lasttime + s)
          \/ _cotw_tick
          \/ tick_end
          \/ update_end

TWSpec == TWInit /\ [][TWNext]_twvars

-----------------------------------------------------------------------------
\* Every variable has the type of its field or local.
TWTypeOK ==
  /\ currtick \in 0 .. Word - 1
  /\ lasttime \in Nat
  /\ remainder \in Nat
  /\ diff \in Nat
  /\ pc \in PCs
  /\ expire \in [Node -> 0 .. Word - 1]
  /\ place \in [Node -> Places]

\* Milliseconds that cotw_update has taken but not turned into a tick.
Pending == IF pc = "idle" THEN remainder ELSE diff

\* The clock never drifts: the milliseconds since the start are the ticks done, times
\* the interval, plus what is pending; nothing is lost when updates come late, early
\* or in uneven steps, or when the tick counter wraps around.
NoDrift ==
  /\ remainder < Interval
  /\ \E ticks \in 0 .. lasttime : /\ lasttime = ticks * Interval + Pending
                                  /\ currtick = ticks % Word

\* Refinement: every node fires in exactly the tick it was set for, whatever wheels it
\* was cascaded through, and a deleted node does not fire.
remaining == [n \in Node |-> IF place[n] = None THEN -1 ELSE Distance(n)]

CD == INSTANCE Countdown WITH Timer <- Node, MaxDelay <- Word - 1,
                              period <- [n \in Node |-> 0]

Punctual == CD!Spec
=============================================================================
