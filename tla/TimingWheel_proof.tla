------------------------- MODULE TimingWheel_proof -------------------------
(***************************************************************************)
(* Proofs about the timing wheel for every interval, every size and number *)
(* of its wheels, every set of nodes and every way the clock is read.      *)
(*                                                                         *)
(* ClockInv is about the time, PlaceInv about the lists: the distance of a *)
(* node from the tick it expires in, modulo the width of the counter, and  *)
(* what the node's expiry leaves in each wheel determine its list. A tick  *)
(* takes one off every distance; the arithmetic of remainders says that    *)
(* the wheel of a node is cascaded just when its list no longer tells the  *)
(* node's tick, and that the list of the tick has the nodes at distance 0. *)
(***************************************************************************)
EXTENDS TimingWheel, WellFoundedInduction, TLAPS

\* The part of the state that cotw_update keeps the time in.
ClockTypeOK ==
  /\ currtick \in 0 .. Word - 1
  /\ lasttime \in Nat
  /\ remainder \in Nat
  /\ diff \in Nat
  /\ pc \in PCs

\* Ticks of an Interval are at most as many as milliseconds.
LEMMA TicksBounded ==
  ASSUME NEW k \in Nat, NEW d \in Nat, NEW i \in Nat \ {0}
  PROVE  k * i + d \in Nat /\ k <= k * i + d
<1>1. k * i >= k /\ k * i \in Nat
  OBVIOUS
<1> QED
  BY <1>1

LEMMA OneMoreTick ==
  ASSUME NEW k \in Nat, NEW i \in Nat \ {0}
  PROVE  (k + 1) * i = k * i + i
OBVIOUS

\* The remainder of a division is the only one.
LEMMA RemainderUnique ==
  ASSUME NEW w \in Nat \ {0}, NEW q \in Nat, NEW r \in 0 .. w - 1, NEW m \in Nat,
         m = w * q + r
  PROVE  m % w = r
<1> DEFINE d == m \div w
           e == m % w
<1>1. d \in Nat /\ e \in 0 .. w - 1 /\ m = w * d + e
  OBVIOUS
<1> HIDE DEF d, e
<1>2. ASSUME NEW a \in Nat, NEW b \in Nat, a < b, NEW x \in 0 .. w - 1, NEW y \in 0 .. w - 1
      PROVE  w * a + x < w * b + y
  <2>1. w * (a + 1) = w * a + w
    OBVIOUS
  <2>2. a + 1 <= b
    BY <1>2
  <2>3. w * (a + 1) <= w * b
    BY <2>2
  <2>4. w * a \in Nat /\ w * b \in Nat /\ w * (a + 1) \in Nat
    OBVIOUS
  <2> QED
    BY <2>1, <2>3, <2>4
<1>3. ~(d < q) /\ ~(q < d)
  BY <1>1, <1>2
<1>4. d = q
  BY <1>1, <1>3
<1>5. w * q \in Nat
  OBVIOUS
<1>6. e = r
  BY <1>1, <1>4, <1>5
<1> QED
  BY <1>6 DEF e

\* The tick counter counts on modulo its width.
LEMMA CountModulo ==
  ASSUME NEW k \in Nat, NEW w \in Nat \ {0}
  PROVE  ((k % w) + 1) % w = (k + 1) % w
<1> DEFINE q == k \div w
           r == k % w
<1>1. q \in Nat /\ r \in 0 .. w - 1 /\ k = w * q + r
  OBVIOUS
<1> HIDE DEF q, r
<1>2. w * q \in Nat /\ w * (q + 1) = w * q + w /\ w * 0 = 0 /\ w * 1 = w
  BY <1>1
<1>3. CASE r + 1 < w
  <2>1. r + 1 \in 0 .. w - 1 /\ r + 1 \in Nat /\ k + 1 \in Nat
    BY <1>1, <1>3
  <2>2. (k + 1) % w = r + 1
    BY <1>1, <1>2, <2>1, RemainderUnique
  <2>3. (r + 1) % w = r + 1
    BY <1>2, <2>1, RemainderUnique
  <2> QED
    BY <2>2, <2>3 DEF r
<1>4. CASE r + 1 = w
  <2>1. 0 \in 0 .. w - 1 /\ q + 1 \in Nat /\ k + 1 \in Nat
    BY <1>1
  <2>2. (k + 1) % w = 0
    <3>1. k + 1 = w * (q + 1) + 0
      BY <1>1, <1>2, <1>4
    <3>2. \A j \in Nat, p \in Nat : j = w * p + 0 => j % w = 0
      BY <2>1, RemainderUnique
    <3> QED
      BY <2>1, <3>1, <3>2
  <2>3. w % w = 0
    BY <1>2, <2>1, RemainderUnique
  <2> QED
    BY <1>4, <2>2, <2>3 DEF r
<1> QED
  BY <1>1, <1>3, <1>4

-----------------------------------------------------------------------------
ClockInv == ClockTypeOK /\ NoDrift

LEMMA InitClock == TWInit => ClockInv
<1> SUFFICES ASSUME TWInit PROVE ClockInv
  OBVIOUS
<1>1. ClockTypeOK
  BY WheelAssumption DEF Geometry, TWInit, ClockTypeOK, PCs
<1>2. 0 % Word = 0 /\ 0 * Interval = 0
  BY WheelAssumption DEF Geometry
<1>3. NoDrift
  BY <1>2, WheelAssumption DEF Geometry, TWInit, NoDrift, Pending
<1> QED
  BY <1>1, <1>3 DEF ClockInv

LEMMA ClockSame ==
  ASSUME ClockInv, UNCHANGED <<currtick, lasttime, remainder, diff>>,
         pc' \in PCs, (pc' = "idle") <=> (pc = "idle")
  PROVE  ClockInv'
BY DEF ClockInv, ClockTypeOK, NoDrift, Pending

\* cotw_update adds the milliseconds since the last update to what was pending.
LEMMA UpdateClock ==
  ASSUME ClockInv, NEW now \in Nat, cotw_update(now)
  PROVE  ClockInv'
<1>1. PICK k \in 0 .. lasttime : lasttime = k * Interval + remainder /\ currtick = k % Word
  BY DEF ClockInv, NoDrift, Pending, cotw_update
<1>2. /\ k \in Nat /\ k * Interval \in Nat /\ lasttime \in Nat /\ remainder \in Nat
      /\ now > lasttime /\ diff' = now - lasttime + remainder /\ lasttime' = now
      /\ pc' = "update" /\ currtick' = currtick /\ remainder' = remainder
  BY <1>1, WheelAssumption DEF Geometry, ClockInv, ClockTypeOK, cotw_update, wheel
<1>3. ClockTypeOK'
  BY <1>2 DEF ClockInv, ClockTypeOK, PCs
<1>4. k \in 0 .. now /\ now = k * Interval + diff'
  BY <1>1, <1>2
<1>5. NoDrift'
  BY <1>1, <1>2, <1>4 DEF ClockInv, NoDrift, Pending
<1> QED
  BY <1>3, <1>5 DEF ClockInv

\* A tick takes one interval off what is pending.
LEMMA TickClock == ClockInv /\ _cotw_tick => ClockInv'
<1> SUFFICES ASSUME ClockInv, _cotw_tick PROVE ClockInv'
  OBVIOUS
<1>1. PICK k \in 0 .. lasttime : lasttime = k * Interval + diff /\ currtick = k % Word
  BY DEF ClockInv, NoDrift, Pending, _cotw_tick
<1>2. /\ k \in Nat /\ k * Interval \in Nat /\ lasttime \in Nat /\ diff \in Nat
      /\ Interval \in Nat \ {0} /\ Word \in Nat \ {0}
      /\ diff >= Interval /\ diff' = diff - Interval /\ lasttime' = lasttime
      /\ pc' = "tick" /\ currtick' = (currtick + 1) % Word /\ remainder' = remainder
  BY <1>1, WheelAssumption DEF Geometry, ClockInv, ClockTypeOK, _cotw_tick
<1>3. diff' \in Nat /\ k + 1 \in Nat
  BY <1>2
<1>4. ClockTypeOK'
  BY <1>2, <1>3 DEF ClockInv, ClockTypeOK, PCs
<1>5. (k + 1) * Interval = k * Interval + Interval
  BY <1>2, OneMoreTick
<1>6. lasttime = (k + 1) * Interval + diff'
  BY <1>1, <1>2, <1>5
<1>7. k + 1 \in 0 .. lasttime
  BY <1>2, <1>3, <1>6, TicksBounded
<1>8. currtick' = (k + 1) % Word
  BY <1>1, <1>2, CountModulo
<1>9. NoDrift'
  BY <1>2, <1>6, <1>7, <1>8 DEF ClockInv, NoDrift, Pending
<1> QED
  BY <1>4, <1>9 DEF ClockInv

\* What the loop leaves is kept for the next update.
LEMMA EndClock == ClockInv /\ update_end => ClockInv'
<1> SUFFICES ASSUME ClockInv, update_end PROVE ClockInv'
  OBVIOUS
<1>1. /\ diff < Interval /\ remainder' = diff /\ diff' = 0 /\ pc = "update" /\ pc' = "idle"
      /\ lasttime' = lasttime /\ currtick' = currtick
  BY DEF update_end, wheel
<1>2. ClockTypeOK'
  BY <1>1 DEF ClockInv, ClockTypeOK, PCs
<1>3. NoDrift'
  BY <1>1 DEF ClockInv, NoDrift, Pending
<1> QED
  BY <1>2, <1>3 DEF ClockInv

\* The clock of the wheel never drifts, however unevenly it is updated and however
\* often its tick counter wraps around.
THEOREM NoDriftAlways == TWSpec => []NoDrift
<1>1. ASSUME ClockInv, [TWNext]_twvars PROVE ClockInv'
  <2>1. CASE \E n \in Node, ticks \in Delays : cotw_add(n, ticks)
    BY <1>1, <2>1, ClockSame DEF cotw_add, clock, ClockInv, ClockTypeOK
  <2>2. CASE \E n \in Node : cotw_del(n)
    BY <1>1, <2>2, ClockSame DEF cotw_del, clock, ClockInv, ClockTypeOK
  <2>3. CASE \E n \in Node : fire(n)
    BY <1>1, <2>3, ClockSame DEF fire, clock, PCs
  <2>4. ASSUME NEW s \in Steps, cotw_update(lasttime + s) PROVE ClockInv'
    <3>1. lasttime + s \in Nat
      BY <1>1, WheelAssumption DEF Geometry, ClockInv, ClockTypeOK
    <3> QED
      BY <1>1, <2>4, <3>1, UpdateClock
  <2>5. CASE _cotw_tick
    BY <1>1, <2>5, TickClock
  <2>6. CASE tick_end
    BY <1>1, <2>6, ClockSame DEF tick_end, wheel, clock, PCs
  <2>7. CASE update_end
    BY <1>1, <2>7, EndClock
  <2>8. CASE UNCHANGED twvars
    BY <1>1, <2>8, ClockSame DEF twvars, ClockInv, ClockTypeOK
  <2> QED
    BY <1>1, <2>1, <2>2, <2>3, <2>4, <2>5, <2>6, <2>7, <2>8 DEF TWNext
<1>2. ClockInv => NoDrift
  BY DEF ClockInv
<1> QED
  BY <1>1, <1>2, InitClock, PTL DEF TWSpec
-----------------------------------------------------------------------------
(* Quotients and remainders.                                               *)

\* A number is the divisor times the quotient plus the remainder.
LEMMA Division ==
  ASSUME NEW a \in Int, NEW n \in Nat \ {0}
  PROVE  a \div n \in Int /\ a % n \in 0 .. n - 1 /\ a = n * (a \div n) + (a % n)
OBVIOUS

LEMMA Multiples ==
  ASSUME NEW n \in Nat \ {0}, NEW j \in Int, n * j < n, -n < n * j
  PROVE  j = 0
<1>1. CASE j >= 1
  <2>1. n * j >= n
    BY <1>1
  <2> QED
    BY <2>1
<1>2. CASE j <= -1
  <2>1. n * j <= -n
    BY <1>2
  <2> QED
    BY <2>1
<1> QED
  BY <1>1, <1>2

\* The quotient and the remainder are the only ones.
LEMMA DivisionUnique ==
  ASSUME NEW a \in Int, NEW n \in Nat \ {0}, NEW q \in Int, NEW r \in 0 .. n - 1,
         a = n * q + r
  PROVE  a % n = r /\ a \div n = q
<1> DEFINE d == a \div n
           e == a % n
<1>1. d \in Int /\ e \in 0 .. n - 1 /\ a = n * d + e
  BY Division
<1> HIDE DEF d, e
<1>2. n * (q - d) = n * q - n * d /\ n * q \in Int /\ n * d \in Int /\ q - d \in Int
  BY <1>1
<1>3. n * (q - d) = e - r
  BY <1>1, <1>2
<1>4. q - d = 0
  BY <1>1, <1>2, <1>3, Multiples
<1>5. d = q
  BY <1>1, <1>4
<1>6. e = r
  BY <1>1, <1>5, <1>2
<1> QED
  BY <1>5, <1>6 DEF d, e

\* A number that is so many spans is a multiple of a wider span if and only if the count
\* is a multiple of what the wider span is wider by.
LEMMA MultipleOfProduct ==
  ASSUME NEW t \in Nat, NEW s \in Nat \ {0}, NEW v \in Nat \ {0}
  PROVE  t % (s * v) = 0 <=> t % s = 0 /\ (t \div s) % v = 0
<1>0. s * v \in Nat \ {0}
  OBVIOUS
<1>1. ASSUME t % (s * v) = 0 PROVE t % s = 0 /\ (t \div s) % v = 0
  <2> DEFINE q == t \div (s * v)
  <2>1. q \in Int /\ t = (s * v) * q
    <3> DEFINE n == s * v
    <3>1. n \in Nat \ {0} /\ t \in Int /\ t % n = 0
      BY <1>0, <1>1
    <3> HIDE DEF n
    <3>2. t \div n \in Int /\ t = n * (t \div n)
      BY <3>1, Division
    <3> QED
      BY <3>2 DEF n
  <2> HIDE DEF q
  <2>2. (s * v) * q = s * (v * q) /\ v * q \in Int
    BY <2>1
  <2>3. t = s * (v * q) + 0 /\ 0 \in 0 .. s - 1
    BY <2>1, <2>2
  <2>4. t % s = 0 /\ t \div s = v * q
    BY <2>2, <2>3, DivisionUnique
  <2>5. v * q = v * q + 0 /\ 0 \in 0 .. v - 1
    BY <2>2
  <2>6. (v * q) % v = 0
    BY <2>1, <2>2, <2>5, DivisionUnique
  <2> QED
    BY <2>4, <2>6
<1>2. ASSUME t % s = 0, (t \div s) % v = 0 PROVE t % (s * v) = 0
  <2> DEFINE q == t \div s
             p == q \div v
  <2>1. q \in Int /\ t = s * q
    BY <1>2, Division
  <2>2. p \in Int /\ q = v * p
    BY <1>2, <2>1, Division
  <2> HIDE DEF q, p
  <2>3. t = (s * v) * p + 0 /\ 0 \in 0 .. (s * v) - 1
    BY <1>0, <2>1, <2>2
  <2> DEFINE n == s * v
  <2>4. n \in Nat \ {0} /\ t \in Int /\ t = n * p + 0 /\ 0 \in 0 .. n - 1 /\ p \in Int
    BY <1>0, <2>2, <2>3
  <2> HIDE DEF n
  <2>5. t % n = 0
    BY <2>4, DivisionUnique
  <2> QED
    BY <2>5 DEF n
<1> QED
  BY <1>1, <1>2

Divides(n, w) == \E k \in Nat \ {0} : w = n * k

\* Going back from e, t is the first multiple of s, and the one with e's index, exactly
\* if the distance is what e is past a multiple.
LEMMA IndexMatches ==
  ASSUME NEW w \in Nat \ {0}, NEW s \in Nat \ {0}, NEW v \in Nat \ {0},
         Divides(s * v, w)
  PROVE  \A e, t \in 0 .. w - 1 :
           e % s <= (e - t) % w /\ (e - t) % w < s * v =>
             ((t % s = 0 /\ (t \div s) % v = (e \div s) % v) <=> (e - t) % w = e % s)
<1> SUFFICES ASSUME NEW e \in 0 .. w - 1, NEW t \in 0 .. w - 1,
                    e % s <= (e - t) % w, (e - t) % w < s * v
             PROVE  (t % s = 0 /\ (t \div s) % v = (e \div s) % v) <=> (e - t) % w = e % s
  OBVIOUS
<1> DEFINE r == e % s
           q == e \div s
           d == (e - t) % w
           z == (e - t) \div w
<1> PICK k \in Nat \ {0} : w = (s * v) * k
  BY DEF Divides
<1>0. s * v \in Nat \ {0} /\ e \in Int /\ t \in Int /\ e - t \in Int
  OBVIOUS
<1>1. q \in Int /\ r \in 0 .. s - 1 /\ e = s * q + r
  BY <1>0, Division
<1>2. z \in Int /\ d \in 0 .. w - 1 /\ e - t = w * z + d
  BY <1>0, Division
<1>3. r <= d /\ d < s * v
  OBVIOUS
<1>4. w * z = s * (v * (k * z)) /\ w * z = (s * v) * (k * z) /\ k * z \in Int /\ v * (k * z) \in Int
  <2>1. k * z \in Int
    BY <1>2
  <2>2. ((s * v) * k) * z = (s * v) * (k * z)
    BY <1>2
  <2>3. \A x \in Int : (s * v) * x = s * (v * x) /\ v * x \in Int
    OBVIOUS
  <2>4. w * z = (s * v) * (k * z)
    BY <2>2
  <2> QED
    BY <2>1, <2>3, <2>4
<1> HIDE DEF r, q, d, z
<1>5. ASSUME d = r PROVE t % s = 0 /\ (t \div s) % v = q % v
  <2> DEFINE y == v * (k * z)
  <2>1. y \in Int /\ t = e - r - s * y
    BY <1>0, <1>1, <1>2, <1>4, <1>5
  <2>2. t = s * (q - y) + 0
    <3> HIDE DEF y
    <3>1. s * (q - y) = s * q - s * y /\ s * q \in Int /\ s * y \in Int
      BY <1>1, <2>1
    <3> QED
      BY <1>1, <2>1, <3>1
  <2>3. t % s = 0 /\ t \div s = q - y
    <3> HIDE DEF y
    <3>1. q - y \in Int /\ 0 \in 0 .. s - 1
      BY <1>1, <2>1
    <3> QED
      BY <1>0, <2>2, <3>1, DivisionUnique
  <2>4. (q - y) % v = q % v
    <3> DEFINE a == q \div v
               b == q % v
               x == k * z
    <3>1. a \in Int /\ b \in 0 .. v - 1 /\ q = v * a + b
      BY <1>1, Division
    <3>2. x \in Int
      BY <1>4
    <3> HIDE DEF a, b, x
    <3>3. q - v * x = v * (a - x) + b
      <4>1. v * (a - x) = v * a - v * x /\ v * a \in Int /\ v * x \in Int
        BY <3>1, <3>2
      <4> QED
        BY <3>1, <4>1
    <3>4. q - v * x \in Int /\ a - x \in Int
      BY <1>1, <3>1, <3>2
    <3>5. (q - v * x) % v = b
      BY <3>1, <3>3, <3>4, DivisionUnique
    <3> QED
      BY <3>5 DEF b, x
  <2> QED
    BY <2>3, <2>4
<1>6. ASSUME t % s = 0, (t \div s) % v = q % v PROVE d = r
  <2> DEFINE p == t \div s
             a == q \div v
             c == p \div v
             b == q % v
  <2>1. p \in Int /\ t = s * p
    BY <1>0, <1>6, Division
  <2>2. a \in Int /\ b \in 0 .. v - 1 /\ q = v * a + b
    BY <1>1, Division
  <2>3. c \in Int /\ p = v * c + b
    BY <1>6, <2>1, Division
  <2>4. q - p = v * (a - c)
    <3> HIDE DEF p, a, b, c
    <3>1. v * (a - c) = v * a - v * c /\ v * a \in Int /\ v * c \in Int
      BY <2>2, <2>3
    <3> QED
      BY <2>2, <2>3, <3>1
  <2> DEFINE j == a - c
             x == k * z
  <2>5. j \in Int /\ x \in Int
    BY <2>2, <2>3, <1>4
  <2>6. e - t = (s * v) * j + r
    <3>1. s * (q - p) = s * q - s * p /\ s * q \in Int /\ s * p \in Int
      <4> HIDE DEF p
      <4> QED
        BY <1>1, <2>1
    <3>2. s * (v * j) = (s * v) * j
      <4> HIDE DEF j
      <4> QED
        BY <2>5
    <3>3. s * (q - p) = (s * v) * j
      BY <2>4, <3>2
    <3>4. (s * v) * j \in Int
      <4> HIDE DEF j
      <4> QED
        BY <2>5
    <3> HIDE DEF p, j
    <3>5. e - t = (s * q - s * p) + r
      BY <1>1, <2>1, <3>1
    <3> QED
      BY <1>1, <3>1, <3>3, <3>4, <3>5
  <2> DEFINE n == s * v
  <2>7. n * (j - x) = d - r
    <3>1. n \in Nat \ {0} /\ e - t = n * j + r /\ e - t = n * x + d
      BY <1>0, <1>2, <1>4, <2>6
    <3> DEFINE nj == n * j
               nx == n * x
    <3> HIDE DEF n, j, x
    <3>2. n * (j - x) = nj - nx /\ nj \in Int /\ nx \in Int
      BY <2>5, <3>1
    <3>3. e - t = nj + r /\ e - t = nx + d
      BY <3>1
    <3> HIDE DEF nj, nx
    <3>4. nj - nx = d - r
      BY <1>1, <1>2, <3>2, <3>3
    <3> QED
      BY <3>2, <3>4
  <2>8. j - x = 0
    <3>1. n \in Nat \ {0} /\ j - x \in Int
      BY <1>0, <2>5
    <3>2. d - r < n /\ -n < d - r
      BY <1>0, <1>1, <1>2, <1>3
    <3> HIDE DEF n, j, x
    <3> QED
      BY <2>7, <3>1, <3>2, Multiples
  <2>9. n * (j - x) = 0
    <3>1. n \in Nat /\ n * 0 = 0
      BY <1>0
    <3> HIDE DEF n, j, x
    <3> QED
      BY <2>8, <3>1
  <2> QED
    BY <1>1, <1>2, <2>7, <2>9
<1> QED
  BY <1>5, <1>6 DEF d, r, q

-----------------------------------------------------------------------------
(* The spans of the wheels.                                                *)

LEMMA LeastElement ==
  ASSUME NEW T \in SUBSET Nat, T # {}
  PROVE  \E x \in T : \A y \in T : x <= y
<1>1. PICK x \in T : \A y \in T : ~(<<y, x>> \in OpToRel(<, Nat))
  BY NatLessThanWellFounded, WFMin
<1>2. ASSUME NEW y \in T PROVE x <= y
  <2>1. <<y, x>> \in Nat \X Nat /\ ~(<<y, x>> \in OpToRel(<, Nat))
    BY <1>1
  <2>2. ~(y < x)
    BY <2>1 DEF OpToRel
  <2> QED  BY <2>2
<1> QED  BY <1>2

\* The ticks that the root wheel and the l wheels above it cover.
Span(l) == 2 ^ (TVR_BITS + l * TVN_BITS)

\* Ticks from c until e.
Dist(e, c) == (e - c) % Word

LEMMA Spans ==
  /\ \A l \in 0 .. Wheels : Span(l) \in Nat \ {0}
  /\ \A l \in 0 .. Wheels - 1 : Span(l + 1) = Span(l) * TVN_SIZE
  /\ Span(0) = TVR_SIZE
  /\ Span(Wheels) = Word
<1>1. \A l \in 0 .. Wheels - 1 : Span(l + 1) = Span(l) * TVN_SIZE
  BY WheelAssumption DEF Geometry, Span
<1>2. Span(0) = TVR_SIZE
  <2>1. TVR_BITS + 0 * TVN_BITS = TVR_BITS
    BY WheelAssumption DEF Geometry
  <2> QED
    BY <2>1 DEF Span, TVR_SIZE
<1>3. Span(Wheels) = Word
  BY DEF Span, Word
<1>4. TVR_SIZE \in Nat \ {0} /\ TVN_SIZE \in Nat \ {0} /\ Wheels \in Nat
  BY WheelAssumption DEF Geometry
<1>5. \A l \in 0 .. Wheels : Span(l) \in Nat \ {0}
  <2> DEFINE Bad == {l \in 0 .. Wheels : Span(l) \notin Nat \ {0}}
  <2>1. SUFFICES ASSUME Bad # {} PROVE FALSE
    OBVIOUS
  <2>2. PICK l \in Bad : \A m \in Bad : l <= m
    <3>1. Bad \in SUBSET Nat
      BY <1>4
    <3> HIDE DEF Bad
    <3> QED
      BY <2>1, <3>1, LeastElement
  <2>3. l # 0
    BY <1>2, <1>4, <2>2
  <2>4. l - 1 \in 0 .. Wheels - 1 /\ (l - 1) + 1 = l /\ Span(l - 1) \in Nat \ {0}
    BY <1>4, <2>2, <2>3
  <2>5. Span(l) = Span(l - 1) * TVN_SIZE
    BY <1>1, <2>4
  <2>6. Span(l - 1) * TVN_SIZE \in Nat \ {0}
    BY <1>4, <2>4
  <2> QED
    BY <2>2, <2>5, <2>6
<1> QED
  BY <1>1, <1>2, <1>3, <1>5

\* The counter's width is a multiple of every span.
LEMMA SpansDivide ==
  ASSUME NEW level \in 0 .. Wheels - 1
  PROVE  Divides(Span(level) * TVN_SIZE, Word)
<1> DEFINE Below(l) == Divides(Span(l) * TVN_SIZE, Word)
           Bad == {m \in 0 .. Wheels - 1 : ~Below(Wheels - 1 - m)}
<1>0. Wheels \in Nat \ {0} /\ TVN_SIZE \in Nat \ {0} /\ Word \in Nat \ {0}
  BY WheelAssumption DEF Geometry
<1>1. Below(Wheels - 1)
  <2>1. Wheels - 1 \in 0 .. Wheels - 1 /\ (Wheels - 1) + 1 = Wheels
    BY <1>0
  <2>2. Word = Span(Wheels - 1) * TVN_SIZE
    BY <2>1, Spans
  <2>3. Word = Word * 1
    BY <1>0
  <2> QED
    BY <2>2, <2>3 DEF Divides
<1>2. ASSUME NEW l \in 0 .. Wheels - 2, Below(l + 1) PROVE Below(l)
  <2>1. PICK k \in Nat \ {0} : Word = (Span(l + 1) * TVN_SIZE) * k
    BY <1>2 DEF Divides
  <2>2. Span(l + 1) = Span(l) * TVN_SIZE /\ Span(l) \in Nat
    BY <1>0, Spans
  <2>3. \A s \in Nat : (s * TVN_SIZE) * k = s * (TVN_SIZE * k)
    BY <1>0
  <2>4. Span(l) * TVN_SIZE \in Nat /\ TVN_SIZE * k \in Nat \ {0}
    BY <1>0, <2>2
  <2>5. Word = (Span(l) * TVN_SIZE) * (TVN_SIZE * k)
    BY <2>1, <2>2, <2>3, <2>4
  <2> QED
    BY <2>4, <2>5 DEF Divides
<1> HIDE DEF Below
<1>3. Bad = {}
  <2>1. SUFFICES ASSUME Bad # {} PROVE FALSE
    OBVIOUS
  <2>2. PICK m \in Bad : \A y \in Bad : m <= y
    <3>1. Bad \in SUBSET Nat
      BY <1>0
    <3> HIDE DEF Bad
    <3> QED
      BY <2>1, <3>1, LeastElement
  <2>3. m # 0
    BY <1>0, <1>1, <2>2
  <2>4. m - 1 \in 0 .. Wheels - 1 /\ ~(m <= m - 1)
    BY <1>0, <2>2, <2>3
  <2>5. Below(Wheels - 1 - (m - 1))
    BY <2>2, <2>4
  <2>6. Wheels - 1 - m \in 0 .. Wheels - 2 /\ (Wheels - 1 - m) + 1 = Wheels - 1 - (m - 1)
    BY <1>0, <2>2, <2>3
  <2> QED
    BY <1>2, <2>2, <2>5, <2>6
<1>4. Below(level)
  <2>1. Wheels - 1 - level \in 0 .. Wheels - 1
        /\ Wheels - 1 - (Wheels - 1 - level) = level
    BY <1>0
  <2> QED
    BY <1>3, <2>1
<1> QED
  BY <1>4 DEF Below

LEMMA Indexes ==
  ASSUME NEW v, NEW l
  PROVE  NTH_INDEX(v, l) = (v \div Span(l)) % TVN_SIZE
BY DEF NTH_INDEX, Span

\* A wheel is cascaded in the ticks that are a multiple of what is below it.
LEMMA CascadesAt ==
  ASSUME NEW t \in 0 .. Word - 1, NEW level \in 0 .. Wheels - 1
  PROVE  Cascades(t, level) <=> t % Span(level) = 0
<1> DEFINE Right(l) == Cascades(t, l) <=> t % Span(l) = 0
           Bad == {l \in 0 .. Wheels - 1 : ~Right(l)}
<1>0. Wheels \in Nat \ {0} /\ TVN_SIZE \in Nat \ {0} /\ Word \in Nat \ {0} /\ t \in Nat
  BY WheelAssumption DEF Geometry
<1>1. Right(0)
  BY Spans DEF Cascades, FIRST_INDEX
<1>2. ASSUME NEW l \in 0 .. Wheels - 2, Right(l) PROVE Right(l + 1)
  <2>1. Cascades(t, l + 1) <=> Cascades(t, l) /\ NTH_INDEX(t, l) = 0
    <3>1. 0 .. (l + 1) - 1 = (0 .. l - 1) \cup {l}
      BY <1>0
    <3> QED
      BY <3>1 DEF Cascades
  <2>2. l \in 0 .. Wheels - 1 /\ l \in 0 .. Wheels
    BY <1>0
  <2>3. Span(l + 1) = Span(l) * TVN_SIZE /\ Span(l) \in Nat \ {0}
    BY <2>2, Spans
  <2>4. t % (Span(l) * TVN_SIZE) = 0 <=> t % Span(l) = 0 /\ (t \div Span(l)) % TVN_SIZE = 0
    BY <1>0, <2>3, MultipleOfProduct
  <2> QED
    BY <1>2, <2>1, <2>3, <2>4, Indexes
<1> HIDE DEF Right
<1>3. Bad = {}
  <2>1. SUFFICES ASSUME Bad # {} PROVE FALSE
    OBVIOUS
  <2>2. PICK l \in Bad : \A m \in Bad : l <= m
    <3>1. Bad \in SUBSET Nat
      BY <1>0
    <3> HIDE DEF Bad
    <3> QED
      BY <2>1, <3>1, LeastElement
  <2>3. l # 0
    BY <1>1, <2>2
  <2>4. l - 1 \in 0 .. Wheels - 2 /\ (l - 1) + 1 = l /\ ~(l <= l - 1) /\ l - 1 \in 0 .. Wheels - 1
    BY <1>0, <2>2, <2>3
  <2>5. Right(l - 1)
    BY <2>2, <2>4
  <2> QED
    BY <1>2, <2>2, <2>4, <2>5
<1> QED
  BY <1>3 DEF Right

-----------------------------------------------------------------------------
(* The place of a node.                                                    *)

\* The list a node that expires at e is in when the counter is c: that of its tick in the
\* root wheel, or in the wheel that covers the distance to the tick that cascades it,
\* which is what e is past a multiple of the wheel's step.
OnTime(p, e, c) ==
  \/ p = Due /\ Dist(e, c) = 0
  \/ p = Root(FIRST_INDEX(e)) /\ Dist(e, c) \in 1 .. TVR_SIZE - 1
  \/ \E l \in 0 .. Wheels - 1 : /\ p = Tv(l, NTH_INDEX(e, l))
                                /\ e % Span(l) < Dist(e, c)
                                /\ Dist(e, c) < Span(l + 1)

LEMMA PlacesDiffer ==
  /\ None # Due
  /\ \A i : Root(i) # None /\ Root(i) # Due
  /\ \A l, i : Tv(l, i) # None /\ Tv(l, i) # Due
  /\ \A l, i, j : Root(i) # Tv(l, j)
  /\ \A i, j : Root(i) = Root(j) => i = j
  /\ \A l, m, i, j : Tv(l, i) = Tv(m, j) => l = m /\ i = j
<1>1. "none" # "due" /\ "tvroot" # "none" /\ "tvroot" # "due" /\ "tv" # "none" /\ "tv" # "due"
      /\ "tvroot" # "tv"
  OBVIOUS
<1> QED
  BY <1>1 DEF None, Due, Root, Tv

LEMMA DistType ==
  ASSUME NEW e \in 0 .. Word - 1, NEW c \in 0 .. Word - 1
  PROVE  Dist(e, c) \in 0 .. Word - 1
<1>1. Word \in Nat \ {0} /\ e - c \in Int
  BY WheelAssumption DEF Geometry
<1> HIDE DEF Word
<1> QED
  BY <1>1, Division DEF Dist

\* The next tick is one tick closer.
LEMMA DistTicks ==
  ASSUME NEW e \in 0 .. Word - 1, NEW c \in 0 .. Word - 1, Dist(e, c) # 0
  PROVE  /\ (c + 1) % Word \in 0 .. Word - 1
         /\ Dist(e, (c + 1) % Word) = Dist(e, c) - 1
<1> DEFINE w == Word
           d == (e - c) % w
           z == (e - c) \div w
           t == (c + 1) % w
<1>1. w \in Nat \ {0} /\ e - c \in Int /\ c + 1 \in Int /\ e \in Int /\ c \in Int
  BY WheelAssumption DEF Geometry
<1> HIDE DEF w
<1>2. z \in Int /\ d \in 0 .. w - 1 /\ e - c = w * z + d
  BY <1>1, Division
<1>3. d # 0 /\ c \in 0 .. w - 1
  BY DEF Dist, w
<1>4. w * z \in Int /\ w * (z + 1) = w * z + w /\ w * 0 = 0 /\ w * 1 = w
  BY <1>1, <1>2
<1>5. t \in 0 .. w - 1 /\ (e - t) % w = d - 1
  <2> HIDE DEF d, z
  <2>1. CASE c + 1 < w
    <3>1. c + 1 = w * 0 + (c + 1) /\ c + 1 \in 0 .. w - 1
      BY <1>1, <1>3, <1>4, <2>1
    <3>2. t = c + 1
      BY <1>1, <3>1, DivisionUnique
    <3>3. e - t = w * z + (d - 1) /\ d - 1 \in 0 .. w - 1 /\ e - t \in Int
      BY <1>1, <1>2, <1>3, <1>4, <3>2
    <3>4. (e - t) % w = d - 1
      <4> HIDE DEF t
      <4> QED
        BY <1>1, <1>2, <3>3, DivisionUnique
    <3> QED
      BY <3>1, <3>2, <3>4
  <2>2. CASE c + 1 = w
    <3>1. c + 1 = w * 1 + 0 /\ 0 \in 0 .. w - 1
      BY <1>1, <1>4, <2>2
    <3>2. t = 0
      BY <1>1, <3>1, DivisionUnique
    <3>3. e - t = w * (z + 1) + (d - 1) /\ d - 1 \in 0 .. w - 1 /\ e - t \in Int /\ z + 1 \in Int
      BY <1>1, <1>2, <1>3, <1>4, <2>2, <3>2
    <3>4. (e - t) % w = d - 1
      <4> HIDE DEF t
      <4> QED
        BY <1>1, <3>3, DivisionUnique
    <3> QED
      BY <3>1, <3>2, <3>4
  <2> QED
    BY <1>1, <1>3, <2>1, <2>2
<1> QED
  BY <1>5 DEF Dist, w

\* The list of a tick in the root wheel holds the nodes of that tick only.
LEMMA RootMatches ==
  ASSUME NEW e \in 0 .. Word - 1, NEW t \in 0 .. Word - 1, Dist(e, t) < TVR_SIZE
  PROVE  FIRST_INDEX(t) = FIRST_INDEX(e) <=> Dist(e, t) = 0
<1> DEFINE w == Word
           v == TVR_SIZE
<1>1. w \in Nat \ {0} /\ v \in Nat \ {0}
  BY WheelAssumption DEF Geometry
<1>2. Divides(1 * v, w)
  <2>1. 0 \in 0 .. Wheels - 1 /\ TVN_SIZE \in Nat \ {0}
    BY WheelAssumption DEF Geometry
  <2>2. PICK k \in Nat \ {0} : w = (v * TVN_SIZE) * k
    BY <2>1, Spans, SpansDivide DEF Divides
  <2>3. TVN_SIZE * k \in Nat \ {0} /\ (v * TVN_SIZE) * k = (1 * v) * (TVN_SIZE * k)
    <3> HIDE DEF v, w
    <3> QED
      BY <1>1, <2>1
  <2> QED
    BY <2>2, <2>3 DEF Divides
<1>3. \A x \in Nat : x % 1 = 0 /\ x \div 1 = x
  <2> TAKE x \in Nat
  <2>1. x = 1 * x + 0 /\ 0 \in 0 .. 1 - 1
    OBVIOUS
  <2> QED
    BY <2>1, DivisionUnique
<1>4. e \in 0 .. w - 1 /\ t \in 0 .. w - 1 /\ (e - t) % w < v /\ e \in Nat /\ t \in Nat
  BY <1>1 DEF Dist
<1>5. (e - t) % w \in 0 .. w - 1
  BY DistType DEF Dist
<1> HIDE DEF w, v
<1>6. e % 1 <= (e - t) % w /\ (e - t) % w < 1 * v
  BY <1>1, <1>3, <1>4, <1>5
<1>7. (t % 1 = 0 /\ (t \div 1) % v = (e \div 1) % v) <=> (e - t) % w = e % 1
  <2> DEFINE s == 1
  <2>1. s \in Nat \ {0} /\ e % s <= (e - t) % w /\ (e - t) % w < s * v
    BY <1>6
  <2>2. Divides(s * v, w)
    BY <1>2
  <2> HIDE DEF s
  <2>3. \A a, b \in 0 .. w - 1 :
          a % s <= (a - b) % w /\ (a - b) % w < s * v =>
            ((b % s = 0 /\ (b \div s) % v = (a \div s) % v) <=> (a - b) % w = a % s)
    BY <1>1, <2>1, <2>2, IndexMatches, Zenon
  <2>4. (t % s = 0 /\ (t \div s) % v = (e \div s) % v) <=> (e - t) % w = e % s
    BY <1>4, <2>1, <2>3
  <2> QED
    BY <2>4 DEF s
<1> QED
  BY <1>3, <1>4, <1>7 DEF w, v, Dist, FIRST_INDEX

\* So the list that is taken in a tick has none of the nodes that are still to wait.
LEMMA LaterIsElsewhere ==
  ASSUME NEW e \in 0 .. Word - 1, NEW t \in 0 .. Word - 1, NEW p, OnTime(p, e, t), p # Due
  PROVE  p # Root(FIRST_INDEX(t))
<1>1. CASE p = Root(FIRST_INDEX(e)) /\ Dist(e, t) \in 1 .. TVR_SIZE - 1
  <2>1. TVR_SIZE \in Nat
    BY WheelAssumption DEF Geometry
  <2>2. Dist(e, t) < TVR_SIZE /\ Dist(e, t) # 0
    BY <1>1, <2>1
  <2> QED
    BY <1>1, <2>2, RootMatches, PlacesDiffer
<1>2. CASE \E l \in 0 .. Wheels - 1 : p = Tv(l, NTH_INDEX(e, l))
  BY <1>2, PlacesDiffer
<1> QED
  BY <1>1, <1>2 DEF OnTime

\* A node's wheel is cascaded, at the node's list, in one tick: that in which the node is as
\* far away as it is past a multiple of the wheel's step.
LEMMA WheelMatches ==
  ASSUME NEW e \in 0 .. Word - 1, NEW t \in 0 .. Word - 1, NEW level \in 0 .. Wheels - 1,
         e % Span(level) <= Dist(e, t), Dist(e, t) < Span(level + 1)
  PROVE  Cascades(t, level) /\ NTH_INDEX(t, level) = NTH_INDEX(e, level)
           <=> Dist(e, t) = e % Span(level)
<1> DEFINE w == Word
           v == TVN_SIZE
           s == Span(level)
<1>1. w \in Nat \ {0} /\ v \in Nat \ {0} /\ s \in Nat \ {0} /\ Divides(s * v, w)
  <2>1. level \in 0 .. Wheels
    BY WheelAssumption DEF Geometry
  <2> QED
    BY <2>1, Spans, SpansDivide, WheelAssumption DEF Geometry
<1>2. Span(level + 1) = s * v
  BY Spans
<1>3. Cascades(t, level) /\ NTH_INDEX(t, level) = NTH_INDEX(e, level)
        <=> t % s = 0 /\ (t \div s) % v = (e \div s) % v
  BY CascadesAt, Indexes
<1>4. e \in 0 .. w - 1 /\ t \in 0 .. w - 1 /\ e % s <= (e - t) % w /\ (e - t) % w < s * v
  BY <1>2 DEF Dist
<1>5. Dist(e, t) = (e - t) % w
  BY DEF Dist
<1> HIDE DEF w, v, s
<1>6. \A a, b \in 0 .. w - 1 :
        a % s <= (a - b) % w /\ (a - b) % w < s * v =>
          ((b % s = 0 /\ (b \div s) % v = (a \div s) % v) <=> (a - b) % w = a % s)
  BY <1>1, IndexMatches, Zenon
<1>7. (t % s = 0 /\ (t \div s) % v = (e \div s) % v) <=> (e - t) % w = e % s
  BY <1>4, <1>6
<1> QED
  BY <1>3, <1>5, <1>7 DEF s

\* The lowest wheel that covers a distance.
Covers(l, d) == d < Span(l + 1) /\ \A m \in 0 .. l - 1 : ~(d < Span(m + 1))

LEMMA SomeWheelCovers ==
  ASSUME NEW d \in 0 .. Word - 1
  PROVE  \E l \in 0 .. Wheels - 1 : Covers(l, d)
<1> DEFINE Fitting == {l \in 0 .. Wheels - 1 : d < Span(l + 1)}
<1>0. Wheels \in Nat \ {0} /\ Word \in Nat \ {0}
  BY WheelAssumption DEF Geometry
<1>1. Wheels - 1 \in Fitting
  <2>1. (Wheels - 1) + 1 = Wheels /\ Wheels - 1 \in 0 .. Wheels - 1 /\ d < Word
    BY <1>0
  <2> QED
    BY <2>1, Spans
<1>2. PICK l \in Fitting : \A m \in Fitting : l <= m
  <2>1. Fitting \in SUBSET Nat
    BY <1>0
  <2> HIDE DEF Fitting
  <2> QED
    BY <1>1, <2>1, LeastElement
<1>3. ASSUME NEW m \in 0 .. l - 1 PROVE ~(d < Span(m + 1))
  <2>1. m \in 0 .. Wheels - 1 /\ ~(l <= m)
    BY <1>0, <1>2
  <2> QED
    BY <1>2, <2>1
<1> QED
  BY <1>2, <1>3 DEF Covers

LEMMA SlotIs ==
  ASSUME NEW e \in 0 .. Word - 1, NEW c \in 0 .. Word - 1
  PROVE  /\ Dist(e, c) < TVR_SIZE => Slot(e, c) = Root(FIRST_INDEX(e))
         /\ ~(Dist(e, c) < TVR_SIZE) =>
              \E l \in 0 .. Wheels - 1 : /\ Covers(l, Dist(e, c))
                                         /\ Slot(e, c) = Tv(l, NTH_INDEX(e, l))
<1> DEFINE level == CHOOSE n \in 0 .. Wheels - 1 : Covers(n, Dist(e, c))
<1>1. Slot(e, c) = IF Dist(e, c) < TVR_SIZE THEN Root(FIRST_INDEX(e))
                   ELSE Tv(level, NTH_INDEX(e, level))
  BY Zenon DEF Slot, Dist, Covers, Span
<1>2. level \in 0 .. Wheels - 1 /\ Covers(level, Dist(e, c))
  BY DistType, SomeWheelCovers
<1> HIDE DEF level
<1> QED
  BY <1>1, <1>2

\* _cotw_add links a node where it is found in time.
LEMMA SlotOnTime ==
  ASSUME NEW e \in 0 .. Word - 1, NEW c \in 0 .. Word - 1, Dist(e, c) # 0
  PROVE  OnTime(Slot(e, c), e, c)
<1>0. Dist(e, c) \in 0 .. Word - 1 /\ Word \in Nat /\ TVR_SIZE \in Nat /\ Wheels \in Nat \ {0}
  BY DistType, WheelAssumption DEF Geometry
<1>1. CASE Dist(e, c) < TVR_SIZE
  <2>1. Dist(e, c) \in 1 .. TVR_SIZE - 1
    BY <1>0, <1>1
  <2> QED
    BY <1>1, <2>1, SlotIs DEF OnTime
<1>2. CASE ~(Dist(e, c) < TVR_SIZE)
  <2>1. PICK l \in 0 .. Wheels - 1 : /\ Covers(l, Dist(e, c))
                                     /\ Slot(e, c) = Tv(l, NTH_INDEX(e, l))
    BY <1>2, SlotIs
  <2>2. l \in 0 .. Wheels /\ Span(l) \in Nat \ {0}
    BY <1>0, Spans
  <2>3. ~(Dist(e, c) < Span(l))
    <3>1. CASE l = 0
      BY <1>2, <3>1, Spans
    <3>2. CASE l # 0
      <4>1. l - 1 \in 0 .. l - 1 /\ (l - 1) + 1 = l
        BY <2>1, <3>2
      <4> QED
        BY <2>1, <4>1 DEF Covers
    <3> QED
      BY <3>1, <3>2
  <2>4. e % Span(l) \in 0 .. Span(l) - 1
    <3>1. e \in Int
      BY <1>0
    <3> QED
      BY <2>2, <3>1, Division
  <2>5. e % Span(l) < Dist(e, c)
    BY <1>0, <2>2, <2>3, <2>4
  <2> QED
    BY <2>1, <2>5 DEF OnTime, Covers
<1> QED
  BY <1>1, <1>2

LEMMA SlotIsList ==
  ASSUME NEW e, NEW c
  PROVE  Slot(e, c) # Due /\ Slot(e, c) # None
<1>1. (\E i : Slot(e, c) = Root(i)) \/ (\E l, i : Slot(e, c) = Tv(l, i))
  BY DEF Slot
<1> QED
  BY <1>1, PlacesDiffer

\* What a wheel does not cover by itself goes to one below.
LEMMA SlotIsBelow ==
  ASSUME NEW e \in 0 .. Word - 1, NEW c \in 0 .. Word - 1, NEW level \in 0 .. Wheels - 1,
         Dist(e, c) < Span(level),
         NEW m \in level .. Wheels - 1, NEW i
  PROVE  Slot(e, c) # Tv(m, i)
<1>0. Wheels \in Nat \ {0}
  BY WheelAssumption DEF Geometry
<1>1. CASE Dist(e, c) < TVR_SIZE
  BY <1>1, SlotIs, PlacesDiffer
<1>2. CASE ~(Dist(e, c) < TVR_SIZE)
  <2>1. PICK l \in 0 .. Wheels - 1 : /\ Covers(l, Dist(e, c))
                                     /\ Slot(e, c) = Tv(l, NTH_INDEX(e, l))
    BY <1>2, SlotIs
  <2>2. level # 0
    BY <1>2, Spans
  <2>3. l < level
    <3>1. SUFFICES ASSUME ~(l < level) PROVE FALSE
      OBVIOUS
    <3>2. level - 1 \in 0 .. l - 1 /\ (level - 1) + 1 = level
      BY <1>0, <2>2, <3>1
    <3> QED
      BY <2>1, <3>2 DEF Covers
  <2>4. l # m
    BY <1>0, <2>3
  <2> QED
    BY <2>1, <2>4, PlacesDiffer
<1> QED
  BY <1>1, <1>2

-----------------------------------------------------------------------------
(* A tick.                                                                 *)

\* A node in p is linked anew when wheel m is cascaded in tick t.
Hit(p, t, m) == Cascades(t, m) /\ p = Tv(m, NTH_INDEX(t, m))

\* The wheels are cascaded from the lowest up, so that a node which only ever goes down
\* is linked anew once.
LEMMA CascadedIs ==
  ASSUME NEW t,
         place = [n \in Node |-> place[n]],
         \A n \in Node, m \in 0 .. Wheels - 1 : Hit(place[n], t, m) =>
           \A k \in m .. Wheels - 1, i \in Int : Slot(expire[n], t) # Tv(k, i),
         \A l \in 0 .. Wheels - 1 : NTH_INDEX(t, l) \in Int
  PROVE  \A n \in Node :
           Cascaded(t)[n] = IF \E m \in 0 .. Wheels - 1 : Hit(place[n], t, m)
                            THEN Slot(expire[n], t) ELSE place[n]
<1> DEFINE Step(l, x) ==
             [n \in Node |->
                IF /\ Cascades(t, l - 1)
                   /\ x[n] = Tv(l - 1, NTH_INDEX(t, l - 1))
                THEN Slot(expire[n], t)
                ELSE x[n]]
           IsAfter(f, m) == f = [l \in 0 .. m |-> IF l = 0 THEN place ELSE Step(l, f[l - 1])]
           after == CHOOSE f : IsAfter(f, Wheels)
<1>0. Wheels \in Nat \ {0}
  BY WheelAssumption DEF Geometry
<1>1. Cascaded(t) = after[Wheels]
  BY DEF Cascaded
<1>2. \A l, x : \A n \in Node : Step(l, x)[n] = IF Hit(x[n], t, l - 1) THEN Slot(expire[n], t)
                                               ELSE x[n]
  BY DEF Hit
<1> HIDE DEF Step
<1>3. \A m \in Nat : \E f : IsAfter(f, m)
  <2> DEFINE Bad == {m \in Nat : ~\E f : IsAfter(f, m)}
  <2>1. SUFFICES ASSUME Bad # {} PROVE FALSE
    OBVIOUS
  <2>2. PICK m \in Bad : \A y \in Bad : m <= y
    <3>1. Bad \in SUBSET Nat
      OBVIOUS
    <3> HIDE DEF Bad
    <3> QED
      BY <2>1, <3>1, LeastElement
  <2>3. m # 0
    <3>1. IsAfter([l \in 0 .. 0 |-> place], 0)
      OBVIOUS
    <3> QED
      BY <2>2, <3>1
  <2>4. PICK f : IsAfter(f, m - 1)
    <3>1. m - 1 \in Nat /\ ~(m <= m - 1)
      BY <2>2, <2>3
    <3> QED
      BY <2>2, <3>1
  <2> DEFINE g == [l \in 0 .. m |-> IF l = m THEN Step(m, f[m - 1]) ELSE f[l]]
  <2>5. IsAfter(g, m)
    <3>1. ASSUME NEW l \in 0 .. m
          PROVE  g[l] = IF l = 0 THEN place ELSE Step(l, g[l - 1])
      <4>1. CASE l = m
        BY <2>2, <2>3, <4>1
      <4>2. CASE l # m
        <5>1. l \in 0 .. m - 1 /\ (l # 0 => l - 1 \in 0 .. m /\ l - 1 # m)
          BY <2>2, <4>2
        <5> QED
          BY <2>4, <4>2, <5>1
      <4> QED
        BY <4>1, <4>2
    <3> QED
      BY <3>1
  <2> QED
    BY <2>2, <2>5
<1>4. IsAfter(after, Wheels)
  BY <1>0, <1>3
<1> HIDE DEF after
<1> DEFINE Upto(l, n) == IF \E m \in 0 .. l - 1 : Hit(place[n], t, m)
                         THEN Slot(expire[n], t) ELSE place[n]
           Bad == {l \in 0 .. Wheels : \E n \in Node : after[l][n] # Upto(l, n)}
<1>5. Bad = {}
  <2>1. SUFFICES ASSUME Bad # {} PROVE FALSE
    OBVIOUS
  <2>2. PICK l \in Bad : \A y \in Bad : l <= y
    <3>1. Bad \in SUBSET Nat
      BY <1>0
    <3> HIDE DEF Bad
    <3> QED
      BY <2>1, <3>1, LeastElement
  <2>3. l # 0
    <3>1. \A n \in Node : Upto(0, n) = place[n]
      <4>1. 0 .. 0 - 1 = {}
        OBVIOUS
      <4> QED
        BY <4>1
    <3> HIDE DEF Upto
    <3> QED
      BY <1>0, <1>4, <2>2, <3>1
  <2>4. l - 1 \in 0 .. Wheels /\ ~(l <= l - 1) /\ l \in 0 .. Wheels /\ l - 1 \in 0 .. Wheels - 1
    BY <1>0, <2>2, <2>3
  <2>5. after[l] = Step(l, after[l - 1])
    BY <1>4, <2>3, <2>4
  <2>6. \A n \in Node : after[l - 1][n] = Upto(l - 1, n)
    BY <2>2, <2>4
  <2>7. ASSUME NEW n \in Node PROVE after[l][n] = Upto(l, n)
    <3>1. after[l][n] = IF Hit(Upto(l - 1, n), t, l - 1) THEN Slot(expire[n], t)
                        ELSE Upto(l - 1, n)
      <4> HIDE DEF Upto
      <4> QED
        BY <1>2, <2>5, <2>6
    <3>2. CASE \E m \in 0 .. (l - 1) - 1 : Hit(place[n], t, m)
      <4>1. PICK m \in 0 .. (l - 1) - 1 : Hit(place[n], t, m)
        BY <3>2
      <4>2. m \in 0 .. Wheels - 1 /\ l - 1 \in m .. Wheels - 1 /\ m \in 0 .. l - 1
        BY <1>0, <2>4
      <4>3. Slot(expire[n], t) # Tv(l - 1, NTH_INDEX(t, l - 1))
        BY <4>1, <4>2
      <4>4. Upto(l - 1, n) = Slot(expire[n], t) /\ Upto(l, n) = Slot(expire[n], t)
        BY <4>1, <4>2
      <4> HIDE DEF Upto
      <4> QED
        BY <3>1, <4>4
    <3>3. CASE ~\E m \in 0 .. (l - 1) - 1 : Hit(place[n], t, m)
      <4>1. Upto(l - 1, n) = place[n]
        BY <3>3
      <4>2. (\E m \in 0 .. l - 1 : Hit(place[n], t, m)) <=> Hit(place[n], t, l - 1)
        <5>1. 0 .. l - 1 = (0 .. (l - 1) - 1) \cup {l - 1}
          BY <2>4
        <5> QED
          BY <3>3, <5>1
      <4> QED
        BY <3>1, <4>1, <4>2
    <3> QED
      BY <3>2, <3>3
  <2> HIDE DEF Upto
  <2> QED
    BY <2>2, <2>7
<1>6. Wheels \in 0 .. Wheels
  BY <1>0
<1>7. \A n \in Node : after[Wheels][n] = Upto(Wheels, n)
  <2> HIDE DEF Upto
  <2> QED
    BY <1>5, <1>6
<1> QED
  BY <1>1, <1>7

LEMMA IndexType ==
  ASSUME NEW t \in 0 .. Word - 1, NEW l \in 0 .. Wheels - 1
  PROVE  NTH_INDEX(t, l) \in Int
<1>1. t \in Int /\ Span(l) \in Nat \ {0} /\ TVN_SIZE \in Nat \ {0}
  <2>1. l \in 0 .. Wheels
    BY WheelAssumption DEF Geometry
  <2> QED
    BY <2>1, Spans, WheelAssumption DEF Geometry
<1>2. t \div Span(l) \in Int
  BY <1>1, Division
<1>3. (t \div Span(l)) % TVN_SIZE \in Int
  BY <1>1, <1>2, Division
<1> QED
  BY <1>3, Indexes

\* A node that is to wait for more than the next tick is linked anew exactly when the wheel
\* it is in does not tell its tick any more.
LEMMA NodeTicks ==
  ASSUME NEW e \in 0 .. Word - 1, NEW c \in 0 .. Word - 1, NEW t, t = (c + 1) % Word,
         NEW p, OnTime(p, e, c), p # Due,
         NEW q, q = IF \E m \in 0 .. Wheels - 1 : Hit(p, t, m) THEN Slot(e, t) ELSE p
  PROVE  /\ t \in 0 .. Word - 1
         /\ Dist(e, t) = Dist(e, c) - 1
         /\ OnTime(IF q = Root(FIRST_INDEX(t)) THEN Due ELSE q, e, t)
         /\ q # None /\ q # Due
         /\ \A m \in 0 .. Wheels - 1 : Hit(p, t, m) =>
              \A k \in m .. Wheels - 1, i \in Int : Slot(e, t) # Tv(k, i)
<1>0. TVR_SIZE \in Nat \ {0} /\ Wheels \in Nat \ {0} /\ Word \in Nat \ {0}
  BY WheelAssumption DEF Geometry
<1>1. Dist(e, c) \in 0 .. Word - 1 /\ Dist(e, c) # 0
  <2>1. \A l \in 0 .. Wheels - 1 : e % Span(l) \in Nat
    <3> TAKE l \in 0 .. Wheels - 1
    <3>1. e \in Int /\ Span(l) \in Nat \ {0}
      <4>1. l \in 0 .. Wheels
        BY <1>0
      <4> QED
        BY <4>1, Spans
    <3>2. e % Span(l) \in 0 .. Span(l) - 1
      BY <3>1, Division
    <3> QED
      BY <3>1, <3>2
  <2>2. Dist(e, c) \in 0 .. Word - 1
    BY DistType
  <2> QED
    BY <2>1, <2>2, <1>0 DEF OnTime
<1>2. t \in 0 .. Word - 1 /\ Dist(e, t) = Dist(e, c) - 1
  BY <1>1, DistTicks
<1>3. Dist(e, t) \in 0 .. Word - 1
  BY <1>2, DistType
<1>4. CASE p = Root(FIRST_INDEX(e)) /\ Dist(e, c) \in 1 .. TVR_SIZE - 1
  <2>1. \A m \in 0 .. Wheels - 1 : ~Hit(p, t, m)
    BY <1>4, PlacesDiffer DEF Hit
  <2>2. q = p /\ q # None /\ q # Due
    BY <1>4, <2>1, PlacesDiffer
  <2>3. Dist(e, t) < TVR_SIZE
    BY <1>0, <1>2, <1>4
  <2>4. q = Root(FIRST_INDEX(t)) <=> Dist(e, t) = 0
    BY <1>2, <1>4, <2>2, <2>3, RootMatches, PlacesDiffer
  <2>5. Dist(e, t) # 0 => Dist(e, t) \in 1 .. TVR_SIZE - 1
    BY <1>0, <1>3, <2>3
  <2>6. OnTime(IF q = Root(FIRST_INDEX(t)) THEN Due ELSE q, e, t)
    BY <1>4, <2>2, <2>4, <2>5 DEF OnTime
  <2> QED
    BY <1>2, <2>1, <2>2, <2>6
<1>5. ASSUME NEW l \in 0 .. Wheels - 1, p = Tv(l, NTH_INDEX(e, l)),
             e % Span(l) < Dist(e, c), Dist(e, c) < Span(l + 1)
      PROVE  /\ OnTime(IF q = Root(FIRST_INDEX(t)) THEN Due ELSE q, e, t)
             /\ q # None /\ q # Due
             /\ \A m \in 0 .. Wheels - 1 : Hit(p, t, m) =>
                  \A k \in m .. Wheels - 1, i \in Int : Slot(e, t) # Tv(k, i)
  <2>1. /\ Span(l) \in Nat \ {0} /\ Span(l + 1) \in Nat \ {0}
        /\ e % Span(l) \in 0 .. Span(l) - 1
    <3>1. l \in 0 .. Wheels /\ l + 1 \in 0 .. Wheels /\ e \in Int
      BY <1>0
    <3>2. Span(l) \in Nat \ {0} /\ Span(l + 1) \in Nat \ {0}
      BY <3>1, Spans
    <3> QED
      BY <3>1, <3>2, Division
  <2>2. e % Span(l) <= Dist(e, t) /\ Dist(e, t) < Span(l + 1)
    BY <1>1, <1>2, <1>5, <2>1
  <2>3. \A m \in 0 .. Wheels - 1 : Hit(p, t, m) <=> m = l /\ Dist(e, t) = e % Span(l)
    <3>1. Cascades(t, l) /\ NTH_INDEX(t, l) = NTH_INDEX(e, l) <=> Dist(e, t) = e % Span(l)
      BY <1>2, <2>2, WheelMatches
    <3> QED
      BY <1>5, <3>1, PlacesDiffer DEF Hit
  <2>4. \A m \in 0 .. Wheels - 1 : Hit(p, t, m) =>
          \A k \in m .. Wheels - 1, i \in Int : Slot(e, t) # Tv(k, i)
    <3> SUFFICES ASSUME NEW m \in 0 .. Wheels - 1, Hit(p, t, m),
                        NEW k \in m .. Wheels - 1, NEW i \in Int
                 PROVE  Slot(e, t) # Tv(k, i)
      OBVIOUS
    <3>1. m = l /\ Dist(e, t) < Span(l)
      BY <1>3, <2>1, <2>3
    <3> QED
      BY <1>2, <3>1, SlotIsBelow
  <2>5. CASE Dist(e, t) = e % Span(l)
    <3>1. q = Slot(e, t) /\ q # None /\ q # Due
      BY <2>3, <2>5, SlotIsList
    <3>2. CASE Dist(e, t) = 0
      <4>1. Dist(e, t) < TVR_SIZE
        BY <1>0, <3>2
      <4>2. FIRST_INDEX(t) = FIRST_INDEX(e) /\ q = Root(FIRST_INDEX(e))
        BY <1>2, <3>1, <3>2, <4>1, RootMatches, SlotIs
      <4> QED
        BY <2>4, <3>1, <3>2, <4>2 DEF OnTime
    <3>3. CASE Dist(e, t) # 0
      <4>1. OnTime(q, e, t)
        BY <1>2, <3>1, <3>3, SlotOnTime
      <4>2. q # Root(FIRST_INDEX(t))
        BY <1>2, <3>1, <4>1, LaterIsElsewhere
      <4> QED
        BY <2>4, <3>1, <4>1, <4>2
    <3> QED
      BY <3>2, <3>3
  <2>6. CASE Dist(e, t) # e % Span(l)
    <3>1. q = p /\ q # None /\ q # Due
      BY <1>5, <2>3, <2>6, PlacesDiffer
    <3>2. e % Span(l) < Dist(e, t)
      BY <1>3, <2>1, <2>2, <2>6
    <3>3. OnTime(q, e, t) /\ q # Root(FIRST_INDEX(t))
      BY <1>5, <2>2, <3>1, <3>2, PlacesDiffer DEF OnTime
    <3> QED
      BY <2>4, <3>1, <3>3
  <2> QED
    BY <2>5, <2>6
<1> QED
  BY <1>2, <1>4, <1>5 DEF OnTime

-----------------------------------------------------------------------------
(* Every node is in its list, and fires in its tick.                       *)

\* Nodes that are due are left only while their tick is being processed.
PlaceInv ==
  /\ currtick \in 0 .. Word - 1
  /\ expire \in [Node -> 0 .. Word - 1]
  /\ place = [n \in Node |-> place[n]]
  /\ \A n \in Node : place[n] # None => OnTime(place[n], expire[n], currtick)
  /\ pc \in {"idle", "update"} => \A n \in Node : place[n] # Due

LEMMA InitPlace == TWInit => PlaceInv
BY WheelAssumption, PlacesDiffer DEF TWInit, PlaceInv, Geometry

\* A node is set for as many ticks from now as was asked for, at least one.
LEMMA ExpiresIn ==
  ASSUME currtick \in 0 .. Word - 1, NEW ticks \in 0 .. Word - 1
  PROVE  /\ ExpireIn(ticks) \in 0 .. Word - 1
         /\ Dist(ExpireIn(ticks), currtick) = IF ticks > 0 THEN ticks ELSE 1
<1> DEFINE w == Word
           k == IF ticks > 0 THEN ticks ELSE 1
           e == (currtick + k) % w
           z == (currtick + k) \div w
<1>1. w \in Nat \ {0} /\ k \in 1 .. w - 1 /\ currtick \in Int
  <2>1. w \in Nat \ {0, 1}
    <3>1. 0 \in 0 .. Wheels - 1 /\ TVR_SIZE \in Nat \ {0, 1} /\ TVN_SIZE \in Nat \ {0}
          /\ Word \in Nat \ {0}
      BY WheelAssumption DEF Geometry
    <3>2. PICK x \in Nat \ {0} : w = (TVR_SIZE * TVN_SIZE) * x
      BY <3>1, SpansDivide, Spans DEF Divides
    <3> DEFINE r == TVR_SIZE
               y == TVN_SIZE * x
    <3>3. r \in Nat \ {0, 1} /\ y \in Nat \ {0} /\ w = r * y
      <4>1. (TVR_SIZE * TVN_SIZE) * x = TVR_SIZE * (TVN_SIZE * x)
        BY <3>1
      <4> QED
        BY <3>1, <3>2, <4>1
    <3>4. w \in Nat
      BY <3>1
    <3> HIDE DEF r, y, w
    <3>5. r * y >= r
      BY <3>3
    <3> QED
      BY <3>3, <3>4, <3>5
  <2> QED
    BY <2>1
<1> HIDE DEF w, k
<1>2. e \in 0 .. w - 1 /\ z \in Int /\ currtick + k = w * z + e
  <2>1. currtick + k \in Int
    BY <1>1
  <2> QED
    BY <1>1, <2>1, Division
<1>3. (e - currtick) % w = k
  <2> HIDE DEF e, z
  <2>1. w * z \in Int /\ w * (-z) = -(w * z)
    BY <1>1, <1>2
  <2>2. e - currtick = w * (-z) + k /\ -z \in Int /\ e - currtick \in Int /\ k \in 0 .. w - 1
    BY <1>1, <1>2, <2>1
  <2> QED
    BY <1>1, <2>2, DivisionUnique
<1> QED
  BY <1>2, <1>3 DEF Dist, ExpireIn, w, k

\* Linking a node: cotw_add, of a node that is new or that has just fired.
LEMMA LinkedOnTime ==
  ASSUME PlaceInv, NEW n \in Node, NEW ticks \in 0 .. Word - 1,
         expire' = [expire EXCEPT ![n] = ExpireIn(ticks)],
         place' = [place EXCEPT ![n] = Slot(ExpireIn(ticks), currtick)],
         currtick' = currtick, pc' = pc \/ pc' = "callback"
  PROVE  /\ PlaceInv'
         /\ remaining' = [remaining EXCEPT ![n] = IF ticks > 0 THEN ticks ELSE 1]
         /\ (IF ticks > 0 THEN ticks ELSE 1) \in 1 .. Word - 1
<1> DEFINE e == ExpireIn(ticks)
           d == IF ticks > 0 THEN ticks ELSE 1
<1>1. e \in 0 .. Word - 1 /\ Dist(e, currtick) = d /\ d # 0
  BY ExpiresIn, WheelAssumption DEF PlaceInv, Geometry
<1>2. d \in 1 .. Word - 1
  <2>1. Dist(e, currtick) \in 0 .. Word - 1
    BY <1>1, DistType DEF PlaceInv
  <2> QED
    BY <1>1, <2>1
<1>3. OnTime(Slot(e, currtick), e, currtick)
  BY <1>1, SlotOnTime DEF PlaceInv
<1>4. Slot(e, currtick) # Due /\ Slot(e, currtick) # None
  BY SlotIsList
<1> HIDE DEF e, d
<1>5. /\ expire' = [expire EXCEPT ![n] = e] /\ place' = [place EXCEPT ![n] = Slot(e, currtick)]
      /\ expire' \in [Node -> 0 .. Word - 1]
      /\ place' = [m \in Node |-> place'[m]]
      /\ \A m \in Node : /\ place'[m] = IF m = n THEN Slot(e, currtick) ELSE place[m]
                         /\ expire'[m] = IF m = n THEN e ELSE expire[m]
  BY <1>1 DEF PlaceInv, e
<1>6. \A m \in Node : place'[m] # None => OnTime(place'[m], expire'[m], currtick')
  BY <1>3, <1>5 DEF PlaceInv
<1>7. pc' \in {"idle", "update"} => \A m \in Node : place'[m] # Due
  BY <1>4, <1>5 DEF PlaceInv
<1>8. \A m \in Node : (IF place'[m] = None THEN -1 ELSE Dist(expire'[m], currtick'))
                      = IF m = n THEN d ELSE IF place[m] = None THEN -1
                                             ELSE Dist(expire[m], currtick)
  BY <1>1, <1>4, <1>5
<1>9. remaining' = [remaining EXCEPT ![n] = d]
  BY <1>8 DEF remaining, Distance, Dist
<1> QED
  BY <1>2, <1>5, <1>6, <1>7, <1>9 DEF PlaceInv, d

\* Unlinking one: cotw_del, or the loop of _cotw_tick before the callback.
LEMMA UnlinkedOnTime ==
  ASSUME PlaceInv, NEW n \in Node,
         expire' = [expire EXCEPT ![n] = 0], place' = [place EXCEPT ![n] = None],
         currtick' = currtick, pc' = pc \/ pc' = "callback"
  PROVE  /\ PlaceInv'
         /\ remaining' = [remaining EXCEPT ![n] = -1]
<1>1. /\ expire' \in [Node -> 0 .. Word - 1]
      /\ place' = [m \in Node |-> place'[m]]
      /\ \A m \in Node : /\ place'[m] = IF m = n THEN None ELSE place[m]
                         /\ expire'[m] = IF m = n THEN 0 ELSE expire[m]
  BY WheelAssumption DEF PlaceInv, Geometry
<1>2. PlaceInv'
  BY <1>1, PlacesDiffer DEF PlaceInv
<1>3. remaining' = [remaining EXCEPT ![n] = -1]
  BY <1>1 DEF remaining, Distance
<1> QED
  BY <1>2, <1>3

LEMMA OthersOnTime ==
  ASSUME PlaceInv, UNCHANGED <<currtick, expire, place>>,
         pc' \in {"idle", "update"} => \A n \in Node : place[n] # Due
  PROVE  PlaceInv' /\ UNCHANGED remaining
BY DEF PlaceInv, remaining, Distance

\* A tick brings every node one tick closer, and takes those that are due.
LEMMA TickOnTime ==
  ASSUME PlaceInv, _cotw_tick
  PROVE  /\ PlaceInv'
         /\ \A n \in Node : place'[n] = None <=> place[n] = None
         /\ \A n \in Node : remaining[n] # 0
         /\ remaining' = [n \in Node |-> IF remaining[n] = -1 THEN -1 ELSE remaining[n] - 1]
<1> DEFINE t == (currtick + 1) % Word
           now == Cascaded(t)
<1>1. /\ currtick' = t /\ expire' = expire /\ pc' = "tick"
      /\ place' = [n \in Node |-> IF now[n] = Root(FIRST_INDEX(t)) THEN Due ELSE now[n]]
      /\ \A n \in Node : place[n] # Due
  BY DEF _cotw_tick, PlaceInv
<1>2. currtick \in 0 .. Word - 1 /\ Word \in Nat \ {0}
  BY WheelAssumption DEF PlaceInv, Geometry
<1>3. t \in 0 .. Word - 1
  <2>1. currtick + 1 \in Int
    BY <1>2
  <2> HIDE DEF now
  <2> QED
    BY <1>2, <2>1, Division
<1> DEFINE Moved(n) == IF \E m \in 0 .. Wheels - 1 : Hit(place[n], t, m)
                       THEN Slot(expire[n], t) ELSE place[n]
<1>4. ASSUME NEW n \in Node, place[n] # None
      PROVE  /\ Dist(expire[n], t) = Dist(expire[n], currtick) - 1
             /\ OnTime(IF Moved(n) = Root(FIRST_INDEX(t)) THEN Due ELSE Moved(n), expire[n], t)
             /\ Moved(n) # None /\ Moved(n) # Due
             /\ \A m \in 0 .. Wheels - 1 : Hit(place[n], t, m) =>
                  \A k \in m .. Wheels - 1, i \in Int : Slot(expire[n], t) # Tv(k, i)
  <2>1. expire[n] \in 0 .. Word - 1 /\ OnTime(place[n], expire[n], currtick) /\ place[n] # Due
    BY <1>1, <1>4 DEF PlaceInv
  <2> HIDE DEF t
  <2>2. t = (currtick + 1) % Word
    BY DEF t
  <2> DEFINE p == place[n]
             e == expire[n]
             q == Moved(n)
  <2>3. q = IF \E m \in 0 .. Wheels - 1 : Hit(p, t, m) THEN Slot(e, t) ELSE p
    OBVIOUS
  <2>4. e \in 0 .. Word - 1 /\ OnTime(p, e, currtick) /\ p # Due
    BY <2>1
  <2> HIDE DEF p, e, q
  <2>5. /\ Dist(e, t) = Dist(e, currtick) - 1
        /\ OnTime(IF q = Root(FIRST_INDEX(t)) THEN Due ELSE q, e, t)
        /\ q # None /\ q # Due
        /\ \A m \in 0 .. Wheels - 1 : Hit(p, t, m) =>
             \A k \in m .. Wheels - 1, i \in Int : Slot(e, t) # Tv(k, i)
    BY <1>2, <2>2, <2>3, <2>4, NodeTicks
  <2> QED
    BY <2>5 DEF p, e, q
<1>5. \A n \in Node : place[n] = None => \A m \in 0 .. Wheels - 1 : ~Hit(place[n], t, m)
  BY PlacesDiffer DEF Hit
<1>6. \A n \in Node : now[n] = Moved(n)
  <2> HIDE DEF t
  <2>1. \A n \in Node, m \in 0 .. Wheels - 1 : Hit(place[n], t, m) =>
          \A k \in m .. Wheels - 1, i \in Int : Slot(expire[n], t) # Tv(k, i)
    BY <1>4, <1>5
  <2>2. \A l \in 0 .. Wheels - 1 : NTH_INDEX(t, l) \in Int
    BY <1>3, IndexType
  <2>3. place = [n \in Node |-> place[n]]
    BY DEF PlaceInv
  <2> QED
    BY <2>1, <2>2, <2>3, CascadedIs
<1> HIDE DEF t, now, Moved
<1>7. \A n \in Node : place[n] = None => Moved(n) = None
  BY <1>5 DEF Moved
<1>8. ASSUME NEW n \in Node
      PROVE  /\ place'[n] = None <=> place[n] = None
             /\ place'[n] # None => OnTime(place'[n], expire'[n], currtick')
  <2>1. CASE place[n] = None
    BY <1>1, <1>6, <1>7, <2>1, PlacesDiffer
  <2>2. CASE place[n] # None
    BY <1>1, <1>4, <1>6, <2>2, PlacesDiffer
  <2> QED
    BY <2>1, <2>2
<1>9. PlaceInv'
  <2>1. place' = [n \in Node |-> place'[n]]
    BY <1>1
  <2> QED
    BY <1>1, <1>3, <1>8, <2>1 DEF PlaceInv
<1>10. \A n \in Node : remaining[n] = IF place[n] = None THEN -1
                                      ELSE Dist(expire[n], currtick)
  BY DEF remaining, Distance, Dist
<1>11. ASSUME NEW n \in Node, place[n] # None
       PROVE  Dist(expire[n], currtick) \in Nat \ {0} /\ Dist(expire[n], t) \in Nat
  <2>1. expire[n] \in 0 .. Word - 1
    BY DEF PlaceInv
  <2>2. Dist(expire[n], currtick) \in 0 .. Word - 1 /\ Dist(expire[n], t) \in 0 .. Word - 1
    BY <1>2, <1>3, <2>1, DistType
  <2> QED
    BY <1>2, <1>4, <1>11, <2>2
<1>12. remaining' = [n \in Node |-> IF place[n] = None THEN -1 ELSE Dist(expire[n], t)]
  BY <1>1, <1>8 DEF remaining, Distance, Dist
<1> QED
  BY <1>4, <1>8, <1>9, <1>10, <1>11, <1>12

\* What is in the list of the tick is due.
DueIsNow == \A n \in Node : place[n] = Due => remaining[n] = 0

LEMMA DueNodes == PlaceInv => DueIsNow
<1> SUFFICES ASSUME PlaceInv, NEW n \in Node, place[n] = Due PROVE remaining[n] = 0
  BY DEF DueIsNow
<1>1. OnTime(Due, expire[n], currtick) /\ place[n] # None
  BY PlacesDiffer DEF PlaceInv
<1>2. Dist(expire[n], currtick) = 0
  BY <1>1, PlacesDiffer DEF OnTime
<1> QED
  BY <1>1, <1>2 DEF remaining, Distance, Dist

\* A step of Countdown, or none.
CDStep == [CD!Next]_<<remaining, [n \in Node |-> 0]>>

LEMMA NextPlace ==
  ASSUME PlaceInv, [TWNext]_twvars
  PROVE  PlaceInv' /\ CDStep
<1>1. ASSUME NEW n \in Node, NEW ticks \in Delays, cotw_add(n, ticks)
      PROVE  PlaceInv' /\ CDStep
  <2>1. ticks \in 0 .. Word - 1
    BY WheelAssumption
  <2> DEFINE d == IF ticks > 0 THEN ticks ELSE 1
  <2>2. /\ PlaceInv' /\ remaining' = [remaining EXCEPT ![n] = d]
        /\ remaining[n] = -1 /\ d \in 1 .. Word - 1
    BY <1>1, <2>1, LinkedOnTime DEF cotw_add, remaining
  <2> HIDE DEF d
  <2>3. remaining'[n] = d /\ remaining \in [Node -> {remaining[m] : m \in Node}]
    BY <2>2 DEF remaining
  <2>4. CD!Set(n)
    <3>1. 0 \in 0 .. Word - 1
      BY WheelAssumption DEF Geometry
    <3>2. [m \in Node |-> 0] = [[m \in Node |-> 0] EXCEPT ![n] = 0]
      OBVIOUS
    <3> QED
      BY <2>2, <2>3, <3>1, <3>2 DEF CD!Set, CD!Off
  <2> QED
    BY <2>2, <2>4 DEF CDStep, CD!Next
<1>2. ASSUME NEW n \in Node, cotw_del(n) PROVE PlaceInv' /\ CDStep
  <2>1. PlaceInv' /\ remaining' = [remaining EXCEPT ![n] = -1]
    BY <1>2, UnlinkedOnTime DEF cotw_del
  <2>2. CD!Cancel(n)
    BY <2>1 DEF CD!Cancel, CD!Off
  <2> QED
    BY <2>1, <2>2 DEF CDStep, CD!Next
<1>3. ASSUME NEW n \in Node, fire(n) PROVE PlaceInv' /\ CDStep
  <2>1. PlaceInv' /\ remaining' = [remaining EXCEPT ![n] = -1]
    BY <1>3, UnlinkedOnTime DEF fire
  <2>2. remaining[n] = 0
    BY <1>3, DueNodes DEF fire, DueIsNow
  <2>3. CD!Fire(n)
    BY <2>1, <2>2 DEF CD!Fire, CD!Due, CD!Off
  <2> QED
    BY <2>1, <2>3 DEF CDStep, CD!Next
<1>4. ASSUME NEW now, cotw_update(now) PROVE PlaceInv' /\ CDStep
  <2>1. PlaceInv' /\ UNCHANGED remaining
    BY <1>4, OthersOnTime DEF cotw_update, wheel, PlaceInv
  <2> QED
    BY <2>1 DEF CDStep
<1>5. ASSUME _cotw_tick PROVE PlaceInv' /\ CDStep
  <2>1. /\ PlaceInv'
        /\ \A n \in Node : remaining[n] # 0
        /\ remaining' = [n \in Node |-> IF remaining[n] = -1 THEN -1 ELSE remaining[n] - 1]
    BY <1>5, TickOnTime
  <2>2. CD!Tick
    BY <2>1 DEF CD!Tick, CD!Due, CD!Off
  <2> QED
    BY <2>1, <2>2 DEF CDStep, CD!Next
<1>6. ASSUME tick_end PROVE PlaceInv' /\ CDStep
  <2>1. PlaceInv' /\ UNCHANGED remaining
    BY <1>6, OthersOnTime DEF tick_end, wheel
  <2> QED
    BY <2>1 DEF CDStep
<1>7. ASSUME update_end PROVE PlaceInv' /\ CDStep
  <2>1. PlaceInv' /\ UNCHANGED remaining
    BY <1>7, OthersOnTime DEF update_end, wheel, PlaceInv
  <2> QED
    BY <2>1 DEF CDStep
<1>8. CASE UNCHANGED twvars
  <2>1. PlaceInv' /\ UNCHANGED remaining
    BY <1>8, OthersOnTime DEF twvars, PlaceInv
  <2> QED
    BY <2>1 DEF CDStep
<1>9. CASE \E n \in Node, ticks \in Delays : cotw_add(n, ticks)
  BY <1>1, <1>9
<1>10. CASE \E n \in Node : cotw_del(n) \/ fire(n)
  BY <1>2, <1>3, <1>10
<1>11. CASE \E s \in Steps : lasttime + s <= MaxTime /\ cotw_update(lasttime + s)
  BY <1>4, <1>11
<1>12. CASE _cotw_tick \/ tick_end \/ update_end
  BY <1>5, <1>6, <1>7, <1>12
<1> QED
  BY <1>8, <1>9, <1>10, <1>11, <1>12 DEF TWNext

\* Every node fires in exactly the tick it was set for, for every geometry of the wheels,
\* through every cascade and every wrap of the counter; a deleted one does not fire.
THEOREM PunctualAlways == TWSpec => Punctual
<1>1. TWInit => CD!Init
  BY DEF TWInit, CD!Init, CD!Off, remaining
<1>2. PlaceInv /\ [TWNext]_twvars => [CD!Next]_<<remaining, [n \in Node |-> 0]>>
  BY NextPlace DEF CDStep
<1>3. PlaceInv /\ [TWNext]_twvars => PlaceInv'
  BY NextPlace
<1> QED
  BY <1>1, <1>2, <1>3, InitPlace, PTL DEF TWSpec, Punctual, CD!Spec, CD!cdvars
=============================================================================
