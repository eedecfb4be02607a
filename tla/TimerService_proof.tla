-------------------------- MODULE TimerService_proof --------------------------
(***************************************************************************)
(* Proofs that timers and the items of the allocator stay in step and that *)
(* every timer fires in its tick, for every size of the wheels, every      *)
(* delay and every size of a block. What TimingWheel_proof shows of the    *)
(* nodes of a wheel is used of the items.                                  *)
(***************************************************************************)
EXTENDS TimerService, SequenceTheorems, TLAPS

-----------------------------------------------------------------------------
(* The allocator. *)

\* The items of the blocks there are.
Allocated == 1 .. nblock * PerBlock

Free == {freeitem[k] : k \in 1 .. Len(freeitem)}

\* Every item of a block is either in use or in the free list, once, and only the
\* released ones have the flag.
AllocInv ==
  /\ nblock \in 0 .. MaxBlocks
  /\ freeitem \in Seq(Item)
  /\ flag \in [Item -> FA!Flags]
  /\ held \subseteq Item
  /\ held \cup Free = Allocated
  /\ FA!HeldIsNotFree
  /\ FA!FreeListSound

LEMMA BlockSizes ==
  ASSUME NEW n \in 0 .. MaxBlocks
  PROVE  /\ n * PerBlock \in Nat
         /\ n * PerBlock <= PerBlock * MaxBlocks
         /\ (n + 1) * PerBlock = n * PerBlock + PerBlock
<1>1. n \in Nat /\ MaxBlocks \in Nat /\ PerBlock \in Nat /\ n <= MaxBlocks
  BY TimerAssumption
<1>2. PICK d \in Nat : MaxBlocks = n + d
  <2>1. MaxBlocks - n \in Nat
    BY <1>1
  <2> QED
    BY <1>1, <2>1
<1>3. PerBlock * (n + d) = n * PerBlock + PerBlock * d
  BY <1>1
<1>4. n * PerBlock \in Nat /\ PerBlock * d \in Nat
  BY <1>1
<1> QED
  BY <1>1, <1>2, <1>3, <1>4

\* The items of a new block, last first.
LEMMA NewBlockItems ==
  ASSUME AllocInv, nblock < MaxBlocks
  PROVE  /\ FA!NewBlock \in Seq(Item)
         /\ Len(FA!NewBlock) = PerBlock
         /\ \A k \in 1 .. PerBlock : FA!NewBlock[k] = nblock * PerBlock + PerBlock + 1 - k
         /\ nblock * PerBlock + PerBlock <= PerBlock * MaxBlocks
<1>1. nblock + 1 \in 0 .. MaxBlocks /\ nblock \in 0 .. MaxBlocks
  BY TimerAssumption DEF AllocInv
<1>2. /\ nblock * PerBlock \in Nat
      /\ (nblock + 1) * PerBlock = nblock * PerBlock + PerBlock
      /\ (nblock + 1) * PerBlock <= PerBlock * MaxBlocks
  BY <1>1, BlockSizes
<1>3. PerBlock \in Nat /\ PerBlock * MaxBlocks \in Nat
  BY TimerAssumption
<1>4. FA!NewBlock = [k \in 1 .. PerBlock |-> nblock * PerBlock + PerBlock + 1 - k]
  BY <1>2 DEF FA!NewBlock
<1>5. \A k \in 1 .. PerBlock : nblock * PerBlock + PerBlock + 1 - k \in Item
  BY <1>2, <1>3 DEF Item
<1> QED
  BY <1>2, <1>3, <1>4, <1>5

\* What the free list is made of when an item is taken.
LEMMA AvailableItems ==
  ASSUME AllocInv, FA!CanAlloc
  PROVE  /\ FA!Available \in Seq(Item) \ {<<>>}
         /\ \A j, k \in 1 .. Len(FA!Available) : FA!Available[j] = FA!Available[k] => j = k
         /\ \A k \in 1 .. Len(FA!Available) : FA!Available[k] \notin held
         /\ FA!Available # <<>>
<1>1. CASE freeitem # <<>>
  BY <1>1 DEF AllocInv, FA!Available, FA!FreeListSound
<1>2. CASE freeitem = <<>>
  <2>1. nblock < MaxBlocks /\ FA!Available = FA!NewBlock
    BY <1>2 DEF FA!CanAlloc, FA!Available
  <2>2. /\ FA!NewBlock \in Seq(Item)
        /\ Len(FA!NewBlock) = PerBlock
        /\ \A k \in 1 .. PerBlock : FA!NewBlock[k] = nblock * PerBlock + PerBlock + 1 - k
    BY <2>1, NewBlockItems
  <2>3. held \subseteq 1 .. nblock * PerBlock
    BY DEF AllocInv, Allocated
  <2>4. nblock * PerBlock \in Nat /\ PerBlock \in Nat \ {0}
    BY TimerAssumption, BlockSizes DEF AllocInv
  <2>5. FA!NewBlock # <<>>
    BY <2>2, <2>4
  <2> HIDE DEF AllocInv
  <2> QED
    BY <2>1, <2>2, <2>3, <2>4, <2>5
<1> QED
  BY <1>1, <1>2

\* The item that is taken leaves the free list, whose other items stay.
LEMMA TakeItem ==
  ASSUME AllocInv, FA!cofalloc_newitem
  PROVE  AllocInv' /\ held' = held \cup {FA!NewItem} /\ FA!NewItem \in Item \ held
<1> DEFINE av == FA!Available
<1>1. /\ av \in Seq(Item) /\ av # <<>>
      /\ \A j, k \in 1 .. Len(av) : av[j] = av[k] => j = k
      /\ \A k \in 1 .. Len(av) : av[k] \notin held
  BY AvailableItems DEF FA!cofalloc_newitem
<1>2. FA!NewItem = av[1] /\ 1 \in 1 .. Len(av) /\ av[1] \in Item
  BY <1>1 DEF FA!NewItem
<1>3. /\ freeitem' = Tail(av) /\ freeitem' \in Seq(Item) /\ Len(freeitem') = Len(av) - 1
      /\ \A k \in 1 .. Len(freeitem') : freeitem'[k] = av[k + 1] /\ k + 1 \in 1 .. Len(av)
  BY <1>1 DEF FA!cofalloc_newitem
<1>4. held' = held \cup {FA!NewItem} /\ FA!NewItem \in Item \ held
  BY <1>1, <1>2 DEF FA!cofalloc_newitem
<1>5. FA!FreeListSound'
  <2>1. ASSUME NEW j \in 1 .. Len(freeitem'), NEW k \in 1 .. Len(freeitem'),
               freeitem'[j] = freeitem'[k]
        PROVE  j = k
    BY <1>1, <1>3, <2>1
  <2>2. ASSUME NEW k \in 1 .. Len(freeitem') PROVE freeitem'[k] \notin held'
    <3>1. k + 1 # 1
      OBVIOUS
    <3> QED
      BY <1>1, <1>2, <1>3, <1>4, <3>1
  <2> QED
    BY <2>1, <2>2 DEF FA!FreeListSound
<1>6. flag' \in [Item -> FA!Flags] /\ FA!HeldIsNotFree'
  <2> DEFINE fresh == {i \in Item : freeitem = <<>> /\ i \in {FA!NewBlock[k] : k \in 1 .. PerBlock}}
             fl == [i \in Item |-> IF i \in fresh THEN "0" ELSE flag[i]]
  <2>1. flag' = [fl EXCEPT ![FA!NewItem] = "data"]
    BY DEF FA!cofalloc_newitem, FA!Filled, FA!Item, Item
  <2>2. fl \in [Item -> FA!Flags] /\ \A i \in Item : fl[i] = "0" \/ fl[i] = flag[i]
    BY DEF AllocInv, FA!Flags
  <2> HIDE DEF fl
  <2>3. flag' \in [Item -> FA!Flags]
    BY <2>1, <2>2 DEF FA!Flags
  <2>4. ASSUME NEW i \in held' PROVE flag'[i] # "FREE_FLAG"
    BY <1>4, <2>1, <2>2, <2>4 DEF AllocInv, FA!HeldIsNotFree, FA!cofalloc_isfree, FA!FREE_FLAG
  <2> QED
    BY <2>3, <2>4 DEF FA!HeldIsNotFree, FA!cofalloc_isfree, FA!FREE_FLAG
<1>7. nblock' \in 0 .. MaxBlocks /\ held' \cup Free' = Allocated'
  <2> DEFINE R == {av[k] : k \in 1 .. Len(av)}
  <2>1. Free' \cup {FA!NewItem} = R
    <3>1. ASSUME NEW k \in 1 .. Len(av) PROVE av[k] \in Free' \cup {FA!NewItem}
      <4>1. CASE k = 1
        BY <1>2, <4>1
      <4>2. CASE k # 1
        <5>1. k - 1 \in 1 .. Len(freeitem') /\ (k - 1) + 1 = k
          BY <1>1, <1>3, <4>2
        <5>2. freeitem'[k - 1] = av[k]
          BY <1>3, <5>1
        <5> QED
          BY <5>1, <5>2 DEF Free
      <4> QED
        BY <4>1, <4>2
    <3>2. ASSUME NEW e \in Free' PROVE e \in R
      BY <1>3 DEF Free
    <3> QED
      BY <1>2, <3>1, <3>2
  <2>2. CASE freeitem # <<>>
    <3>1. R = Free /\ nblock' = nblock
      BY <2>2 DEF FA!cofalloc_newitem, FA!Available, Free
    <3> QED
      BY <1>4, <2>1, <3>1 DEF AllocInv, Allocated
  <2>3. CASE freeitem = <<>>
    <3>1. /\ nblock < MaxBlocks /\ nblock' = nblock + 1 /\ av = FA!NewBlock
      BY <2>3 DEF FA!cofalloc_newitem, FA!Available, FA!CanAlloc
    <3>2. /\ Len(av) = PerBlock
          /\ \A k \in 1 .. PerBlock : av[k] = nblock * PerBlock + PerBlock + 1 - k
      BY <3>1, NewBlockItems
    <3>3. Free = {} /\ held = 1 .. nblock * PerBlock
      <4>1. 1 .. Len(freeitem) = {}
        BY <2>3
      <4>2. Free = {}
        BY <4>1 DEF Free
      <4> QED
        BY <4>2 DEF AllocInv, Allocated
    <3>4. /\ nblock * PerBlock \in Nat /\ PerBlock \in Nat /\ nblock' \in 0 .. MaxBlocks
          /\ nblock' * PerBlock = nblock * PerBlock + PerBlock
      BY <3>1, TimerAssumption, BlockSizes DEF AllocInv
    <3>5. R = nblock * PerBlock + 1 .. nblock * PerBlock + PerBlock
      <4>1. ASSUME NEW e \in nblock * PerBlock + 1 .. nblock * PerBlock + PerBlock
            PROVE  e \in R
        <5>1. nblock * PerBlock + PerBlock + 1 - e \in 1 .. PerBlock
          BY <3>4
        <5>2. av[nblock * PerBlock + PerBlock + 1 - e] = e
          BY <3>2, <3>4, <5>1
        <5> QED
          BY <3>2, <5>1, <5>2
      <4>2. ASSUME NEW k \in 1 .. PerBlock
            PROVE  av[k] \in nblock * PerBlock + 1 .. nblock * PerBlock + PerBlock
        BY <3>2, <3>4
      <4> QED
        BY <3>2, <4>1, <4>2
    <3>6. held' \cup Free' = held \cup R
      BY <1>4, <2>1
    <3>7. Allocated' = 1 .. nblock * PerBlock + PerBlock
      BY <3>4 DEF Allocated
    <3> HIDE DEF R
    <3> QED
      BY <3>3, <3>4, <3>5, <3>6, <3>7
  <2> QED
    BY <2>2, <2>3
<1> QED
  BY <1>3, <1>4, <1>5, <1>6, <1>7 DEF AllocInv

\* An item that is released goes to the head of the free list.
LEMMA ReleaseItem ==
  ASSUME AllocInv, NEW i \in held, FA!cofalloc_freeitem(i)
  PROVE  AllocInv' /\ held' = held \ {i}
<1>1. /\ held' = held \ {i} /\ nblock' = nblock
      /\ freeitem' = <<i>> \o freeitem
      /\ flag' = [flag EXCEPT ![i] = "FREE_FLAG"]
  BY DEF FA!cofalloc_freeitem, FA!FREE_FLAG
<1>2. i \in Item /\ freeitem \in Seq(Item)
  BY DEF AllocInv
<1>3. /\ freeitem' \in Seq(Item) /\ Len(freeitem') = Len(freeitem) + 1
      /\ freeitem'[1] = i
      /\ \A k \in 2 .. Len(freeitem') : freeitem'[k] = freeitem[k - 1]
                                       /\ k - 1 \in 1 .. Len(freeitem)
  BY <1>1, <1>2
<1>4. \A k \in 1 .. Len(freeitem) : freeitem[k] \notin held /\ freeitem[k] # i
  BY DEF AllocInv, FA!FreeListSound
<1>5. FA!FreeListSound'
  <2>1. ASSUME NEW j \in 1 .. Len(freeitem'), NEW k \in 1 .. Len(freeitem'),
               freeitem'[j] = freeitem'[k]
        PROVE  j = k
    <3>1. (j = 1 \/ j \in 2 .. Len(freeitem')) /\ (k = 1 \/ k \in 2 .. Len(freeitem'))
      BY <1>2, <1>3
    <3> QED
      BY <1>2, <1>3, <1>4, <2>1, <3>1 DEF AllocInv, FA!FreeListSound
  <2>2. ASSUME NEW k \in 1 .. Len(freeitem') PROVE freeitem'[k] \notin held'
    <3>1. k = 1 \/ k \in 2 .. Len(freeitem')
      BY <1>2, <1>3
    <3> QED
      BY <1>1, <1>3, <1>4, <3>1
  <2> QED
    BY <2>1, <2>2 DEF FA!FreeListSound
<1>6. flag' \in [Item -> FA!Flags] /\ FA!HeldIsNotFree'
  BY <1>1, <1>2 DEF AllocInv, FA!Flags, FA!FREE_FLAG, FA!HeldIsNotFree, FA!cofalloc_isfree
<1>7. Free' = {i} \cup Free
  <2>1. ASSUME NEW k \in 1 .. Len(freeitem') PROVE freeitem'[k] \in {i} \cup Free
    <3>1. k = 1 \/ k \in 2 .. Len(freeitem')
      BY <1>2, <1>3
    <3> QED
      BY <1>3, <3>1 DEF Free
  <2>2. ASSUME NEW k \in 1 .. Len(freeitem) PROVE freeitem[k] \in Free'
    <3>1. k + 1 \in 2 .. Len(freeitem') /\ k + 1 \in 1 .. Len(freeitem') /\ (k + 1) - 1 = k
      BY <1>2, <1>3
    <3> QED
      BY <1>3, <3>1 DEF Free
  <2>3. i \in Free'
    <3>1. 1 \in 1 .. Len(freeitem')
      BY <1>2, <1>3
    <3> QED
      BY <1>3, <3>1 DEF Free
  <2> QED
    BY <2>1, <2>2, <2>3 DEF Free
<1>8. held' \cup Free' = Allocated'
  BY <1>1, <1>7 DEF AllocInv, Allocated
<1> QED
  BY <1>1, <1>3, <1>5, <1>6, <1>8 DEF AllocInv

-----------------------------------------------------------------------------
(* The wheel: what TimingWheel_proof shows, of the items.                  *)

TWP == INSTANCE TimingWheel_proof WITH Node <- Item

\* The definitions of TimingWheel, by the names of either instance.
LEMMA SameWheel ==
  /\ TW!None = TWP!None /\ TW!Due = TWP!Due
  /\ TW!Word = TWP!Word
  /\ \A e, c : TW!Slot(e, c) = TWP!Slot(e, c)
  /\ \A t : TW!ExpireIn(t) = TWP!ExpireIn(t)
  /\ TW!TWInit <=> TWP!TWInit
  /\ TW!_cotw_tick <=> TWP!_cotw_tick
  /\ TW!remaining = TWP!remaining
  /\ TW!remaining' = TWP!remaining'
<1> USE DEF TW!None, TWP!None, TW!Due, TWP!Due, TW!Word, TWP!Word,
            TW!TVR_SIZE, TWP!TVR_SIZE, TW!TVN_SIZE, TWP!TVN_SIZE,
            TW!Root, TWP!Root, TW!Tv, TWP!Tv,
            TW!FIRST_INDEX, TWP!FIRST_INDEX, TW!NTH_INDEX, TWP!NTH_INDEX
<1>1. \A e, c : TW!Slot(e, c) = TWP!Slot(e, c)
  BY DEF TW!Slot, TWP!Slot
<1>2. \A t : TW!ExpireIn(t) = TWP!ExpireIn(t)
  BY DEF TW!ExpireIn, TWP!ExpireIn
<1>3. TW!_cotw_tick <=> TWP!_cotw_tick
  BY DEF TW!_cotw_tick, TWP!_cotw_tick, TW!Cascaded, TWP!Cascaded, TW!Cascades, TWP!Cascades,
         TW!Slot, TWP!Slot
<1>4. TW!TWInit <=> TWP!TWInit
  BY DEF TW!TWInit, TWP!TWInit
<1>5. TW!remaining = TWP!remaining /\ TW!remaining' = TWP!remaining'
  BY DEF TW!remaining, TWP!remaining, TW!Distance, TWP!Distance
<1> QED
  BY <1>1, <1>2, <1>3, <1>4, <1>5

\* The constants of the service are such as the theorems about the wheel are for.
LEMMA WheelAssumed ==
  /\ TWP!Geometry /\ Interval \in Nat \ {0} /\ Delays \subseteq 0 .. TWP!Word - 1
  /\ Steps \subseteq Nat \ {0} /\ MaxTime \in Nat
BY TimerAssumption DEF TW!Geometry, TWP!Geometry, TW!Word, TWP!Word, TW!TVR_SIZE,
                       TWP!TVR_SIZE, TW!TVN_SIZE, TWP!TVN_SIZE

\* Linking an item, new or from its loop, sets it for as many ticks as was asked for.
LEMMA Linked ==
  ASSUME TWP!PlaceInv, NEW i \in Item, NEW ticks \in 0 .. TW!Word - 1,
         expire' = [expire EXCEPT ![i] = TW!ExpireIn(ticks)],
         place' = [place EXCEPT ![i] = TW!Slot(TW!ExpireIn(ticks), currtick)],
         currtick' = currtick, pc' = pc \/ pc' = "callback"
  PROVE  /\ TWP!PlaceInv'
         /\ TW!remaining' = [TW!remaining EXCEPT ![i] = IF ticks > 0 THEN ticks ELSE 1]
         /\ (IF ticks > 0 THEN ticks ELSE 1) \in 1 .. TW!Word - 1
<1>1. /\ ticks \in 0 .. TWP!Word - 1
      /\ expire' = [expire EXCEPT ![i] = TWP!ExpireIn(ticks)]
      /\ place' = [place EXCEPT ![i] = TWP!Slot(TWP!ExpireIn(ticks), currtick)]
  BY SameWheel
<1>2. /\ TWP!PlaceInv'
      /\ TWP!remaining' = [TWP!remaining EXCEPT ![i] = IF ticks > 0 THEN ticks ELSE 1]
      /\ (IF ticks > 0 THEN ticks ELSE 1) \in 1 .. TWP!Word - 1
  BY <1>1, WheelAssumed, TWP!LinkedOnTime
<1> QED
  BY <1>2, SameWheel

LEMMA Unlinked ==
  ASSUME TWP!PlaceInv, NEW i \in Item,
         expire' = [expire EXCEPT ![i] = 0], place' = [place EXCEPT ![i] = TW!None],
         currtick' = currtick, pc' = pc \/ pc' = "callback"
  PROVE  /\ TWP!PlaceInv'
         /\ TW!remaining' = [TW!remaining EXCEPT ![i] = -1]
<1>1. place' = [place EXCEPT ![i] = TWP!None]
  BY SameWheel
<1>2. TWP!PlaceInv' /\ TWP!remaining' = [TWP!remaining EXCEPT ![i] = -1]
  BY <1>1, WheelAssumed, TWP!UnlinkedOnTime
<1> QED
  BY <1>2, SameWheel

LEMMA Untouched ==
  ASSUME TWP!PlaceInv, UNCHANGED <<currtick, expire, place>>,
         pc' \in {"idle", "update"} => \A i \in Item : place[i] # TW!Due
  PROVE  TWP!PlaceInv' /\ UNCHANGED TW!remaining
<1>1. pc' \in {"idle", "update"} => \A i \in Item : place[i] # TWP!Due
  BY SameWheel
<1>2. TWP!PlaceInv' /\ UNCHANGED TWP!remaining
  BY <1>1, WheelAssumed, TWP!OthersOnTime
<1> QED
  BY <1>2, SameWheel

LEMMA Ticked ==
  ASSUME TWP!PlaceInv, TW!_cotw_tick
  PROVE  /\ TWP!PlaceInv'
         /\ \A i \in Item : place'[i] = TW!None <=> place[i] = TW!None
         /\ \A i \in Item : TW!remaining[i] # 0
         /\ TW!remaining' = [i \in Item |-> IF TW!remaining[i] = -1 THEN -1
                                            ELSE TW!remaining[i] - 1]
<1>1. TWP!_cotw_tick
  BY SameWheel
<1>2. /\ TWP!PlaceInv'
      /\ \A i \in Item : place'[i] = TWP!None <=> place[i] = TWP!None
      /\ \A i \in Item : TWP!remaining[i] # 0
      /\ TWP!remaining' = [i \in Item |-> IF TWP!remaining[i] = -1 THEN -1
                                          ELSE TWP!remaining[i] - 1]
  BY <1>1, WheelAssumed, TWP!TickOnTime
<1> QED
  BY <1>2, SameWheel

-----------------------------------------------------------------------------
(* The service.                                                            *)

\* Every node is in its list; every linked node belongs to an item in use, and so does
\* every handle.
IInv ==
  /\ AllocInv
  /\ TWP!PlaceInv
  /\ loop \in [Item -> 0 .. TW!Word - 1]
  /\ LinkedIsHeld
  /\ handles \subseteq held

\* A step of Countdown, or none.
CDStep == [CD!Next]_<<TW!remaining, loop>>

LEMMA PlacesAreItems == TWP!PlaceInv => place = [i \in Item |-> place[i]]
BY DEF TWP!PlaceInv

LEMMA InitIInv == Init => IInv
<1> SUFFICES ASSUME Init PROVE IInv
  OBVIOUS
<1>1. /\ nblock = 0 /\ freeitem = <<>> /\ held = {} /\ handles = {}
      /\ flag = [i \in Item |-> "unset"]
      /\ place = [i \in Item |-> TW!None]
      /\ loop = [i \in Item |-> 0]
  BY DEF Init, TW!TWInit, FA!Init, FA!Item, Item
<1>2. Free = {} /\ Allocated = {}
  <2>1. 0 * PerBlock = 0 /\ Len(freeitem) = 0
    BY <1>1, TimerAssumption
  <2>2. 1 .. Len(freeitem) = {} /\ 1 .. nblock * PerBlock = {}
    BY <1>1, <2>1
  <2> QED
    BY <2>2 DEF Free, Allocated
<1>3. AllocInv
  <2>1. nblock \in 0 .. MaxBlocks /\ freeitem \in Seq(Item) /\ flag \in [Item -> FA!Flags]
    BY <1>1, TimerAssumption DEF FA!Flags
  <2>2. FA!HeldIsNotFree /\ FA!FreeListSound
    BY <1>1 DEF FA!HeldIsNotFree, FA!FreeListSound
  <2> QED
    BY <1>1, <1>2, <2>1, <2>2 DEF AllocInv
<1>4. TWP!PlaceInv
  BY SameWheel, WheelAssumed, TWP!InitPlace DEF Init
<1>5. loop \in [Item -> 0 .. TW!Word - 1]
  BY <1>1, TimerAssumption DEF TW!Geometry
<1> QED
  BY <1>1, <1>3, <1>4, <1>5 DEF IInv, LinkedIsHeld

LEMMA AllocSame == AllocInv /\ UNCHANGED alloc => AllocInv'
BY DEF AllocInv, alloc, Free, Allocated, FA!HeldIsNotFree, FA!FreeListSound, FA!cofalloc_isfree

\* The node that is linked is that of the item just taken.
LEMMA AddTimer ==
  ASSUME IInv, NEW delay \in Delays, NEW lp \in Loops, cots_add_timer(delay, lp)
  PROVE  IInv' /\ CDStep
<1> DEFINE i == FA!NewItem
           d == IF delay > 0 THEN delay ELSE 1
<1>1. AllocInv' /\ held' = held \cup {i} /\ i \in Item
  BY TakeItem DEF IInv, cots_add_timer
<1>2. /\ place[i] = TW!None
      /\ expire' = [expire EXCEPT ![i] = TW!ExpireIn(delay)]
      /\ place' = [place EXCEPT ![i] = TW!Slot(TW!ExpireIn(delay), currtick)]
      /\ currtick' = currtick /\ pc' = pc
      /\ loop' = [loop EXCEPT ![i] = lp]
  BY DEF cots_add_timer, TW!cotw_add
<1>3. handles' \subseteq held'
  BY <1>1 DEF cots_add_timer, IInv
<1>4. delay \in 0 .. TW!Word - 1 /\ lp \in 0 .. TW!Word - 1
  BY TimerAssumption
<1> HIDE DEF i
<1>5. /\ TWP!PlaceInv' /\ TW!remaining' = [TW!remaining EXCEPT ![i] = d]
      /\ d \in 1 .. TW!Word - 1
  BY <1>1, <1>2, <1>4, Linked DEF IInv
<1>6. IInv'
  <2>1. LinkedIsHeld'
    BY <1>1, <1>2, PlacesAreItems DEF IInv, LinkedIsHeld
  <2>2. loop' \in [Item -> 0 .. TW!Word - 1]
    BY <1>2, <1>4 DEF IInv
  <2> QED
    BY <1>1, <1>3, <1>5, <2>1, <2>2 DEF IInv
<1>7. CD!Set(i)
  <2> HIDE DEF d
  <2>1. TW!remaining[i] = -1 /\ TW!remaining'[i] = d
    <3>1. TW!remaining[i] = -1 /\ TW!remaining = [m \in Item |-> TW!remaining[m]]
      BY <1>1, <1>2 DEF TW!remaining
    <3> QED
      BY <1>1, <1>5, <3>1
  <2>2. loop'[i] = lp /\ loop' = [loop EXCEPT ![i] = loop'[i]]
    BY <1>1, <1>2 DEF IInv
  <2> QED
    BY <1>4, <1>5, <2>1, <2>2 DEF CD!Set, CD!Off
<1> QED
  BY <1>1, <1>6, <1>7 DEF CDStep, CD!Next

\* The node of an item is out of its list before the item is released.
LEMMA DelTimer ==
  ASSUME IInv, NEW i \in handles, cots_del_timer(i)
  PROVE  IInv' /\ CDStep
<1>1. i \in held /\ i \in Item
  BY DEF IInv, AllocInv
<1>2. AllocInv' /\ held' = held \ {i}
  BY <1>1, ReleaseItem DEF IInv, cots_del_timer
<1>3. /\ TWP!PlaceInv' /\ TW!remaining' = [TW!remaining EXCEPT ![i] = -1]
      /\ \A j \in Item : place'[j] # TW!None => place[j] # TW!None /\ j # i
  <2>1. CASE place[i] = TW!None
    <3>1. UNCHANGED <<currtick, expire, place, pc>>
      BY <2>1 DEF cots_del_timer, twheel
    <3>2. pc \in {"idle", "update"} => \A j \in Item : place[j] # TW!Due
      BY SameWheel DEF IInv, TWP!PlaceInv
    <3>3. TWP!PlaceInv' /\ UNCHANGED TW!remaining
      BY <3>1, <3>2, Untouched DEF IInv
    <3>4. TW!remaining = [TW!remaining EXCEPT ![i] = -1]
      BY <1>1, <2>1 DEF TW!remaining
    <3> QED
      BY <2>1, <3>1, <3>3, <3>4
  <2>2. CASE place[i] # TW!None
    <3>1. /\ place' = [place EXCEPT ![i] = TW!None] /\ expire' = [expire EXCEPT ![i] = 0]
          /\ currtick' = currtick /\ pc' = pc
      BY <2>2 DEF cots_del_timer, TW!cotw_del
    <3>2. TWP!PlaceInv' /\ TW!remaining' = [TW!remaining EXCEPT ![i] = -1]
      BY <1>1, <3>1, Unlinked DEF IInv
    <3> QED
      BY <1>1, <3>1, <3>2, PlacesAreItems DEF IInv
  <2> QED
    BY <2>1, <2>2
<1>4. loop' = loop /\ handles' = handles \ {i}
  BY DEF cots_del_timer
<1>5. IInv'
  BY <1>2, <1>3, <1>4 DEF IInv, LinkedIsHeld
<1>6. CD!Cancel(i)
  BY <1>3, <1>4 DEF CD!Cancel, CD!Off
<1> QED
  BY <1>1, <1>5, <1>6 DEF CDStep, CD!Next

\* Inside cots_update nothing is allocated or released, and no node is linked that was not.
LEMMA UpdateIInv ==
  ASSUME IInv, UNCHANGED <<alloc, loop, handles>>, TWP!PlaceInv',
         \A i \in Item : place'[i] # TW!None => place[i] # TW!None
  PROVE  IInv'
<1>1. AllocInv'
  BY AllocSame DEF IInv
<1>2. LinkedIsHeld' /\ handles' \subseteq held'
  BY DEF IInv, LinkedIsHeld, alloc
<1> QED
  BY <1>1, <1>2 DEF IInv

\* A timer that is due starts over or stops.
LEMMA FireTimer ==
  ASSUME IInv, NEW i \in Item, _on_timer(i)
  PROVE  IInv' /\ CDStep
<1>1. /\ place[i] = TW!Due /\ UNCHANGED <<alloc, loop, handles>>
      /\ currtick' = currtick /\ pc' = "callback"
      /\ expire' = [expire EXCEPT ![i] = IF loop[i] = 0 THEN 0 ELSE TW!ExpireIn(loop[i])]
      /\ place' = [place EXCEPT ![i] = IF loop[i] = 0 THEN TW!None
                                      ELSE TW!Slot(TW!ExpireIn(loop[i]), currtick)]
  BY DEF _on_timer
<1>2. loop[i] \in 0 .. TW!Word - 1
  BY DEF IInv
<1> DEFINE d == IF loop[i] = 0 THEN -1 ELSE loop[i]
<1>3. TWP!PlaceInv' /\ TW!remaining' = [TW!remaining EXCEPT ![i] = d]
  <2>1. CASE loop[i] = 0
    BY <1>1, <2>1, Unlinked DEF IInv
  <2>2. CASE loop[i] # 0
    <3>1. (IF loop[i] > 0 THEN loop[i] ELSE 1) = d
      BY <1>2, <2>2
    <3> QED
      BY <1>1, <1>2, <2>2, <3>1, Linked DEF IInv
  <2> QED
    BY <2>1, <2>2
<1>4. place[i] # TW!None
  BY <1>1 DEF TW!Due, TW!None
<1>5. IInv'
  BY <1>1, <1>3, <1>4, UpdateIInv, PlacesAreItems DEF IInv
<1>6. TW!remaining[i] = 0
  <2>1. TWP!DueIsNow
    BY WheelAssumed, TWP!DueNodes DEF IInv
  <2>2. TWP!remaining[i] = 0
    BY <1>1, <2>1, SameWheel DEF TWP!DueIsNow
  <2> QED
    BY <2>2, SameWheel
<1>7. CD!Fire(i)
  BY <1>1, <1>3, <1>6 DEF CD!Fire, CD!Due, CD!Off
<1> QED
  BY <1>5, <1>7 DEF CDStep, CD!Next

LEMMA NextIInv ==
  ASSUME IInv, [Next]_vars
  PROVE  IInv' /\ CDStep
<1>1. ASSUME UNCHANGED <<currtick, expire, place, alloc, loop, handles>>,
             pc' \in {"idle", "update"} => \A i \in Item : place[i] # TW!Due
      PROVE  IInv' /\ CDStep
  <2>1. TWP!PlaceInv' /\ UNCHANGED TW!remaining
    BY <1>1, Untouched DEF IInv
  <2> QED
    BY <1>1, <2>1, UpdateIInv DEF CDStep
<1>2. pc \in {"idle", "update"} => \A i \in Item : place[i] # TW!Due
  BY SameWheel DEF IInv, TWP!PlaceInv
<1>3. CASE User
  BY <1>3, AddTimer, DelTimer DEF User
<1>4. CASE cots_update
  BY <1>1, <1>2, <1>4 DEF cots_update, TW!cotw_update, TW!wheel
<1>5. ASSUME TW!_cotw_tick, UNCHANGED <<alloc, loop, handles>> PROVE IInv' /\ CDStep
  <2>1. /\ TWP!PlaceInv'
        /\ \A i \in Item : place'[i] = TW!None <=> place[i] = TW!None
        /\ \A i \in Item : TW!remaining[i] # 0
        /\ TW!remaining' = [i \in Item |-> IF TW!remaining[i] = -1 THEN -1
                                           ELSE TW!remaining[i] - 1]
    BY <1>5, Ticked DEF IInv
  <2>2. IInv'
    BY <1>5, <2>1, UpdateIInv
  <2>3. CD!Tick
    BY <1>5, <2>1 DEF CD!Tick, CD!Due, CD!Off
  <2> QED
    BY <2>2, <2>3 DEF CDStep, CD!Next
<1>6. ASSUME TW!tick_end \/ TW!update_end, UNCHANGED <<alloc, loop, handles>>
      PROVE  IInv' /\ CDStep
  BY <1>1, <1>2, <1>6 DEF TW!tick_end, TW!update_end, TW!wheel
<1>7. CASE Tick
  BY <1>5, <1>6, <1>7 DEF Tick
<1>8. ASSUME NEW i \in Item, _on_timer(i) PROVE IInv' /\ CDStep
  BY <1>8, FireTimer
<1>9. CASE UNCHANGED vars
  BY <1>1, <1>2, <1>9 DEF vars, twheel
<1> QED
  BY <1>3, <1>4, <1>7, <1>8, <1>9 DEF Next, Updating

THEOREM IInvAlways == Spec => []IInv
<1>1. IInv /\ [Next]_vars => IInv'
  BY NextIInv
<1> QED
  BY <1>1, InitIInv, PTL DEF Spec

\* No list of the wheel contains an item that is not in use, whatever is added and
\* deleted between updates and in the callbacks of a tick.
THEOREM LinkedIsHeldAlways == Spec => []LinkedIsHeld
<1>1. IInv => LinkedIsHeld
  BY DEF IInv
<1> QED
  BY <1>1, IInvAlways, PTL

\* Every handle that was not passed to cots_del_timer denotes a timer that can be
\* deleted, and the free list never links an item twice or one in use.
THEOREM HandlesUsableAlways == Spec => []HandlesUsable
<1>1. IInv => HandlesUsable
  BY DEF IInv, AllocInv, HandlesUsable
<1> QED
  BY <1>1, IInvAlways, PTL

\* The allocator neither loses nor duplicates an item: those of its blocks are the ones
\* in use and the ones in the free list, and these are different.
Accounted == held \cup Free = Allocated /\ held \cap Free = {}

THEOREM NoItemLost == Spec => []Accounted
<1>1. IInv => Accounted
  BY DEF IInv, AllocInv, Accounted, FA!FreeListSound, Free
<1> QED
  BY <1>1, IInvAlways, PTL

\* Every timer fires in exactly the tick it was set for, and every loop from then on,
\* until it is deleted, for every geometry of the wheel and size of the blocks, whatever
\* the callbacks of a tick add and delete.
THEOREM PeriodicAlways == Spec => Periodic
<1>1. Init => CD!Init
  BY DEF Init, TW!TWInit, CD!Init, CD!Off, TW!remaining
<1>2. IInv /\ [Next]_vars => [CD!Next]_<<TW!remaining, loop>>
  BY NextIInv DEF CDStep
<1> QED
  BY <1>1, <1>2, IInvAlways, PTL DEF Spec, Periodic, CD!Spec, CD!cdvars
=============================================================================
