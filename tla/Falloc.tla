------------------------------- MODULE Falloc -------------------------------
(***************************************************************************)
(* The fixed-size allocator of src/co_falloc.c: blocks of items, a free    *)
(* list through the items, and a flag in each item that tells whether it   *)
(* was released. The flag lies inside the memory handed to the user: what  *)
(* the user writes to an item may or may not cover it.                     *)
(***************************************************************************)
EXTENDS Integers, Sequences

CONSTANTS PerBlock,      \* items of a block
          MaxBlocks,     \* bound: blocks the program allocates
          CoversFlag     \* the user's data covers the flag (offset 8) of an item

VARIABLES nblock,        \* blocks allocated
          freeitem,      \* alloc->freeitem: the free list, its head first
          flag,          \* item->flag of every item
          held           \* items handed out and not released since

favars == <<nblock, freeitem, flag, held>>

Item == 1 .. PerBlock * MaxBlocks

FREE_FLAG == "FREE_FLAG"
Flags == {"unset", "0", "data", FREE_FLAG}

\* The items of a new block: each is put in front of the free list.
NewBlock == [k \in 1 .. PerBlock |-> (nblock + 1) * PerBlock + 1 - k]

CanAlloc == freeitem # <<>> \/ nblock < MaxBlocks

\* The free list cofalloc_newitem takes from, and the item it takes.
Available == IF freeitem = <<>> THEN NewBlock ELSE freeitem
NewItem == Head(Available)

\* Faulty variant: what the user writes never covers the flag.
Filled_FlagKept(fl, i) == fl

\* The flags once the user has filled in item i.
Filled(fl, i) == IF CoversFlag THEN [fl EXCEPT ![i] = "data"] ELSE fl

cofalloc_isfree(i) == flag[i] = FREE_FLAG

Init == /\ nblock = 0
        /\ freeitem = <<>>
        /\ flag = [i \in Item |-> "unset"]
        /\ held = {}

\* cofalloc_newitem, and the user fills in the item. The flag of an item that was
\* released before is not cleared.
cofalloc_newitem ==
  /\ CanAlloc
  /\ nblock' = IF freeitem = <<>> THEN nblock + 1 ELSE nblock
  /\ LET fresh == {i \in Item : freeitem = <<>> /\ i \in {NewBlock[k] : k \in 1 .. PerBlock}}
     IN  flag' = Filled([i \in Item |-> IF i \in fresh THEN "0" ELSE flag[i]], NewItem)
  /\ freeitem' = Tail(Available)
  /\ held' = held \cup {NewItem}

\* cofalloc_freeitem of an item whose flag is not set; otherwise it answers false.
cofalloc_freeitem(i) ==
  /\ ~cofalloc_isfree(i)
  /\ flag' = [flag EXCEPT ![i] = FREE_FLAG]
  /\ freeitem' = <<i>> \o freeitem
  /\ held' = held \ {i}
  /\ UNCHANGED nblock

Next == cofalloc_newitem \/ \E i \in held : cofalloc_freeitem(i)

Spec == Init /\ [][Next]_favars

-----------------------------------------------------------------------------
\* An item the user holds is not one that was released ("whether the item has been
\* released", co_falloc.h:42), so that it can be released.
HeldIsNotFree == \A i \in held : ~cofalloc_isfree(i)

\* The free list links every item at most once, and none that is in use.
FreeListSound ==
  /\ \A j, k \in 1 .. Len(freeitem) : freeitem[j] = freeitem[k] => j = k
  /\ \A k \in 1 .. Len(freeitem) : freeitem[k] \notin held
=============================================================================
