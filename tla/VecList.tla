------------------------------ MODULE VecList ------------------------------
(***************************************************************************)
(* The two sequences of the library: the vector of src/co_vec.c, which is  *)
(* moved when an item is put into or taken from its middle and enlarged    *)
(* before it is full, and the list of src/co_list.c, of nodes linked both  *)
(* ways. A behavior is that of one of them; `items` is the sequence that   *)
(* it should hold.                                                         *)
(***************************************************************************)
EXTENDS Integers, Sequences, FiniteSets, SequencesExt, Links

CONSTANTS Elem,         \* what is stored
          Garbage,      \* what uninitialised memory holds
          INIT_CAP,     \* the least capacity a vector grows to
          MaxItems      \* bound: items of a vector at a time

ASSUME VecListAssumption == /\ INIT_CAP \in Nat \ {0} /\ MaxItems \in Nat
                            /\ Garbage \notin Elem

VARIABLES form,       \* "vec" or "list"
          items,      \* the sequence that should be there
          vdata,      \* vec->data, from 0 to vec->cap - 1
          vsize,      \* vec->size
          lnodes,     \* the nodes of the list: [prev, next, value]
          lhead,
          ltail

vec == <<vdata, vsize>>
list == <<lnodes, lhead, ltail>>
vlvars == <<form, items, vec, list>>

-----------------------------------------------------------------------------
(* The vector.                                                             *)

vcap == Cardinality(DOMAIN vdata)

\* The data with room for c items: what was there and then garbage.
WithCap(c) == [i \in 0 .. c - 1 |-> IF i < vcap THEN vdata[i] ELSE Garbage]

Double == IF vcap * 2 > INIT_CAP THEN vcap * 2 ELSE INIT_CAP

\* Faulty variant: takes a full vector for one with room.
_check_and_grow_Late == IF vsize > vcap THEN WithCap(Double) ELSE vdata

_check_and_grow == IF vsize + 1 >= vcap THEN WithCap(Double) ELSE vdata

\* An index below zero counts from the end.
At(index) == IF index < 0 THEN vsize + index ELSE index

\* Later items move up by one.
covec_push(index, x) ==
  LET k == At(index)
      grown == _check_and_grow
  IN  /\ form = "vec" /\ k \in 0 .. vsize /\ vsize < MaxItems
      /\ vdata' = [i \in DOMAIN grown |-> IF i = k THEN x
                                          ELSE IF i \in k + 1 .. vsize THEN grown[i - 1]
                                          ELSE grown[i]]
      /\ vsize' = vsize + 1
      /\ items' = InsertAt(items, k + 1, x)
      /\ UNCHANGED <<form, list>>

covec_set(index, x) ==
  LET k == At(index)
  IN  /\ form = "vec" /\ k \in 0 .. vsize - 1
      /\ vdata' = [vdata EXCEPT ![k] = x]
      /\ items' = [items EXCEPT ![k + 1] = x]
      /\ UNCHANGED <<form, vsize, list>>

\* Later items move down by one.
covec_del(index) ==
  LET k == At(index)
  IN  /\ form = "vec" /\ k \in 0 .. vsize - 1
      /\ vdata' = [i \in DOMAIN vdata |-> IF i \in k .. vsize - 2 THEN vdata[i + 1] ELSE vdata[i]]
      /\ vsize' = vsize - 1
      /\ items' = RemoveAt(items, k + 1)
      /\ UNCHANGED <<form, list>>

covec_swap(index1, index2) ==
  LET k == At(index1)
      l == At(index2)
  IN  /\ form = "vec" /\ k \in 0 .. vsize - 1 /\ l \in 0 .. vsize - 1
      /\ vdata' = [vdata EXCEPT ![k] = vdata[l], ![l] = vdata[k]]
      /\ items' = [items EXCEPT ![k + 1] = items[l + 1], ![l + 1] = items[k + 1]]
      /\ UNCHANGED <<form, vsize, list>>

\* Items that are added this way hold what the memory holds.
covec_resize(n) ==
  /\ form = "vec"
  /\ vdata' = IF vcap >= n THEN vdata ELSE WithCap(n)
  /\ vsize' = n
  /\ items' = [i \in 1 .. n |-> IF i <= vsize THEN items[i] ELSE vdata'[i - 1]]
  /\ UNCHANGED <<form, list>>

covec_growcap(c) == /\ form = "vec" /\ c > vcap
                    /\ vdata' = WithCap(c)
                    /\ UNCHANGED <<form, items, vsize, list>>

\* The vector is replaced by a copy, which has no room to spare.
covec_copy == /\ form = "vec"
              /\ vdata' = [i \in 0 .. vsize - 1 |-> vdata[i]]
              /\ UNCHANGED <<form, items, vsize, list>>

covec_clear == /\ form = "vec"
               /\ vdata' = [i \in {} |-> Garbage]
               /\ vsize' = 0
               /\ items' = <<>>
               /\ UNCHANGED <<form, list>>

-----------------------------------------------------------------------------
(* The list.                                                               *)

\* From head to tail, and the other way.
Onward == Followed(lhead, [n \in DOMAIN lnodes |-> lnodes[n].next])
Homeward == Followed(ltail, [n \in DOMAIN lnodes |-> lnodes[n].prev])

\* A new node is linked between two neighbours.
Insert(p, q, x) ==
  LET n == Min(Node \ DOMAIN lnodes)     \* CO_MALLOC
  IN  /\ lnodes' = [m \in DOMAIN lnodes \cup {n} |->
                      IF m = n THEN [prev |-> p, next |-> q, value |-> x]
                      ELSE IF m = p THEN [lnodes[m] EXCEPT !.next = n]
                      ELSE IF m = q THEN [lnodes[m] EXCEPT !.prev = n]
                      ELSE lnodes[m]]
      /\ lhead' = IF lhead = q THEN n ELSE lhead
      /\ ltail' = IF ltail = p THEN n ELSE ltail
      /\ UNCHANGED <<form, vec>>

colist_push_head(x) == /\ form = "list" /\ DOMAIN lnodes # Node
                       /\ Insert(NULL, lhead, x)
                       /\ items' = <<x>> \o items

colist_push_tail(x) == /\ form = "list" /\ DOMAIN lnodes # Node
                       /\ Insert(ltail, NULL, x)
                       /\ items' = Append(items, x)

\* Before or after the i-th node.
colist_push_at(i, x, before) ==
  /\ form = "list" /\ DOMAIN lnodes # Node
  /\ LET node == Onward[i]
     IN  IF before THEN Insert(lnodes[node].prev, node, x) ELSE Insert(node, lnodes[node].next, x)
  /\ items' = InsertAt(items, IF before THEN i ELSE i + 1, x)

\* The i-th node; colist_pop_head and colist_pop_tail take the first and the last.
colist_pop_at(i) ==
  LET node == Onward[i]
      p == lnodes[node].prev
      q == lnodes[node].next
  IN  /\ form = "list"
      /\ lnodes' = [m \in DOMAIN lnodes \ {node} |->
                      [lnodes[m] EXCEPT !.next = IF m = p THEN q ELSE @,
                                        !.prev = IF m = q THEN p ELSE @]]
      /\ lhead' = IF lhead = node THEN q ELSE lhead
      /\ ltail' = IF ltail = node THEN p ELSE ltail
      /\ items' = RemoveAt(items, i)
      /\ UNCHANGED <<form, vec>>

-----------------------------------------------------------------------------
VLInit == /\ form \in {"vec", "list"}
          /\ items = <<>>
          /\ vdata = [i \in {} |-> Garbage]
          /\ vsize = 0
          /\ lnodes = [n \in {} |-> NULL]
          /\ lhead = NULL
          /\ ltail = NULL

VLNext == \/ \E index \in -MaxItems .. MaxItems, x \in Elem : \/ covec_push(index, x)
                                                              \/ covec_set(index, x)
          \/ \E index \in -MaxItems .. MaxItems : covec_del(index)
          \/ \E k, l \in -1 .. MaxItems - 1 : covec_swap(k, l)
          \/ \E n \in 0 .. MaxItems : covec_resize(n) \/ covec_growcap(n)
          \/ covec_copy
          \/ covec_clear
          \/ \E x \in Elem : colist_push_head(x) \/ colist_push_tail(x)
          \/ \E i \in DOMAIN Onward, x \in Elem, before \in BOOLEAN : colist_push_at(i, x, before)
          \/ \E i \in DOMAIN Onward : colist_pop_at(i)

VLSpec == VLInit /\ [][VLNext]_vlvars

-----------------------------------------------------------------------------
\* Whatever was inserted, deleted, moved, resized, copied and enlarged, at whichever end:
\* nothing is stored outside the storage of the vector or overwritten by its neighbour, and
\* the list, followed in either direction, is the sequence that was asked for.
HoldsItems ==
  IF form = "vec"
  THEN vsize <= vcap /\ items = [k \in 1 .. vsize |-> vdata[k - 1]]
  ELSE /\ items = [k \in DOMAIN Onward |-> lnodes[Onward[k]].value]
       /\ Homeward = Reverse(Onward)
       /\ Range(Onward) = DOMAIN lnodes
=============================================================================
