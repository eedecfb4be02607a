-------------------------------- MODULE Dict --------------------------------
(***************************************************************************)
(* The dictionary of src/co_dict.c: every node is in the chain of a bucket *)
(* and in the list of all nodes, which is what it is iterated by and what  *)
(* the buckets are built from anew when the table is resized. Moving a     *)
(* node to an end of the list makes an LRU cache of it (README.md:7).      *)
(***************************************************************************)
EXTENDS Integers, Sequences, FiniteSets, SequencesExt, Links

CONSTANTS Key, Val,
          Hash,        \* fn_hash
          BucketSizes  \* s_bucketsizes

ASSUME DictAssumption ==
  /\ Hash \in [Key -> Nat]
  /\ BucketSizes \in Seq(Nat \ {0}) /\ BucketSizes # <<>>
  /\ \A i, j \in DOMAIN BucketSizes : i < j => BucketSizes[i] + 1 < BucketSizes[j]

VARIABLES buckets,    \* dict->buckets, from 0 to dict->cap - 1
          nodes,      \* the allocated nodes and their fields
          listhead,
          listtail,
          count

dvars == <<buckets, nodes, listhead, listtail, count>>

-----------------------------------------------------------------------------
cap == Cardinality(DOMAIN buckets)

\* The nodes of a bucket.
Chain(b) == Followed(buckets[b], [n \in DOMAIN nodes |-> nodes[n].next])

Bucket(k) == Hash[k] % cap

\* Where in its bucket's chain a key is, or 0.
Position(k) ==
  LET chain == Chain(Bucket(k))
      found == {i \in DOMAIN chain : nodes[chain[i]].key = k}
  IN  IF found = {} THEN 0 ELSE Min(found)

codict_get(k) == LET i == Position(k) IN IF i = 0 THEN NULL ELSE Chain(Bucket(k))[i]

\* The nodes in the order of the list, as codict_next finds them.
Forward == Followed(listhead, [n \in DOMAIN nodes |-> nodes[n].listnext])

\* The list in reverse, as codict_prev finds it.
Backward == Followed(listtail, [n \in DOMAIN nodes |-> nodes[n].listprev])

-----------------------------------------------------------------------------
\* count >= cap * CODICT_RESIZE_RADIO
Crowded == 4 * count >= 3 * cap

\* The next size, or the last one again.
NewCap ==
  LET larger == {i \in DOMAIN BucketSizes : BucketSizes[i] > cap}
  IN  IF larger = {} THEN BucketSizes[Len(BucketSizes)] ELSE BucketSizes[Min(larger)]

\* The last node of a bucket among the first n nodes of the list, which is the first of
\* its chain when each of them is put in front of its bucket in turn.
LastOf(list, n, b, c) ==
  LET is == {i \in 1 .. n : Hash[nodes[list[i]].key] % c = b}
  IN  IF is = {} THEN NULL ELSE list[Max(is)]

\* node->next of every node after a resize to c buckets.
Rechained(c) ==
  LET list == Forward
      Index(n) == CHOOSE i \in DOMAIN list : list[i] = n
  IN  [n \in DOMAIN nodes |->
         [nodes[n] EXCEPT !.next = LastOf(list, Index(n) - 1, Hash[nodes[n].key] % c, c)]]

\* The buckets after a resize to c of them.
Rebucketed(c) == LET list == Forward
                 IN  [b \in 0 .. c - 1 |-> LastOf(list, Len(list), b, c)]

\* Faulty variant: a full table grows no further, and is emptied.
_check_and_resize_LastDropped ==
  IF Crowded
  THEN [buckets |-> IF NewCap = cap THEN [b \in 0 .. NewCap - 1 |-> NULL]
                    ELSE Rebucketed(NewCap),
        nodes |-> Rechained(NewCap)]
  ELSE [buckets |-> buckets, nodes |-> nodes]

\* What the next codict_set puts a new node into.
_check_and_resize ==
  IF Crowded THEN [buckets |-> Rebucketed(NewCap), nodes |-> Rechained(NewCap)]
  ELSE [buckets |-> buckets, nodes |-> nodes]

\* The list without node n: its neighbours are linked to each other.
Bypassed(n) ==
  LET p == nodes[n].listprev
      x == nodes[n].listnext
  IN  [m \in DOMAIN nodes |->
         [nodes[m] EXCEPT !.listnext = IF m = p THEN x ELSE @,
                          !.listprev = IF m = x THEN p ELSE @]]

-----------------------------------------------------------------------------
DictInit == /\ buckets = [b \in 0 .. BucketSizes[1] - 1 |-> NULL]
            /\ nodes = [n \in {} |-> NULL]
            /\ listhead = NULL
            /\ listtail = NULL
            /\ count = 0

codict_set_existing(k, v) ==
  /\ codict_get(k) # NULL
  /\ nodes' = [nodes EXCEPT ![codict_get(k)].value = v]
  /\ UNCHANGED <<buckets, listhead, listtail, count>>

\* A new node is first in its bucket and last in the list.
codict_set_new(k, v) ==
  /\ codict_get(k) = NULL
  /\ DOMAIN nodes # Node
  /\ LET n == Min(Node \ DOMAIN nodes)     \* CO_MALLOC
         table == _check_and_resize
         b == Hash[k] % Cardinality(DOMAIN table.buckets)
     IN  /\ nodes' = [m \in DOMAIN nodes \cup {n} |->
                        IF m = n
                        THEN [key |-> k, value |-> v, next |-> table.buckets[b],
                              listprev |-> listtail, listnext |-> NULL]
                        ELSE IF m = listtail THEN [table.nodes[m] EXCEPT !.listnext = n]
                        ELSE table.nodes[m]]
         /\ buckets' = [table.buckets EXCEPT ![b] = n]
         /\ listhead' = IF listhead = NULL THEN n ELSE listhead
         /\ listtail' = n
         /\ count' = count + 1

codict_set(k, v) == codict_set_existing(k, v) \/ codict_set_new(k, v)

codict_del(k) ==
  LET i == Position(k)
      n == codict_get(k)
      b == Bucket(k)
  IN  /\ n # NULL
      /\ buckets' = IF i = 1 THEN [buckets EXCEPT ![b] = nodes[n].next] ELSE buckets
      /\ nodes' = [m \in DOMAIN nodes \ {n} |->
                     IF i > 1 /\ m = Chain(b)[i - 1]
                     THEN [Bypassed(n)[m] EXCEPT !.next = nodes[n].next]
                     ELSE Bypassed(n)[m]]
      /\ listhead' = IF listhead = n THEN nodes[n].listnext ELSE listhead
      /\ listtail' = IF listtail = n THEN nodes[n].listprev ELSE listtail
      /\ count' = count - 1

\* Every node of every bucket is freed; the buckets stay.
codict_clear ==
  /\ nodes' = [n \in DOMAIN nodes \ UNION {Range(Chain(b)) : b \in DOMAIN buckets} |-> nodes[n]]
  /\ buckets' = [b \in DOMAIN buckets |-> NULL]
  /\ listhead' = NULL
  /\ listtail' = NULL
  /\ count' = 0

\* Faulty variant: the end the node is taken from stays where it is.
codict_move_head_KeepsTail(n) ==
  /\ listhead # n
  /\ nodes' = [m \in DOMAIN nodes |->
                 IF m = n THEN [nodes[m] EXCEPT !.listprev = NULL, !.listnext = listhead]
                 ELSE IF m = listhead THEN [Bypassed(n)[m] EXCEPT !.listprev = n]
                 ELSE Bypassed(n)[m]]
  /\ listhead' = n
  /\ UNCHANGED <<buckets, listtail, count>>

codict_move_head(n) ==
  /\ listhead # n
  /\ nodes' = [m \in DOMAIN nodes |->
                 IF m = n THEN [nodes[m] EXCEPT !.listprev = NULL, !.listnext = listhead]
                 ELSE IF m = listhead THEN [Bypassed(n)[m] EXCEPT !.listprev = n]
                 ELSE Bypassed(n)[m]]
  /\ listhead' = n
  /\ listtail' = IF listtail = n THEN nodes[n].listprev ELSE listtail
  /\ UNCHANGED <<buckets, count>>

codict_move_tail(n) ==
  /\ listtail # n
  /\ nodes' = [m \in DOMAIN nodes |->
                 IF m = n THEN [nodes[m] EXCEPT !.listnext = NULL, !.listprev = listtail]
                 ELSE IF m = listtail THEN [Bypassed(n)[m] EXCEPT !.listnext = n]
                 ELSE Bypassed(n)[m]]
  /\ listhead' = IF listhead = n THEN nodes[n].listnext ELSE listhead
  /\ listtail' = n
  /\ UNCHANGED <<buckets, count>>

DictNext == \/ \E k \in Key, v \in Val : codict_set(k, v)
            \/ \E k \in Key : codict_del(k)
            \/ codict_clear
            \/ \E n \in DOMAIN nodes : codict_move_head(n) \/ codict_move_tail(n)

DictSpec == DictInit /\ [][DictNext]_dvars

-----------------------------------------------------------------------------
\* Whatever was set, deleted, moved and resized in whatever order: the list holds every
\* node once, in both directions; every node is found by its key; no chain runs into
\* another bucket's; and the table is sparse as long as there is a larger size.
DictSound ==
  /\ Cardinality(DOMAIN nodes) = count
  /\ Len(Forward) = count /\ Range(Forward) = DOMAIN nodes
  /\ Reverse(Backward) = Forward
  /\ \A n \in DOMAIN nodes : codict_get(nodes[n].key) = n
  /\ \A b \in DOMAIN buckets : /\ Len(Chain(b)) <= MaxNodes
                               /\ \A n \in Range(Chain(b)) : Bucket(nodes[n].key) = b
  /\ cap < BucketSizes[Len(BucketSizes)] => 4 * (count - 1) < 3 * cap

\* The entries in the order of the list.
Entries == LET list == Forward
           IN  [i \in DOMAIN list |-> [key |-> nodes[list[i]].key,
                                      value |-> nodes[list[i]].value]]

\* Refinement: the dictionary is a map with an order, whatever bucket a key is in and
\* whenever the table is resized.
Map == INSTANCE LinkedMap WITH entries <- Entries

KeepsMap == Map!Spec
=============================================================================
