-------------------------------- MODULE RbSet --------------------------------
(***************************************************************************)
(* The set of src/co_set.c: a red-black tree whose leaves are one node,    *)
(* set->nil, that is black, is the parent of the root, and is written to   *)
(* like any other node (a deletion sets its parent before the tree is      *)
(* fixed up from there).                                                   *)
(*                                                                         *)
(* The code has every case twice, mirrored; here a side is a parameter.    *)
(* Deleting a node with two children frees another one: its successor,     *)
(* whose data it takes. coset_intersect is at the successor next, which it *)
(* looked up before: `undefined` says that a freed node was used. What the *)
(* loop reads of it is not defined (the free of glibc has overwritten the  *)
(* parent, which comes next): the model stops there.                       *)
(*                                                                         *)
(* Every call takes the step of KeySet, too: `members` is a history        *)
(* variable that says what the calls, with their arguments, should leave.  *)
(***************************************************************************)
EXTENDS Integers, Sequences, FiniteSets, SequencesExt

CONSTANTS Data,        \* what is put in the set: fn_comp is the order of numbers
          OtherSets    \* contents of set2, for union, intersect and minus

ASSUME RbSetAssumption == Data \in SUBSET (Nat \ {0}) /\ OtherSets \subseteq SUBSET Data

VARIABLES tree,        \* root, the nodes and their fields, size
          members,     \* what the calls should have left in the set
          undefined    \* a freed node was used

setvars == <<tree, members, undefined>>

KS == INSTANCE KeySet

-----------------------------------------------------------------------------
Nil == 0               \* set->nil

Sides == {"left", "right"}

Opposite(d) == IF d = "left" THEN "right" ELSE "left"

Empty == [root |-> Nil, size |-> 0,
          node |-> [n \in {Nil} |->
                      [parent |-> Nil, child |-> [d \in Sides |-> Nil],
                       black |-> TRUE, data |-> 0]]]

\* CO_MALLOC: an address that is free.
Fresh(t) == Min(Data \ DOMAIN t.node)

\* Between two calls a node goes by the data it holds: no address outlives a call, and
\* the parent that a deletion left in nil is not read before it is set again.
Renamed(t) ==
  LET Name(n) == t.node[n].data
      Holder(x) == CHOOSE n \in DOMAIN t.node : Name(n) = x
  IN  [root |-> Name(t.root), size |-> t.size,
       node |-> [x \in {Name(n) : n \in DOMAIN t.node} |->
                   LET n == Holder(x)
                   IN  [parent |-> IF x = 0 THEN Nil ELSE Name(t.node[n].parent),
                        child |-> [d \in Sides |-> Name(t.node[n].child[d])],
                        black |-> t.node[n].black, data |-> x]]]

\* The node that holds x, or else the Nil where it would be.
RECURSIVE Find(_, _, _)
Find(t, n, x) == IF n = Nil \/ t.node[n].data = x THEN n
                 ELSE Find(t, t.node[n].child[IF x < t.node[n].data THEN "left" ELSE "right"], x)

_coset_search(t, x) == Find(t, t.root, x)

\* _coset_smallest for side "left", _coset_largest for "right".
RECURSIVE Outermost(_, _, _)
Outermost(t, n, d) == IF t.node[n].child[d] = Nil THEN n
                      ELSE Outermost(t, t.node[n].child[d], d)

RECURSIVE Above(_, _, _)
Above(t, n, d) == LET p == t.node[n].parent
                  IN  IF p # Nil /\ n = t.node[p].child[d] THEN Above(t, p, d) ELSE p

\* _coset_successor for side "right", _coset_predecessor for "left".
Neighbour(t, n, d) == IF t.node[n].child[d] # Nil
                      THEN Outermost(t, t.node[n].child[d], Opposite(d))
                      ELSE Above(t, n, d)

\* coset_begin and coset_next, or coset_end and coset_prev: the nodes from one end on.
RECURSIVE WalkFrom(_, _, _)
WalkFrom(t, n, d) == IF n = Nil THEN <<>> ELSE <<n>> \o WalkFrom(t, Neighbour(t, n, d), d)

Walk(t, d) == IF t.root = Nil THEN <<>> ELSE WalkFrom(t, Outermost(t, t.root, Opposite(d)), d)

-----------------------------------------------------------------------------
\* v takes the place of u under u's parent.
InPlaceOf(t, u, v) ==
  LET p == t.node[u].parent
  IN  IF p = Nil THEN [t EXCEPT !.root = v]
      ELSE [t EXCEPT !.node[p].child[IF u = t.node[p].child["left"] THEN "left" ELSE "right"] = v]

\* Faulty variant: the subtree that changes sides keeps its parent.
Rotated_InnerKept(t, x, d) ==
  LET y == t.node[x].child[Opposite(d)]
      handed == [t EXCEPT !.node[x].child[Opposite(d)] = t.node[y].child[d],
                          !.node[y].parent = t.node[x].parent]
  IN  [InPlaceOf(handed, x, y) EXCEPT !.node[y].child[d] = x, !.node[x].parent = y]

\* _coset_leftrot for side "left", _coset_rightrot for "right".
Rotated(t, x, d) ==
  LET y == t.node[x].child[Opposite(d)]
      inner == t.node[y].child[d]
      handed == [t EXCEPT !.node[x].child[Opposite(d)] = inner,
                          !.node[y].parent = t.node[x].parent]
      placed == InPlaceOf(IF inner = Nil THEN handed ELSE [handed EXCEPT !.node[inner].parent = x],
                          x, y)
  IN  [placed EXCEPT !.node[y].child[d] = x, !.node[x].parent = y]

\* _coset_insert_fixedup: the node c and its parent may both be red.
RECURSIVE InsertFixed(_, _)
InsertFixed(t, c) ==
  LET p == t.node[c].parent
      g == t.node[p].parent
      d == IF p = t.node[g].child["left"] THEN "left" ELSE "right"
      uncle == t.node[g].child[Opposite(d)]
      inside == c = t.node[p].child[Opposite(d)]
      outer == IF inside THEN Rotated(t, p, d) ELSE t
      middle == IF inside THEN c ELSE p
  IN  IF t.node[p].black THEN [t EXCEPT !.node[t.root].black = TRUE]
      ELSE IF ~t.node[uncle].black
      THEN InsertFixed([t EXCEPT !.node[p].black = TRUE, !.node[uncle].black = TRUE,
                                 !.node[g].black = FALSE], g)
      ELSE InsertFixed(Rotated([outer EXCEPT !.node[middle].black = TRUE, !.node[g].black = FALSE],
                               g, Opposite(d)),
                       IF inside THEN p ELSE c)

\* _coset_delete_fixedup: the paths through c lack a black node.
RECURSIVE DeleteFixed(_, _)
DeleteFixed(t, c) ==
  LET p == t.node[c].parent
      d == IF c = t.node[p].child["left"] THEN "left" ELSE "right"
      o == Opposite(d)
      s0 == t.node[p].child[o]
      t1 == IF t.node[s0].black THEN t
            ELSE Rotated([t EXCEPT !.node[s0].black = TRUE, !.node[p].black = FALSE], p, d)
      s1 == t1.node[p].child[o]
      near == t1.node[s1].child[d]
      far == t1.node[s1].child[o]
      t2 == IF t1.node[far].black
            THEN Rotated([t1 EXCEPT !.node[near].black = TRUE, !.node[s1].black = FALSE], s1, o)
            ELSE t1
      s2 == t2.node[p].child[o]
  IN  IF c = t.root \/ ~t.node[c].black THEN [t EXCEPT !.node[c].black = TRUE]
      ELSE IF t1.node[near].black /\ t1.node[far].black
      THEN DeleteFixed([t1 EXCEPT !.node[s1].black = FALSE], p)
      ELSE LET t3 == Rotated([t2 EXCEPT !.node[s2].black = t2.node[p].black,
                                        !.node[p].black = TRUE,
                                        !.node[t2.node[s2].child[o]].black = TRUE], p, d)
           IN  [t3 EXCEPT !.node[t3.root].black = TRUE]

-----------------------------------------------------------------------------
\* Where a new node goes: the last node on the way to it.
RECURSIVE LeafFor(_, _, _, _)
LeafFor(t, n, parent, x) ==
  IF n = Nil THEN parent
  ELSE LeafFor(t, t.node[n].child[IF x < t.node[n].data THEN "left" ELSE "right"], n, x)

\* The tree after coset_add(x).
Added(t, x) ==
  LET n == Fresh(t)
      p == LeafFor(t, t.root, Nil, x)
      node == [m \in DOMAIN t.node \cup {n} |->
                 IF m = n THEN [parent |-> p, child |-> [d \in Sides |-> Nil],
                                black |-> FALSE, data |-> x]
                 ELSE IF m = p /\ p # Nil
                 THEN [t.node[p] EXCEPT !.child[IF x < t.node[p].data THEN "left" ELSE "right"] = n]
                 ELSE t.node[m]]
  IN  IF _coset_search(t, x) # Nil THEN t
      ELSE InsertFixed([root |-> IF p = Nil THEN n ELSE t.root, size |-> t.size + 1,
                        node |-> node], n)

\* Faulty variant: the successor is taken out and its data with it.
Deleted_NotCopied(t, x) ==
  LET curr == _coset_search(t, x)
      two == \A d \in Sides : t.node[curr].child[d] # Nil
      dnode == IF two THEN Outermost(t, t.node[curr].child["right"], "left") ELSE curr
      left == t.node[dnode].child["left"]
      child == IF left # Nil THEN left ELSE t.node[dnode].child["right"]
      moved == InPlaceOf([t EXCEPT !.node[child].parent = t.node[dnode].parent], dnode, child)
      fixed == IF t.node[dnode].black THEN DeleteFixed(moved, child) ELSE moved
  IN  IF curr = Nil THEN t
      ELSE [fixed EXCEPT !.size = @ - 1,
                         !.node = [n \in DOMAIN fixed.node \ {dnode} |-> fixed.node[n]]]

\* The tree after coset_delete(x): the node that is freed is the one that holds x or, if
\* that has two children, its successor, the data of which it takes.
Deleted(t, x) ==
  LET curr == _coset_search(t, x)
      two == \A d \in Sides : t.node[curr].child[d] # Nil
      dnode == IF two THEN Outermost(t, t.node[curr].child["right"], "left") ELSE curr
      left == t.node[dnode].child["left"]
      child == IF left # Nil THEN left ELSE t.node[dnode].child["right"]
      moved == InPlaceOf([t EXCEPT !.node[child].parent = t.node[dnode].parent], dnode, child)
      copied == [moved EXCEPT !.node[curr].data = t.node[dnode].data]
      fixed == IF t.node[dnode].black THEN DeleteFixed(copied, child) ELSE copied
  IN  IF curr = Nil THEN t
      ELSE [fixed EXCEPT !.size = @ - 1,
                         !.node = [n \in DOMAIN fixed.node \ {dnode} |-> fixed.node[n]]]

\* The loop of coset_intersect from node n on. The next node is found before n's data is
\* deleted, and may be the one that was freed.
RECURSIVE Intersected(_, _, _)
Intersected(t, n, other) ==
  IF n = Nil THEN [tree |-> t, undefined |-> FALSE]
  ELSE IF n \notin DOMAIN t.node THEN [tree |-> t, undefined |-> TRUE]
  ELSE Intersected(IF t.node[n].data \in other THEN t ELSE Deleted(t, t.node[n].data),
                   Neighbour(t, n, "right"), other)

\* The loop of coset_clear from node n on.
RECURSIVE Cleared(_, _)
Cleared(t, n) == IF n = Nil THEN t
                 ELSE Cleared(Deleted(t, t.node[n].data), Neighbour(t, n, "right"))

First(t) == IF t.root = Nil THEN Nil ELSE Outermost(t, t.root, "left")

Ascending(S) == SetToSortSeq(S, <)

-----------------------------------------------------------------------------
SetInit == tree = Empty /\ KS!Init /\ undefined = FALSE

Becomes(t) == tree' = Renamed(t) /\ UNCHANGED undefined

coset_add(x) == Becomes(Added(tree, x)) /\ KS!Add(x)

coset_delete(x) == Becomes(Deleted(tree, x)) /\ KS!Delete(x)

coset_union(other) ==
  Becomes(FoldLeft(Added, tree, Ascending(other))) /\ KS!Union(other)

coset_minus(other) ==
  Becomes(FoldLeft(Deleted, tree, Ascending(other))) /\ KS!Minus(other)

coset_intersect(other) ==
  LET result == Intersected(tree, First(tree), other)
  IN  /\ tree' = Renamed(result.tree) /\ undefined' = result.undefined
      /\ KS!Intersect(other)

coset_clear == Becomes(Cleared(tree, First(tree))) /\ KS!Clear

SetNext == /\ ~undefined
           /\ \/ \E x \in Data : coset_add(x) \/ coset_delete(x)
              \/ \E other \in OtherSets : \/ coset_union(other)
                                          \/ coset_minus(other)
                                          \/ coset_intersect(other)
              \/ coset_clear

SetSpec == SetInit /\ [][SetNext]_setvars

-----------------------------------------------------------------------------
Nodes == DOMAIN tree.node \ {Nil}

\* Black nodes from n down along the leftmost path.
RECURSIVE Blacks(_)
Blacks(n) == IF n = Nil THEN 0
             ELSE Blacks(tree.node[n].child["left"]) + (IF tree.node[n].black THEN 1 ELSE 0)

\* After any sequence of operations: the tree is balanced (no red node has a red child, no
\* path has more black nodes than another), children and parents agree, nil is black, and
\* the nodes are met in order in both directions, each of them once. The deletion by which
\* coset_intersect frees the node it needs next leaves such a tree, too.
RedBlack ==
  /\ tree.node[Nil].black /\ tree.node[tree.root].black
  /\ tree.root # Nil => tree.node[tree.root].parent = Nil
  /\ \A n \in Nodes :
       LET left == tree.node[n].child["left"]
           right == tree.node[n].child["right"]
       IN  /\ \A m \in {left, right} \ {Nil} : tree.node[m].parent = n
           /\ tree.node[n].black \/ \A m \in {left, right} : tree.node[m].black
           /\ Blacks(left) = Blacks(right)
  /\ LET walk == Walk(tree, "right")
     IN  /\ Len(walk) = tree.size /\ Range(walk) = Nodes
         /\ Reverse(Walk(tree, "left")) = walk
         /\ \A i \in 2 .. Len(walk) : tree.node[walk[i - 1]].data < tree.node[walk[i]].data

Held == {tree.node[n].data : n \in Nodes}

\* Each call did what it promises with its own argument: the set holds what was added and
\* not deleted, and what union, intersect, minus and clear leave; the search finds that
\* and nothing else. Where coset_intersect has used a freed node, IntersectLeavesCommon
\* is about the rest; until then it has deleted nothing that both sets have.
KeepsSet ==
  /\ members \subseteq Held
  /\ ~undefined => /\ Held = members
                   /\ \A x \in Data : _coset_search(tree, x) # Nil <=> x \in members

\* coset_intersect leaves the intersection, as co_set.h:53-54 names it.
IntersectLeavesCommon == Held = members
=============================================================================
