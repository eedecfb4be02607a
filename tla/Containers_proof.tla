---------------------------- MODULE Containers_proof ----------------------------
(***************************************************************************)
(* Proofs about VecList, Dict and WordFilter, for every kind of item and   *)
(* any number of them: a vector keeps the sequence that was asked for      *)
(* within its storage, however it is enlarged, and so does a list of       *)
(* linked nodes, which followed backward is what it is forward; a          *)
(* dictionary is sound and keeps the map with an order that is asked of    *)
(* it, for every hash; a word filter finds the words of the files and      *)
(* calls, as long as no line is cut.                                       *)
(*                                                                         *)
(* Of the vector the invariant says what is in each cell. Of the list it   *)
(* says that some sequence of nodes, none of them twice, is all there are, *)
(* and that the pointers of each node lead to its neighbours in it;        *)
(* FollowedIs shows that following the pointers finds this sequence. The   *)
(* list of a dictionary is such a list, of entries. Of its buckets the     *)
(* invariant says that each has a chain of all nodes whose keys belong     *)
(* there, and ChainsAreBuilt shows that the table built anew from the list *)
(* after a resize has such chains. Of the filter it says that the nodes    *)
(* are a trie with sorted children, which SearchFinds shows to be what a   *)
(* search by halves needs. What the filter's recursive functions return is *)
(* shown by the first argument at which it would not be so (Preserved,     *)
(* Backwards).                                                             *)
(***************************************************************************)
EXTENDS VecList, Dict, WordFilter,
        SequenceTheorems, FiniteSetTheorems, WellFoundedInduction, TLAPS

-----------------------------------------------------------------------------
(* Sequences, element by element. *)

\* x as the i-th element; without the i-th element.
With(s, i, x) == [j \in 1 .. Len(s) + 1 |-> IF j < i THEN s[j]
                                            ELSE IF j = i THEN x
                                            ELSE s[j - 1]]
Without(s, i) == [j \in 1 .. Len(s) - 1 |-> IF j < i THEN s[j] ELSE s[j + 1]]

LEMMA WithIs ==
  ASSUME NEW S, NEW s \in Seq(S), NEW i \in 1 .. Len(s) + 1, NEW x \in S
  PROVE  With(s, i, x) \in Seq(S) /\ Len(With(s, i, x)) = Len(s) + 1
<1>1. Len(s) + 1 \in Nat /\ \A j \in 1 .. Len(s) : s[j] \in S
  OBVIOUS
<1>2. With(s, i, x) \in [1 .. Len(s) + 1 -> S]
  BY <1>1 DEF With
<1> QED
  BY <1>1, <1>2

LEMMA WithoutIs ==
  ASSUME NEW S, NEW s \in Seq(S), NEW i \in 1 .. Len(s)
  PROVE  Without(s, i) \in Seq(S) /\ Len(Without(s, i)) = Len(s) - 1
<1>1. Len(s) - 1 \in Nat /\ \A j \in 1 .. Len(s) : s[j] \in S
  OBVIOUS
<1>2. Without(s, i) \in [1 .. Len(s) - 1 -> S]
  BY <1>1 DEF Without
<1> QED
  BY <1>1, <1>2

LEMMA InsertAtIsWith ==
  ASSUME NEW S, NEW s \in Seq(S), NEW i \in 1 .. Len(s) + 1, NEW x \in S
  PROVE  InsertAt(s, i, x) = With(s, i, x)
<1> DEFINE a == SubSeq(s, 1, i - 1)
           b == <<x>>
           c == SubSeq(s, i, Len(s))
           n == Len(s)
<1>1. n \in Nat /\ i \in Int /\ i - 1 \in Int /\ \A j \in 1 .. n : s[j] \in S
  OBVIOUS
<1>2. /\ a \in Seq(S) /\ Len(a) = i - 1
      /\ \A j \in 1 .. i - 1 : a[j] = s[j]
  <2>1. /\ a \in Seq(S) /\ Len(a) = IF 1 <= i - 1 THEN (i - 1) - 1 + 1 ELSE 0
        /\ \A j \in 1 .. (i - 1) - 1 + 1 : a[j] = s[1 + j - 1]
    BY <1>1, SubSeqProperties
  <2> HIDE DEF a
  <2> QED
    BY <1>1, <2>1
<1>3. /\ c \in Seq(S) /\ Len(c) = n - i + 1
      /\ \A j \in 1 .. n - i + 1 : c[j] = s[i + j - 1]
  <2>1. /\ c \in Seq(S) /\ Len(c) = IF i <= n THEN n - i + 1 ELSE 0
        /\ \A j \in 1 .. n - i + 1 : c[j] = s[i + j - 1]
    BY <1>1, SubSeqProperties
  <2> HIDE DEF c
  <2> QED
    BY <1>1, <2>1
<1>4. b \in Seq(S) /\ Len(b) = 1 /\ b[1] = x
  OBVIOUS
<1> HIDE DEF a, b, c
<1>5. /\ a \o b \in Seq(S) /\ Len(a \o b) = i
      /\ \A j \in 1 .. i : (a \o b)[j] = IF j < i THEN s[j] ELSE x
  <2>1. /\ a \o b \in Seq(S) /\ Len(a \o b) = Len(a) + Len(b)
        /\ \A j \in 1 .. Len(a) + Len(b) :
             (a \o b)[j] = IF j <= Len(a) THEN a[j] ELSE b[j - Len(a)]
    BY <1>2, <1>4, ConcatProperties
  <2>2. Len(a \o b) = i
    BY <1>1, <1>2, <1>4, <2>1
  <2>3. ASSUME NEW j \in 1 .. i PROVE (a \o b)[j] = IF j < i THEN s[j] ELSE x
    <3>1. (a \o b)[j] = IF j <= i - 1 THEN a[j] ELSE b[j - (i - 1)]
      BY <1>1, <1>2, <1>4, <2>1
    <3>2. CASE j < i
      BY <1>1, <1>2, <3>1, <3>2
    <3>3. CASE j = i
      <4>1. j - (i - 1) = 1 /\ ~(j <= i - 1)
        BY <1>1, <3>3
      <4> QED
        BY <1>4, <3>1, <3>3, <4>1
    <3>4. j < i \/ j = i
      BY <1>1
    <3> QED
      BY <3>2, <3>3, <3>4
  <2> QED
    BY <2>1, <2>2, <2>3
<1> DEFINE u == a \o b
           w == u \o c
<1> HIDE DEF u
<1>u. u \in Seq(S) /\ Len(u) = i /\ \A j \in 1 .. i : u[j] = IF j < i THEN s[j] ELSE x
  BY <1>5 DEF u
<1>6. /\ w \in Seq(S) /\ Len(w) = n + 1
      /\ \A j \in 1 .. n + 1 : w[j] = IF j < i THEN s[j] ELSE IF j = i THEN x ELSE s[j - 1]
  <2>1. /\ w \in Seq(S) /\ Len(w) = Len(u) + Len(c)
        /\ \A j \in 1 .. Len(u) + Len(c) :
             w[j] = IF j <= Len(u) THEN u[j] ELSE c[j - Len(u)]
    BY <1>3, <1>u, ConcatProperties
  <2> HIDE DEF w
  <2>2. Len(w) = n + 1
    BY <1>1, <1>3, <1>u, <2>1
  <2>3. ASSUME NEW j \in 1 .. n + 1
        PROVE  w[j] = IF j < i THEN s[j] ELSE IF j = i THEN x ELSE s[j - 1]
    <3>1. w[j] = IF j <= i THEN u[j] ELSE c[j - i]
      BY <1>1, <1>3, <1>u, <2>1
    <3>2. CASE j <= i
      BY <1>1, <1>u, <3>1, <3>2
    <3>3. CASE j > i
      <4>1. j - i \in 1 .. n - i + 1 /\ i + (j - i) - 1 = j - 1
        BY <1>1, <3>3
      <4> QED
        BY <1>1, <1>3, <3>1, <3>3, <4>1
    <3> QED
      BY <1>1, <3>2, <3>3
  <2> QED
    BY <2>1, <2>2, <2>3
<1>7. InsertAt(s, i, x) = w
  BY DEF InsertAt, w, u, a, b, c
<1> HIDE DEF w
<1>8. /\ With(s, i, x) \in Seq(S) /\ Len(w) = Len(With(s, i, x))
      /\ \A j \in 1 .. Len(w) : w[j] = With(s, i, x)[j]
  BY <1>6, WithIs DEF With
<1> QED
  BY <1>6, <1>7, <1>8, SeqEqual

LEMMA RemoveAtIsWithout ==
  ASSUME NEW S, NEW s \in Seq(S), NEW i \in 1 .. Len(s)
  PROVE  RemoveAt(s, i) = Without(s, i)
<1> DEFINE a == SubSeq(s, 1, i - 1)
           c == SubSeq(s, i + 1, Len(s))
           n == Len(s)
           w == a \o c
<1>1. /\ n \in Nat /\ i \in 1 .. n /\ i - 1 \in Int /\ i + 1 \in Int
      /\ \A j \in 1 .. n : s[j] \in S
  OBVIOUS
<1>2. /\ a \in Seq(S) /\ Len(a) = i - 1
      /\ \A j \in 1 .. i - 1 : a[j] = s[j]
  <2>1. /\ a \in Seq(S) /\ Len(a) = IF 1 <= i - 1 THEN (i - 1) - 1 + 1 ELSE 0
        /\ \A j \in 1 .. (i - 1) - 1 + 1 : a[j] = s[1 + j - 1]
    BY <1>1, SubSeqProperties
  <2> HIDE DEF a
  <2> QED
    BY <1>1, <2>1
<1>3. /\ c \in Seq(S) /\ Len(c) = n - i
      /\ \A j \in 1 .. n - i : c[j] = s[i + j]
  <2>1. /\ c \in Seq(S) /\ Len(c) = IF i + 1 <= n THEN n - (i + 1) + 1 ELSE 0
        /\ \A j \in 1 .. n - (i + 1) + 1 : c[j] = s[(i + 1) + j - 1]
    BY <1>1, SubSeqProperties
  <2> HIDE DEF c, n
  <2>2. /\ n - (i + 1) + 1 = n - i /\ (~ (i + 1 <= n) => n - i = 0)
        /\ \A j \in 1 .. n - i : (i + 1) + j - 1 = i + j
    BY <1>1
  <2>3. Len(c) = n - i
    BY <2>1, <2>2
  <2> QED
    BY <2>1, <2>2, <2>3
<1> HIDE DEF a, c
<1>4. /\ w \in Seq(S) /\ Len(w) = n - 1
      /\ \A j \in 1 .. n - 1 : w[j] = IF j < i THEN s[j] ELSE s[j + 1]
  <2>1. /\ w \in Seq(S) /\ Len(w) = Len(a) + Len(c)
        /\ \A j \in 1 .. Len(a) + Len(c) : w[j] = IF j <= Len(a) THEN a[j] ELSE c[j - Len(a)]
    BY <1>2, <1>3, ConcatProperties
  <2> HIDE DEF w
  <2>2. Len(w) = n - 1
    BY <1>1, <1>2, <1>3, <2>1
  <2>3. ASSUME NEW j \in 1 .. n - 1 PROVE w[j] = IF j < i THEN s[j] ELSE s[j + 1]
    <3>1. w[j] = IF j <= i - 1 THEN a[j] ELSE c[j - (i - 1)]
      BY <1>1, <1>2, <1>3, <2>1
    <3>2. CASE j < i
      BY <1>1, <1>2, <3>1, <3>2
    <3>3. CASE ~(j < i)
      <4>1. j - (i - 1) \in 1 .. n - i /\ i + (j - (i - 1)) = j + 1 /\ ~(j <= i - 1)
        BY <1>1, <3>3
      <4> QED
        BY <1>3, <3>1, <3>3, <4>1
    <3> QED
      BY <3>2, <3>3
  <2> QED
    BY <2>1, <2>2, <2>3
<1>5. RemoveAt(s, i) = w
  BY DEF RemoveAt, w, a, c
<1> HIDE DEF w
<1>6. /\ Without(s, i) \in Seq(S) /\ Len(w) = Len(Without(s, i))
      /\ \A j \in 1 .. Len(w) : w[j] = Without(s, i)[j]
  BY <1>4, WithoutIs DEF Without
<1> QED
  BY <1>4, <1>5, <1>6, SeqEqual

\* An element at one of the ends.
LEMMA EndsAreWith ==
  ASSUME NEW S, NEW s \in Seq(S), NEW x \in S
  PROVE  <<x>> \o s = With(s, 1, x) /\ Append(s, x) = With(s, Len(s) + 1, x)
<1> DEFINE u == <<x>> \o s
           v == Append(s, x)
<1>1. /\ Len(s) \in Nat /\ 1 \in 1 .. Len(s) + 1 /\ Len(s) + 1 \in 1 .. Len(s) + 1
      /\ <<x>> \in Seq(S) /\ Len(<<x>>) = 1 /\ <<x>>[1] = x
  OBVIOUS
<1>2. /\ u \in Seq(S) /\ Len(u) = 1 + Len(s)
      /\ \A i \in 1 .. 1 + Len(s) : u[i] = IF i <= 1 THEN <<x>>[i] ELSE s[i - 1]
  BY <1>1, ConcatProperties
<1>3. /\ v \in Seq(S) /\ Len(v) = Len(s) + 1
      /\ \A i \in 1 .. Len(s) : v[i] = s[i]
      /\ v[Len(s) + 1] = x
  BY AppendProperties
<1> HIDE DEF u, v
<1>4. /\ With(s, 1, x) \in Seq(S) /\ Len(With(s, 1, x)) = Len(s) + 1
      /\ With(s, Len(s) + 1, x) \in Seq(S) /\ Len(With(s, Len(s) + 1, x)) = Len(s) + 1
  BY <1>1, WithIs
<1>5. \A i \in 1 .. Len(s) + 1 : u[i] = With(s, 1, x)[i]
  <2> SUFFICES ASSUME NEW i \in 1 .. Len(s) + 1 PROVE u[i] = With(s, 1, x)[i]
    OBVIOUS
  <2>1. CASE i = 1
    BY <1>1, <1>2, <2>1 DEF With
  <2>2. CASE i # 1
    BY <1>1, <1>2, <2>2 DEF With
  <2> QED
    BY <2>1, <2>2
<1>6. \A i \in 1 .. Len(s) + 1 : v[i] = With(s, Len(s) + 1, x)[i]
  BY <1>1, <1>3 DEF With
<1>7. u = With(s, 1, x)
  <2>1. Len(u) = Len(s) + 1
    BY <1>1, <1>2
  <2> QED
    BY <1>2, <1>4, <1>5, <2>1, SeqEqual
<1>8. v = With(s, Len(s) + 1, x)
  BY <1>3, <1>4, <1>6, SeqEqual
<1> QED
  BY <1>7, <1>8 DEF u, v

-----------------------------------------------------------------------------
(* The vector. *)

Cells == Elem \cup {Garbage}

\* The items xs are in the first n of c cells.
InVector(c, d, n, xs) ==
  /\ c \in Nat /\ d \in [0 .. c - 1 -> Cells]
  /\ n \in 0 .. c
  /\ xs \in Seq(Cells) /\ Len(xs) = n
  /\ \A k \in 1 .. n : xs[k] = d[k - 1]

VectorOK == \E c \in Nat : InVector(c, vdata, vsize, items)

LEMMA CellCount ==
  ASSUME NEW c \in Nat, vdata \in [0 .. c - 1 -> Cells]
  PROVE  vcap = c
<1>1. Cardinality(0 .. c - 1) = IF 0 > c - 1 THEN 0 ELSE (c - 1) - 0 + 1
  BY FS_Interval
<1>2. DOMAIN vdata = 0 .. c - 1
  OBVIOUS
<1> QED
  BY <1>1, <1>2 DEF vcap

\* More room changes none of the items.
LEMMA MoreRoom ==
  ASSUME NEW c \in Nat, InVector(c, vdata, vsize, items), NEW c2 \in Nat, c2 >= c
  PROVE  InVector(c2, WithCap(c2), vsize, items)
<1>1. vcap = c
  BY CellCount DEF InVector
<1>2. WithCap(c2) = [i \in 0 .. c2 - 1 |-> IF i < c THEN vdata[i] ELSE Garbage]
  BY <1>1 DEF WithCap
<1>3. /\ c \in Nat /\ vdata \in [0 .. c - 1 -> Cells] /\ vsize \in 0 .. c
      /\ items \in Seq(Cells) /\ Len(items) = vsize
      /\ \A k \in 1 .. vsize : items[k] = vdata[k - 1]
  BY DEF InVector
<1>4. WithCap(c2) \in [0 .. c2 - 1 -> Cells]
  BY <1>2, <1>3 DEF Cells
<1>5. vsize \in 0 .. c2
  BY <1>3
<1>6. ASSUME NEW k \in 1 .. vsize PROVE items[k] = WithCap(c2)[k - 1]
  BY <1>2, <1>3, <1>6
<1> QED
  BY <1>3, <1>4, <1>5, <1>6 DEF InVector

\* The vector is enlarged before it is full.
LEMMA RoomForOne ==
  ASSUME VectorOK
  PROVE  \E c \in Nat : c > vsize /\ InVector(c, _check_and_grow, vsize, items)
<1>1. PICK c \in Nat : InVector(c, vdata, vsize, items)
  BY DEF VectorOK
<1>2. vcap = c /\ vsize \in 0 .. c
  BY <1>1, CellCount DEF InVector
<1>3. CASE vsize + 1 >= vcap
  <2>1. Double \in Nat /\ Double >= c /\ Double > vsize
    BY <1>2, VecListAssumption DEF Double
  <2> HIDE DEF Double
  <2>2. InVector(Double, WithCap(Double), vsize, items)
    BY <1>1, <2>1, MoreRoom
  <2> QED
    BY <1>3, <2>1, <2>2 DEF _check_and_grow
<1>4. CASE ~(vsize + 1 >= vcap)
  BY <1>1, <1>2, <1>4 DEF _check_and_grow
<1> QED
  BY <1>3, <1>4

LEMMA AtType == ASSUME NEW index \in Int, vsize \in Nat PROVE At(index) \in Int
BY DEF At

LEMMA PushKeeps ==
  ASSUME VectorOK, NEW index \in Int, NEW x \in Elem, covec_push(index, x)
  PROVE  VectorOK'
<1> DEFINE k == At(index)
           grown == _check_and_grow
           n == vsize
<1>1. PICK c \in Nat : c > n /\ InVector(c, grown, n, items)
  BY RoomForOne
<1> HIDE DEF grown
<1>2. /\ k \in 0 .. n
      /\ vdata' = [i \in DOMAIN grown |-> IF i = k THEN x
                                          ELSE IF i \in k + 1 .. n THEN grown[i - 1]
                                          ELSE grown[i]]
      /\ vsize' = n + 1
      /\ items' = InsertAt(items, k + 1, x)
  BY DEF covec_push, grown
<1> HIDE DEF k, n
<1>3. /\ n \in Nat /\ k \in Int /\ n < c /\ c \in Nat
      /\ grown \in [0 .. c - 1 -> Cells]
      /\ items \in Seq(Cells) /\ Len(items) = n
      /\ \A j \in 1 .. n : items[j] = grown[j - 1]
  BY <1>1, <1>2 DEF InVector
<1>4. x \in Cells /\ k + 1 \in 1 .. n + 1
  BY <1>2, <1>3 DEF Cells
<1>5. /\ items' = With(items, k + 1, x)
      /\ items' \in Seq(Cells) /\ Len(items') = n + 1
  <2>1. k + 1 \in 1 .. Len(items) + 1
    BY <1>3, <1>4
  <2>2. InsertAt(items, k + 1, x) = With(items, k + 1, x)
    BY <1>3, <1>4, <2>1, InsertAtIsWith
  <2>3. With(items, k + 1, x) \in Seq(Cells) /\ Len(With(items, k + 1, x)) = Len(items) + 1
    <3> DEFINE i == k + 1
    <3>1. items \in Seq(Cells) /\ i \in 1 .. Len(items) + 1 /\ x \in Cells
      BY <1>3, <1>4, <2>1
    <3> HIDE DEF i
    <3>2. With(items, i, x) \in Seq(Cells) /\ Len(With(items, i, x)) = Len(items) + 1
      BY <3>1, WithIs
    <3> QED
      BY <3>2 DEF i
  <2> QED
    BY <1>2, <1>3, <2>2, <2>3
<1>6. vdata' \in [0 .. c - 1 -> Cells]
  <2>1. DOMAIN grown = 0 .. c - 1
    BY <1>3
  <2>2. ASSUME NEW i \in 0 .. c - 1
        PROVE  (IF i = k THEN x
                ELSE IF i \in k + 1 .. n THEN grown[i - 1] ELSE grown[i]) \in Cells
    <3>1. i \in k + 1 .. n => i - 1 \in 0 .. c - 1
      BY <1>2, <1>3
    <3> QED
      BY <1>3, <1>4, <3>1
  <2> QED
    BY <1>2, <2>1, <2>2
<1>7. ASSUME NEW j \in 1 .. n + 1 PROVE items'[j] = vdata'[j - 1]
  <2>1. j - 1 \in 0 .. c - 1 /\ j - 1 \in DOMAIN grown
    BY <1>3
  <2>2. vdata'[j - 1] = IF j - 1 = k THEN x
                        ELSE IF j - 1 \in k + 1 .. n THEN grown[(j - 1) - 1]
                        ELSE grown[j - 1]
    BY <1>2, <2>1
  <2>3. items'[j] = IF j < k + 1 THEN items[j] ELSE IF j = k + 1 THEN x ELSE items[j - 1]
    BY <1>3, <1>5 DEF With
  <2>4. CASE j < k + 1
    BY <1>2, <1>3, <2>2, <2>3, <2>4
  <2>5. CASE j = k + 1
    BY <1>3, <2>2, <2>3, <2>5
  <2>6. CASE j > k + 1
    <3>1. j - 1 \in k + 1 .. n /\ j - 1 \in 1 .. n /\ j - 1 # k
      BY <1>2, <1>3, <2>6
    <3> QED
      BY <1>3, <2>2, <2>3, <2>6, <3>1
  <2> QED
    BY <1>3, <2>4, <2>5, <2>6
<1>8. n + 1 \in 0 .. c
  BY <1>3
<1> QED
  BY <1>2, <1>3, <1>5, <1>6, <1>7, <1>8 DEF VectorOK, InVector

\* What the other operations start from.
LEMMA VectorFacts ==
  ASSUME VectorOK
  PROVE  /\ vcap \in Nat /\ vdata \in [0 .. vcap - 1 -> Cells] /\ vsize \in 0 .. vcap
         /\ items \in Seq(Cells) /\ Len(items) = vsize
         /\ \A j \in 1 .. vsize : items[j] = vdata[j - 1]
         /\ InVector(vcap, vdata, vsize, items)
<1>1. PICK c \in Nat : InVector(c, vdata, vsize, items)
  BY DEF VectorOK
<1>2. vcap = c
  BY <1>1, CellCount DEF InVector
<1> QED
  BY <1>1, <1>2 DEF InVector

\* A step that leaves the room as it is.
LEMMA SameRoom ==
  ASSUME VectorOK, NEW n \in 0 .. vcap, vsize' = n,
         vdata' \in [0 .. vcap - 1 -> Cells], items' \in Seq(Cells), Len(items') = n,
         \A j \in 1 .. n : items'[j] = vdata'[j - 1]
  PROVE  VectorOK'
<1>1. vcap \in Nat
  BY VectorFacts
<1>2. \E c \in Nat : InVector(c, vdata', vsize', items')
  BY <1>1 DEF InVector
<1> QED
  BY <1>2 DEF VectorOK

LEMMA SetKeeps ==
  ASSUME VectorOK, NEW index \in Int, NEW x \in Elem, covec_set(index, x)
  PROVE  VectorOK'
<1> DEFINE k == At(index)
           n == vsize
           c == vcap
<1>1. /\ k \in 0 .. n - 1 /\ vdata' = [vdata EXCEPT ![k] = x]
      /\ items' = [items EXCEPT ![k + 1] = x] /\ vsize' = n
  BY DEF covec_set
<1>2. /\ c \in Nat /\ vdata \in [0 .. c - 1 -> Cells] /\ n \in 0 .. c
      /\ items \in Seq(Cells) /\ Len(items) = n
      /\ \A j \in 1 .. n : items[j] = vdata[j - 1]
  BY VectorFacts
<1> HIDE DEF k, n, c
<1>3. x \in Cells /\ k + 1 \in 1 .. Len(items) /\ k \in 0 .. c - 1
  BY <1>1, <1>2 DEF Cells
<1>4. /\ items' \in Seq(Cells) /\ Len(items') = n
      /\ \A j \in 1 .. n : items'[j] = IF j = k + 1 THEN x ELSE items[j]
  BY <1>1, <1>2, <1>3, ExceptSeq
<1>5. vdata' \in [0 .. c - 1 -> Cells]
  BY <1>1, <1>2, <1>3
<1>6. ASSUME NEW j \in 1 .. n PROVE items'[j] = vdata'[j - 1]
  <2>1. j - 1 \in 0 .. c - 1 /\ (j - 1 = k <=> j = k + 1)
    BY <1>1, <1>2
  <2> QED
    BY <1>1, <1>2, <1>4, <2>1
<1> QED
  BY <1>1, <1>2, <1>4, <1>5, <1>6, SameRoom DEF c

LEMMA DelKeeps ==
  ASSUME VectorOK, NEW index \in Int, covec_del(index)
  PROVE  VectorOK'
<1> DEFINE k == At(index)
           n == vsize
           c == vcap
<1>1. /\ k \in 0 .. n - 1 /\ vsize' = n - 1
      /\ vdata' = [i \in DOMAIN vdata |-> IF i \in k .. n - 2 THEN vdata[i + 1] ELSE vdata[i]]
      /\ items' = RemoveAt(items, k + 1)
  BY DEF covec_del
<1>2. /\ c \in Nat /\ vdata \in [0 .. c - 1 -> Cells] /\ n \in 0 .. c
      /\ items \in Seq(Cells) /\ Len(items) = n
      /\ \A j \in 1 .. n : items[j] = vdata[j - 1]
  BY VectorFacts
<1> HIDE DEF k, n, c
<1>3. k + 1 \in 1 .. Len(items) /\ n - 1 \in 0 .. c
  BY <1>1, <1>2
<1>4. /\ items' = Without(items, k + 1)
      /\ items' \in Seq(Cells) /\ Len(items') = n - 1
  BY <1>1, <1>2, <1>3, RemoveAtIsWithout, WithoutIs
<1>5. vdata' \in [0 .. c - 1 -> Cells]
  <2>1. ASSUME NEW i \in 0 .. c - 1
        PROVE  (IF i \in k .. n - 2 THEN vdata[i + 1] ELSE vdata[i]) \in Cells
    <3>1. i \in k .. n - 2 => i + 1 \in 0 .. c - 1
      BY <1>2
    <3> QED
      BY <1>2, <3>1
  <2>2. DOMAIN vdata = 0 .. c - 1
    BY <1>2
  <2> QED
    BY <1>1, <2>1, <2>2
<1>6. ASSUME NEW j \in 1 .. n - 1 PROVE items'[j] = vdata'[j - 1]
  <2>1. j - 1 \in DOMAIN vdata /\ j \in 1 .. n /\ j + 1 \in 1 .. n /\ (j - 1) + 1 = j
        /\ (j + 1) - 1 = j
    BY <1>2
  <2>2. vdata'[j - 1] = IF j - 1 \in k .. n - 2 THEN vdata[(j - 1) + 1] ELSE vdata[j - 1]
    BY <1>1, <2>1
  <2>3. items'[j] = IF j < k + 1 THEN items[j] ELSE items[j + 1]
    BY <1>2, <1>4 DEF Without
  <2>4. items[j] = vdata[j - 1] /\ items[j + 1] = vdata[j]
    BY <1>2, <2>1
  <2>5. CASE j < k + 1
    BY <1>1, <1>2, <2>2, <2>3, <2>4, <2>5
  <2>6. CASE ~(j < k + 1)
    BY <1>1, <1>2, <2>1, <2>2, <2>3, <2>4, <2>6
  <2> QED
    BY <2>5, <2>6
<1> QED
  BY <1>1, <1>3, <1>4, <1>5, <1>6, SameRoom DEF c

LEMMA SwapKeeps ==
  ASSUME VectorOK, NEW index1 \in Int, NEW index2 \in Int, covec_swap(index1, index2)
  PROVE  VectorOK'
<1> DEFINE k == At(index1)
           l == At(index2)
           n == vsize
           c == vcap
<1>1. /\ k \in 0 .. n - 1 /\ l \in 0 .. n - 1 /\ vsize' = n
      /\ vdata' = [vdata EXCEPT ![k] = vdata[l], ![l] = vdata[k]]
      /\ items' = [items EXCEPT ![k + 1] = items[l + 1], ![l + 1] = items[k + 1]]
  BY DEF covec_swap
<1>2. /\ c \in Nat /\ vdata \in [0 .. c - 1 -> Cells] /\ n \in 0 .. c
      /\ items \in Seq(Cells) /\ Len(items) = n
      /\ \A j \in 1 .. n : items[j] = vdata[j - 1]
  BY VectorFacts
<1> HIDE DEF k, l, n, c
<1>3. /\ k + 1 \in 1 .. n /\ l + 1 \in 1 .. n /\ k \in 0 .. c - 1 /\ l \in 0 .. c - 1
      /\ (k + 1) - 1 = k /\ (l + 1) - 1 = l
  BY <1>1, <1>2
<1>4. items[l + 1] = vdata[l] /\ items[k + 1] = vdata[k]
      /\ vdata[l] \in Cells /\ vdata[k] \in Cells
  BY <1>2, <1>3
<1>5. /\ items' \in Seq(Cells) /\ Len(items') = n
      /\ \A j \in 1 .. n : items'[j] = IF j = l + 1 THEN vdata[k]
                                       ELSE IF j = k + 1 THEN vdata[l] ELSE items[j]
  <2> DEFINE once == [items EXCEPT ![k + 1] = vdata[l]]
  <2>1. /\ once \in Seq(Cells) /\ Len(once) = n
        /\ \A j \in 1 .. n : once[j] = IF j = k + 1 THEN vdata[l] ELSE items[j]
    BY <1>2, <1>3, <1>4, ExceptSeq
  <2>2. items' = [once EXCEPT ![l + 1] = vdata[k]]
    BY <1>1, <1>4
  <2> HIDE DEF once
  <2>3. /\ items' \in Seq(Cells) /\ Len(items') = n
        /\ \A j \in 1 .. n : items'[j] = IF j = l + 1 THEN vdata[k] ELSE once[j]
    BY <1>3, <1>4, <2>1, <2>2, ExceptSeq
  <2> QED
    BY <2>1, <2>3
<1>6. /\ vdata' \in [0 .. c - 1 -> Cells]
      /\ \A i \in 0 .. c - 1 : vdata'[i] = IF i = l THEN vdata[k]
                                           ELSE IF i = k THEN vdata[l] ELSE vdata[i]
  BY <1>1, <1>2, <1>3, <1>4
<1>7. ASSUME NEW j \in 1 .. n PROVE items'[j] = vdata'[j - 1]
  <2>1. j - 1 \in 0 .. c - 1 /\ (j - 1 = k <=> j = k + 1) /\ (j - 1 = l <=> j = l + 1)
    BY <1>1, <1>2
  <2>2. vdata'[j - 1] = IF j - 1 = l THEN vdata[k]
                        ELSE IF j - 1 = k THEN vdata[l] ELSE vdata[j - 1]
    BY <1>6, <2>1
  <2>3. items'[j] = IF j = l + 1 THEN vdata[k] ELSE IF j = k + 1 THEN vdata[l] ELSE items[j]
    BY <1>5
  <2>4. items[j] = vdata[j - 1]
    BY <1>2
  <2> QED
    BY <2>1, <2>2, <2>3, <2>4
<1> QED
  BY <1>1, <1>2, <1>5, <1>6, <1>7, SameRoom DEF c

LEMMA ResizeKeeps ==
  ASSUME VectorOK, NEW n \in Nat, covec_resize(n)
  PROVE  VectorOK'
<1>1. /\ vdata' = IF vcap >= n THEN vdata ELSE WithCap(n)
      /\ vsize' = n
      /\ items' = [i \in 1 .. n |-> IF i <= vsize THEN items[i] ELSE vdata'[i - 1]]
  BY DEF covec_resize
<1>2. PICK c \in Nat : c >= n /\ InVector(c, vdata', vsize, items)
  <2>1. CASE vcap >= n
    BY <1>1, <2>1, VectorFacts
  <2>2. CASE ~(vcap >= n)
    <3>1. n >= vcap /\ n >= n /\ vcap \in Nat
      BY <2>2, VectorFacts
    <3> QED
      BY <1>1, <2>2, <3>1, MoreRoom, VectorFacts
  <2> QED
    BY <2>1, <2>2
<1>3. /\ vdata' \in [0 .. c - 1 -> Cells] /\ vsize \in Nat
      /\ items \in Seq(Cells) /\ Len(items) = vsize
      /\ \A k \in 1 .. vsize : items[k] = vdata'[k - 1]
  BY <1>2 DEF InVector
<1>4. ASSUME NEW i \in 1 .. n
      PROVE  /\ (IF i <= vsize THEN items[i] ELSE vdata'[i - 1]) \in Cells
             /\ items'[i] = vdata'[i - 1]
  <2>1. i - 1 \in 0 .. c - 1 /\ (i <= vsize => i \in 1 .. vsize)
    BY <1>2, <1>3
  <2> QED
    BY <1>1, <1>3, <2>1
<1>5. items' \in Seq(Cells) /\ Len(items') = n
  <2>1. items' \in [1 .. n -> Cells]
    BY <1>1, <1>4
  <2> QED
    BY <2>1
<1>6. InVector(c, vdata', vsize', items')
  <2>1. n \in 0 .. c
    BY <1>2
  <2> QED
    BY <1>1, <1>3, <1>4, <1>5, <2>1 DEF InVector
<1> QED
  BY <1>6 DEF VectorOK

LEMMA OtherVectorSteps ==
  ASSUME VectorOK, (\E c \in Nat : covec_growcap(c)) \/ covec_copy \/ covec_clear
  PROVE  VectorOK'
<1>1. ASSUME NEW c \in Nat, covec_growcap(c) PROVE VectorOK'
  <2>1. c >= vcap /\ vdata' = WithCap(c) /\ UNCHANGED <<items, vsize>>
    BY <1>1, VectorFacts DEF covec_growcap
  <2>2. InVector(c, WithCap(c), vsize, items)
    BY <2>1, MoreRoom, VectorFacts
  <2>3. InVector(c, vdata', vsize', items')
    BY <2>1, <2>2
  <2> QED
    BY <2>3 DEF VectorOK
<1>2. CASE covec_copy
  <2>1. vdata' = [i \in 0 .. vsize - 1 |-> vdata[i]] /\ UNCHANGED <<items, vsize>>
    BY <1>2 DEF covec_copy
  <2>2. /\ vcap \in Nat /\ vdata \in [0 .. vcap - 1 -> Cells] /\ vsize \in 0 .. vcap
        /\ items \in Seq(Cells) /\ Len(items) = vsize
        /\ \A j \in 1 .. vsize : items[j] = vdata[j - 1]
    BY VectorFacts
  <2>3. vdata' \in [0 .. vsize - 1 -> Cells]
    BY <2>1, <2>2
  <2>4. \A j \in 1 .. vsize : items[j] = vdata'[j - 1]
    BY <2>1, <2>2
  <2>5. InVector(vsize, vdata', vsize', items')
    BY <2>1, <2>2, <2>3, <2>4 DEF InVector
  <2> QED
    BY <2>2, <2>5 DEF VectorOK
<1>3. CASE covec_clear
  <2>1. vdata' = [i \in {} |-> Garbage] /\ vsize' = 0 /\ items' = <<>>
    BY <1>3 DEF covec_clear
  <2>2. InVector(0, vdata', vsize', items')
    BY <2>1 DEF InVector
  <2> QED
    BY <2>2 DEF VectorOK
<1> QED
  BY <1>1, <1>2, <1>3

-----------------------------------------------------------------------------
(* The list. The operators here have no variables: the lemmas are used of  *)
(* the list before a step and after it.                                    *)

\* Beyond its ends a list has no node.
NodeAt(s, i) == IF i \in 1 .. Len(s) THEN s[i] ELSE NULL

LEMMA NodesAreNodes ==
  ASSUME NEW s \in Seq(Node), NEW i \in 1 .. Len(s)
  PROVE  s[i] \in Node /\ s[i] # NULL
<1>1. s[i] \in Node
  OBVIOUS
<1>2. \A m \in Node : m # 0
  BY LinksAssumption DEF Node
<1> QED
  BY <1>1, <1>2 DEF NULL

OnceEach(s) == \A i, j \in 1 .. Len(s) : s[i] = s[j] => i = j

\* The nodes are those of s, in this order, and hold the items xs.
Linked(S, s, heap, h, t, xs) ==
  /\ s \in Seq(Node) /\ OnceEach(s)
  /\ DOMAIN heap = {s[i] : i \in 1 .. Len(s)}
  /\ h = NodeAt(s, 1) /\ t = NodeAt(s, Len(s))
  /\ xs \in Seq(S) /\ Len(xs) = Len(s)
  /\ \A i \in 1 .. Len(s) : heap[s[i]] = [prev |-> NodeAt(s, i - 1),
                                           next |-> NodeAt(s, i + 1),
                                           value |-> xs[i]]

\* A set of numbers that is not empty has a least element.
LEMMA LeastElement ==
  ASSUME NEW S \in SUBSET Nat, S # {}
  PROVE  \E x \in S : \A y \in S : x <= y
<1>1. PICK x \in S : \A y \in S : ~(<<y, x>> \in OpToRel(<, Nat))
  BY NatLessThanWellFounded, WFMin
<1>2. \A y \in S : ~(y < x)
  BY <1>1 DEF OpToRel
<1> QED
  BY <1>2

\* A sequence without repetitions has no more elements than there are nodes.
LEMMA NodesSuffice ==
  ASSUME NEW s \in Seq(Node), OnceEach(s)
  PROVE  Len(s) <= MaxNodes
<1>1. MaxNodes \in Nat /\ Len(s) \in Nat
  BY LinksAssumption
<1>2. s \in Injection(1 .. Len(s), Node)
  <2>1. s \in [1 .. Len(s) -> Node]
    OBVIOUS
  <2> QED
    BY <2>1 DEF Injection, IsInjective, OnceEach
<1>3. Cardinality(1 .. Len(s)) = IF 1 > Len(s) THEN 0 ELSE Len(s) - 1 + 1
  <2>1. 1 \in Int /\ Len(s) \in Int
    BY <1>1
  <2> QED
    BY <2>1, FS_Interval
<1>4. Cardinality(Node) = IF 1 > MaxNodes THEN 0 ELSE MaxNodes - 1 + 1
  <2>1. 1 \in Int /\ MaxNodes \in Int
    BY <1>1
  <2> QED
    BY <2>1, FS_Interval DEF Node
<1>5. IsFiniteSet(Node)
  <2>1. 1 \in Int /\ MaxNodes \in Int
    BY <1>1
  <2> QED
    BY <2>1, FS_Interval DEF Node
<1>6. Cardinality(1 .. Len(s)) <= Cardinality(Node)
  BY <1>2, <1>5, FS_Injection
<1> QED
  BY <1>1, <1>3, <1>4, <1>6

\* Following the links of a list yields the list.
LEMMA FollowedIs ==
  ASSUME NEW s \in Seq(Node), OnceEach(s), NEW start, NEW link,
         start = NodeAt(s, 1),
         \A i \in 1 .. Len(s) : link[s[i]] = NodeAt(s, i + 1)
  PROVE  Followed(start, link) = s
<1> DEFINE P == 1 .. MaxNodes + 1
           IsAt(f) == f = [i \in P |->
                             IF i = 1 THEN start
                             ELSE LET prev == f[i - 1]
                                  IN  IF prev = NULL THEN NULL ELSE link[prev]]
           w == [i \in P |-> NodeAt(s, i)]
           node == CHOOSE f : IsAt(f)
<1>1. /\ MaxNodes \in Nat /\ Len(s) \in Nat /\ Len(s) <= MaxNodes
      /\ Node = 1 .. MaxNodes /\ P = 1 .. MaxNodes + 1
  BY NodesSuffice, LinksAssumption DEF Node
<1>2. \A i \in 1 .. Len(s) : s[i] # NULL
  BY <1>1 DEF NULL
<1>3. IsAt(w)
  <2>1. ASSUME NEW i \in P
        PROVE  NodeAt(s, i) = IF i = 1 THEN start
                              ELSE IF w[i - 1] = NULL THEN NULL ELSE link[w[i - 1]]
    <3>1. CASE i # 1
      <4>1. i - 1 \in P /\ i \in Int /\ (i - 1) + 1 = i
        BY <1>1, <3>1
      <4>2. w[i - 1] = NodeAt(s, i - 1)
        BY <4>1
      <4>3. CASE i - 1 \in 1 .. Len(s)
        BY <1>2, <3>1, <4>1, <4>2, <4>3 DEF NodeAt
      <4>4. CASE i - 1 \notin 1 .. Len(s)
        <5>1. i \notin 1 .. Len(s)
          BY <1>1, <3>1, <4>1, <4>4
        <5> QED
          BY <3>1, <4>2, <4>4, <5>1 DEF NodeAt
      <4> QED
        BY <4>3, <4>4
    <3> QED
      BY <3>1
  <2> QED
    BY <2>1
<1>4. IsAt(node)
  BY <1>3
<1> HIDE DEF node
<1> DEFINE Wrong == {i \in P : node[i] # w[i]}
<1>5. Wrong = {}
  <2>1. SUFFICES ASSUME Wrong # {} PROVE FALSE
    OBVIOUS
  <2>2. PICK i \in Wrong : \A j \in Wrong : i <= j
    <3>1. Wrong \in SUBSET Nat
      BY <1>1
    <3> HIDE DEF Wrong
    <3> QED
      BY <2>1, <3>1, LeastElement
  <2>3. i \in P /\ node[i] # w[i]
    BY <2>2
  <2>4. i # 1
    BY <1>3, <1>4, <2>3
  <2>5. i - 1 \in P /\ ~(i <= i - 1)
    BY <1>1, <2>3, <2>4
  <2>6. node[i - 1] = w[i - 1]
    BY <2>2, <2>5
  <2>7. node[i] = IF node[i - 1] = NULL THEN NULL ELSE link[node[i - 1]]
    BY <1>4, <2>3, <2>4
  <2>8. w[i] = IF w[i - 1] = NULL THEN NULL ELSE link[w[i - 1]]
    <3> HIDE DEF w
    <3> QED
      BY <1>3, <2>3, <2>4
  <2> QED
    BY <2>3, <2>6, <2>7, <2>8
<1>6. \A i \in P : node[i] = NodeAt(s, i)
  BY <1>5
<1>7. {j \in P : node[j] # NULL} = 1 .. Len(s)
  <2>1. ASSUME NEW j PROVE (j \in P /\ node[j] # NULL) <=> j \in 1 .. Len(s)
    <3>1. CASE j \in 1 .. Len(s)
      <4>1. j \in P
        BY <1>1, <3>1
      <4> QED
        BY <1>2, <1>6, <3>1, <4>1 DEF NodeAt
    <3>2. CASE j \in P /\ j \notin 1 .. Len(s)
      BY <1>6, <3>2 DEF NodeAt
    <3> QED
      BY <3>1, <3>2
  <2> QED
    BY <2>1
<1>8. Cardinality(1 .. Len(s)) = Len(s)
  <2>1. 1 \in Int /\ Len(s) \in Int
    BY <1>1
  <2>2. Cardinality(1 .. Len(s)) = IF 1 > Len(s) THEN 0 ELSE Len(s) - 1 + 1
    BY <2>1, FS_Interval
  <2> QED
    BY <1>1, <2>2
<1>9. Followed(start, link)
        = [i \in 1 .. Cardinality({j \in P : node[j] # NULL}) |-> node[i]]
  BY DEF Followed, node, IsAt
<1> HIDE DEF w, IsAt, Wrong
<1>10. Followed(start, link) = [i \in 1 .. Len(s) |-> node[i]]
  BY <1>7, <1>8, <1>9
<1>11. \A i \in 1 .. Len(s) : node[i] = s[i]
  BY <1>1, <1>6 DEF NodeAt
<1>12. s = [i \in 1 .. Len(s) |-> s[i]]
  OBVIOUS
<1> QED
  BY <1>10, <1>11, <1>12

\* What the nodes hold, and what they are linked by.
Values(s, heap) == [k \in DOMAIN s |-> heap[s[k]].value]
Nexts(heap) == [m \in DOMAIN heap |-> heap[m].next]
Prevs(heap) == [m \in DOMAIN heap |-> heap[m].prev]

\* So a list that is linked is what is read in either direction.
LEMMA LinkedIsRead ==
  ASSUME NEW S, NEW s, NEW heap, NEW h, NEW t, NEW xs, Linked(S, s, heap, h, t, xs)
  PROVE  /\ Followed(h, Nexts(heap)) = s
         /\ Followed(t, Prevs(heap)) = Reverse(s)
         /\ Range(s) = DOMAIN heap
         /\ xs = Values(s, heap)
<1> DEFINE r == Reverse(s)
           n == Len(s)
<1>1. /\ s \in Seq(Node) /\ OnceEach(s) /\ n \in Nat
      /\ DOMAIN heap = {s[i] : i \in 1 .. n}
      /\ h = NodeAt(s, 1) /\ t = NodeAt(s, n)
      /\ xs \in Seq(S) /\ Len(xs) = n
      /\ \A i \in 1 .. n : heap[s[i]] = [prev |-> NodeAt(s, i - 1),
                                           next |-> NodeAt(s, i + 1),
                                           value |-> xs[i]]
  BY DEF Linked
<1>2. r \in Seq(Node) /\ Len(r) = n /\ \A i \in 1 .. n : r[i] = s[(n - i) + 1]
  <2>1. r = [i \in 1 .. n |-> s[(n - i) + 1]]
    BY DEF Reverse
  <2>2. \A i \in 1 .. n : (n - i) + 1 \in 1 .. n
    BY <1>1
  <2>3. r \in [1 .. n -> Node]
    BY <1>1, <2>1, <2>2
  <2> QED
    BY <1>1, <2>1, <2>3
<1> HIDE DEF r, n
<1>3. OnceEach(r)
  <2> SUFFICES ASSUME NEW i \in 1 .. n, NEW j \in 1 .. n, r[i] = r[j] PROVE i = j
    BY <1>2 DEF OnceEach
  <2>1. (n - i) + 1 \in 1 .. n /\ (n - j) + 1 \in 1 .. n
    BY <1>1
  <2>2. s[(n - i) + 1] = s[(n - j) + 1]
    BY <1>2
  <2>3. \A a, b \in 1 .. n : s[a] = s[b] => a = b
    BY <1>1 DEF OnceEach, n
  <2>4. (n - i) + 1 = (n - j) + 1
    BY <2>1, <2>2, <2>3
  <2> QED
    BY <1>1, <2>4
<1>4. \A i \in Int : NodeAt(r, i) = NodeAt(s, (n - i) + 1)
  <2> SUFFICES ASSUME NEW i \in Int PROVE NodeAt(r, i) = NodeAt(s, (n - i) + 1)
    OBVIOUS
  <2>1. i \in 1 .. n <=> (n - i) + 1 \in 1 .. n
    BY <1>1
  <2> QED
    BY <1>2, <2>1 DEF NodeAt, n
<1>d. \A i \in 1 .. n : s[i] \in DOMAIN heap
  BY <1>1
<1>5. Followed(h, Nexts(heap)) = s
  <2> DEFINE link == [m \in DOMAIN heap |-> heap[m].next]
  <2>1. ASSUME NEW i \in 1 .. n PROVE link[s[i]] = NodeAt(s, i + 1)
    <3>1. link[s[i]] = heap[s[i]].next
      BY <1>d
    <3>2. heap[s[i]] = [prev |-> NodeAt(s, i - 1), next |-> NodeAt(s, i + 1),
                        value |-> xs[i]]
      BY <1>1
    <3> QED
      BY <3>1, <3>2
  <2> HIDE DEF link
  <2>2. Followed(h, link) = s
    BY <1>1, <2>1, FollowedIs DEF n
  <2> QED
    BY <2>2 DEF link, Nexts
<1>6. Followed(t, Prevs(heap)) = r
  <2> DEFINE link == [m \in DOMAIN heap |-> heap[m].prev]
  <2>1. ASSUME NEW i \in 1 .. n PROVE link[s[i]] = NodeAt(s, i - 1)
    <3>1. link[s[i]] = heap[s[i]].prev
      BY <1>d
    <3>2. heap[s[i]] = [prev |-> NodeAt(s, i - 1), next |-> NodeAt(s, i + 1),
                        value |-> xs[i]]
      BY <1>1
    <3> QED
      BY <3>1, <3>2
  <2> HIDE DEF link
  <2>2. ASSUME NEW i \in 1 .. n PROVE link[r[i]] = NodeAt(r, i + 1)
    <3>1. (n - i) + 1 \in 1 .. n /\ i + 1 \in Int /\ ((n - i) + 1) - 1 = (n - (i + 1)) + 1
      BY <1>1
    <3>2. link[r[i]] = NodeAt(s, ((n - i) + 1) - 1)
      BY <1>2, <2>1, <3>1
    <3> QED
      BY <1>4, <3>1, <3>2
  <2>3. t = NodeAt(r, 1)
    <3>1. 1 \in Int /\ (n - 1) + 1 = n
      BY <1>1
    <3> QED
      BY <1>1, <1>4, <3>1
  <2>4. Followed(t, link) = r
    <3>1. \A i \in 1 .. Len(r) : link[r[i]] = NodeAt(r, i + 1)
      BY <1>2, <2>2
    <3>2. r \in Seq(Node)
      BY <1>2
    <3>3. Followed(NodeAt(r, 1), link) = r
      BY ONLY <1>3, <3>1, <3>2, FollowedIs
    <3> QED
      BY ONLY <2>3, <3>3
  <2> QED
    BY <2>4 DEF link, Prevs
<1>7. Range(s) = DOMAIN heap
  <2>1. DOMAIN s = 1 .. n
    BY <1>1 DEF n
  <2> QED
    BY <1>1, <2>1 DEF Range
<1>8. xs = [k \in DOMAIN s |-> heap[s[k]].value]
  <2>1. DOMAIN s = 1 .. n
    BY <1>1 DEF n
  <2>2. xs = [k \in 1 .. n |-> xs[k]]
    BY <1>1
  <2>3. ASSUME NEW k \in 1 .. n PROVE heap[s[k]].value = xs[k]
    <3>1. heap[s[k]] = [prev |-> NodeAt(s, k - 1), next |-> NodeAt(s, k + 1),
                        value |-> xs[k]]
      BY <1>1
    <3> QED
      BY <3>1
  <2> QED
    BY <2>1, <2>2, <2>3
<1> QED
  BY <1>5, <1>6, <1>7, <1>8 DEF r, Values

\* A node of its own between the neighbours p and q.
Inserted(heap, n, p, q, x) ==
  [m \in DOMAIN heap \cup {n} |-> IF m = n THEN [prev |-> p, next |-> q, value |-> x]
                                   ELSE IF m = p THEN [heap[m] EXCEPT !.next = n]
                                   ELSE IF m = q THEN [heap[m] EXCEPT !.prev = n]
                                   ELSE heap[m]]

\* The neighbours in the longer list.
LEMMA NodeOfWith ==
  ASSUME NEW s \in Seq(Node), NEW k \in 1 .. Len(s) + 1, NEW n \in Node
  PROVE  \A i \in Int : NodeAt(With(s, k, n), i) = IF i < k THEN NodeAt(s, i)
                                                   ELSE IF i = k THEN n
                                                   ELSE NodeAt(s, i - 1)
<1> SUFFICES ASSUME NEW i \in Int
             PROVE  NodeAt(With(s, k, n), i) = IF i < k THEN NodeAt(s, i)
                                               ELSE IF i = k THEN n
                                               ELSE NodeAt(s, i - 1)
  OBVIOUS
<1>1. Len(s) \in Nat /\ Len(With(s, k, n)) = Len(s) + 1
  BY WithIs
<1>2. CASE i \in 1 .. Len(s) + 1
  <2>1. NodeAt(With(s, k, n), i) = IF i < k THEN s[i] ELSE IF i = k THEN n ELSE s[i - 1]
    BY <1>1, <1>2 DEF NodeAt, With
  <2>2. (i < k => i \in 1 .. Len(s)) /\ (i > k => i - 1 \in 1 .. Len(s))
    BY <1>1, <1>2
  <2> QED
    BY <2>1, <2>2 DEF NodeAt
<1>3. CASE i \notin 1 .. Len(s) + 1
  <2>1. /\ i \notin 1 .. Len(s) /\ i # k
        /\ i > k => i - 1 \notin 1 .. Len(s)
    BY <1>1, <1>3
  <2> QED
    BY <1>1, <1>3, <2>1 DEF NodeAt
<1> QED
  BY <1>2, <1>3

LEMMA InsertKeeps ==
  ASSUME NEW S, NEW s, NEW heap, NEW h, NEW t, NEW xs, Linked(S, s, heap, h, t, xs),
         NEW k \in 1 .. Len(s) + 1, NEW n \in Node, n \notin DOMAIN heap, NEW x \in S,
         NEW p, NEW q, p = NodeAt(s, k - 1), q = NodeAt(s, k)
  PROVE  Linked(S, With(s, k, n), Inserted(heap, n, p, q, x),
                IF h = q THEN n ELSE h, IF t = p THEN n ELSE t, With(xs, k, x))
<1> DEFINE L == Len(s)
           s2 == With(s, k, n)
           xs2 == With(xs, k, x)
           heap2 == Inserted(heap, n, p, q, x)
           h2 == IF h = q THEN n ELSE h
           t2 == IF t = p THEN n ELSE t
<1>1. /\ s \in Seq(Node) /\ L \in Nat /\ k \in 1 .. L + 1
      /\ \A i, j \in 1 .. L : s[i] = s[j] => i = j
      /\ DOMAIN heap = {s[i] : i \in 1 .. L}
      /\ h = NodeAt(s, 1) /\ t = NodeAt(s, L)
      /\ xs \in Seq(S) /\ Len(xs) = L
      /\ \A i \in 1 .. L : heap[s[i]] = [prev |-> NodeAt(s, i - 1),
                                          next |-> NodeAt(s, i + 1),
                                          value |-> xs[i]]
  BY DEF Linked, OnceEach
<1>2. /\ s2 \in Seq(Node) /\ Len(s2) = L + 1
      /\ \A i \in Int : NodeAt(s2, i) = IF i < k THEN NodeAt(s, i)
                                        ELSE IF i = k THEN n ELSE NodeAt(s, i - 1)
      /\ \A i \in 1 .. L + 1 : s2[i] = IF i < k THEN s[i] ELSE IF i = k THEN n ELSE s[i - 1]
  <2>1. s2 \in Seq(Node) /\ Len(s2) = L + 1
    BY <1>1, WithIs
  <2>2. \A i \in Int : NodeAt(s2, i) = IF i < k THEN NodeAt(s, i)
                                       ELSE IF i = k THEN n ELSE NodeAt(s, i - 1)
    BY <1>1, NodeOfWith
  <2>3. \A i \in 1 .. L + 1 : s2[i] = IF i < k THEN s[i] ELSE IF i = k THEN n ELSE s[i - 1]
    BY DEF With
  <2> QED
    BY <2>1, <2>2, <2>3
<1>3. /\ xs2 \in Seq(S) /\ Len(xs2) = L + 1
      /\ \A i \in 1 .. L + 1 : xs2[i] = IF i < k THEN xs[i] ELSE IF i = k THEN x ELSE xs[i - 1]
  BY <1>1, WithIs DEF With
<1>4. \A i \in 1 .. L : /\ s[i] \in DOMAIN heap /\ s[i] # n /\ s[i] # NULL
                        /\ NodeAt(s, i) = s[i]
  <2> SUFFICES ASSUME NEW i \in 1 .. L
               PROVE  /\ s[i] \in DOMAIN heap /\ s[i] # n /\ s[i] # NULL
                      /\ NodeAt(s, i) = s[i]
    OBVIOUS
  <2>1. s[i] \in DOMAIN heap
    BY <1>1
  <2>3. s[i] # NULL
    BY <1>1, NodesAreNodes
  <2>4. NodeAt(s, i) = s[i]
    BY DEF NodeAt
  <2> QED
    BY <2>1, <2>3, <2>4
<1>5. \A i \in Int : i \notin 1 .. L => NodeAt(s, i) = NULL
  BY DEF NodeAt
\* A node of the list has no other place in it, and is not n.
<1>6. \A i \in 1 .. L : /\ s[i] = p <=> i = k - 1
                        /\ s[i] = q <=> i = k
  <2> SUFFICES ASSUME NEW i \in 1 .. L
               PROVE  (s[i] = p <=> i = k - 1) /\ (s[i] = q <=> i = k)
    OBVIOUS
  <2>1. \A j \in Int : s[i] = NodeAt(s, j) <=> i = j
    <3> SUFFICES ASSUME NEW j \in Int PROVE s[i] = NodeAt(s, j) <=> i = j
      OBVIOUS
    <3>1. CASE j \in 1 .. L
      <4>1. NodeAt(s, j) = s[j]
        BY <1>4, <3>1
      <4>2. s[i] = s[j] <=> i = j
        BY <1>1, <3>1
      <4> QED
        BY <4>1, <4>2
    <3>2. CASE j \notin 1 .. L
      BY <1>4, <1>5, <3>2
    <3> QED
      BY <3>1, <3>2
  <2>2. k - 1 \in Int /\ k \in Int
    BY <1>1
  <2> QED
    BY <2>1, <2>2
<1> HIDE DEF L, s2, xs2
<1>7. DOMAIN heap2 = DOMAIN heap \cup {n}
  BY DEF Inserted
<1>8. \A m \in DOMAIN heap2 :
        heap2[m] = IF m = n THEN [prev |-> p, next |-> q, value |-> x]
                    ELSE IF m = p THEN [heap[m] EXCEPT !.next = n]
                    ELSE IF m = q THEN [heap[m] EXCEPT !.prev = n]
                    ELSE heap[m]
  BY DEF Inserted
<1> HIDE DEF heap2
<1>9. OnceEach(s2)
  <2> SUFFICES ASSUME NEW i \in 1 .. L + 1, NEW j \in 1 .. L + 1, s2[i] = s2[j]
               PROVE  i = j
    BY <1>2 DEF OnceEach
  <2>1. \A a \in 1 .. L + 1 : /\ a < k => a \in 1 .. L
                              /\ a > k => a - 1 \in 1 .. L
                              /\ a < k \/ a = k \/ a > k
    BY <1>1
  <2>2. \A a \in 1 .. L + 1 : s2[a] = n <=> a = k
    <3> SUFFICES ASSUME NEW a \in 1 .. L + 1 PROVE s2[a] = n <=> a = k
      OBVIOUS
    <3>1. CASE a < k
      <4>1. a \in 1 .. L /\ a # k
        BY <1>1, <2>1, <3>1
      <4>2. s2[a] = s[a]
        BY <1>2, <3>1
      <4> QED
        BY <1>4, <4>1, <4>2
    <3>2. CASE a > k
      <4>1. a - 1 \in 1 .. L /\ ~(a < k) /\ a # k
        BY <1>1, <2>1, <3>2
      <4>2. s2[a] = s[a - 1]
        BY <1>2, <4>1
      <4> QED
        BY <1>4, <4>1, <4>2
    <3>3. CASE a = k
      BY <1>1, <1>2, <3>3
    <3> QED
      BY <2>1, <3>1, <3>2, <3>3
  <2>3. CASE i # k /\ j # k
    <3>1. s2[i] = s[IF i < k THEN i ELSE i - 1] /\ s2[j] = s[IF j < k THEN j ELSE j - 1]
      BY <1>2, <2>3
    <3>2. (IF i < k THEN i ELSE i - 1) = (IF j < k THEN j ELSE j - 1)
      BY <1>1, <2>1, <2>3, <3>1
    <3> QED
      BY <1>1, <2>3, <3>2
  <2> QED
    BY <2>2, <2>3
<1>10. DOMAIN heap2 = {s2[i] : i \in 1 .. L + 1}
  <2>1. ASSUME NEW i \in 1 .. L + 1 PROVE s2[i] \in DOMAIN heap2
    <3>1. (i < k => i \in 1 .. L) /\ (i > k => i - 1 \in 1 .. L)
      BY <1>1
    <3> QED
      BY <1>1, <1>2, <1>4, <1>7, <3>1
  <2>2. \E i \in 1 .. L + 1 : s2[i] = n
    BY <1>1, <1>2
  <2>3. ASSUME NEW j \in 1 .. L PROVE \E i \in 1 .. L + 1 : s2[i] = s[j]
    <3>1. CASE j < k
      <4>1. j \in 1 .. L + 1 /\ s2[j] = s[j]
        BY <1>1, <1>2, <3>1
      <4> QED
        BY <4>1
    <3>2. CASE ~(j < k)
      <4>1. j + 1 \in 1 .. L + 1 /\ ~(j + 1 < k) /\ j + 1 # k /\ (j + 1) - 1 = j
        BY <1>1, <3>2
      <4>2. s2[j + 1] = s[j]
        BY <1>2, <4>1
      <4> QED
        BY <4>1, <4>2
    <3> QED
      BY <3>1, <3>2
  <2>4. DOMAIN heap2 = {s[j] : j \in 1 .. L} \cup {n}
    BY <1>1, <1>7
  <2> QED
    BY <2>1, <2>2, <2>3, <2>4
<1>11. h2 = NodeAt(s2, 1)
  <2>1. CASE k = 1
    BY <1>1, <1>2, <2>1
  <2>2. CASE k # 1
    <3>1. 1 \in 1 .. L /\ 1 < k
      BY <1>1, <2>2
    <3>2. h = s[1] /\ h # q
      BY <1>1, <1>4, <1>6, <3>1, <2>2
    <3> QED
      BY <1>1, <1>2, <3>1, <3>2
  <2> QED
    BY <2>1, <2>2
<1>12. t2 = NodeAt(s2, L + 1)
  <2>1. CASE k = L + 1
    <3>1. t = p
      BY <1>1, <2>1
    <3> QED
      BY <1>1, <1>2, <2>1, <3>1
  <2>2. CASE k # L + 1
    <3>1. L \in 1 .. L /\ ~(L + 1 < k) /\ L + 1 # k /\ (L + 1) - 1 = L /\ L # k - 1
      BY <1>1, <2>2
    <3>2. t = s[L] /\ t # p
      BY <1>1, <1>4, <1>6, <3>1
    <3>3. L + 1 \in Int
      BY <1>1
    <3>4. NodeAt(s2, L + 1) = NodeAt(s, L)
      BY <1>2, <3>1, <3>3
    <3> QED
      BY <1>1, <3>2, <3>4
  <2> QED
    BY <2>1, <2>2
<1>13. ASSUME NEW i \in 1 .. L + 1
       PROVE  heap2[s2[i]] = [prev |-> NodeAt(s2, i - 1),
                               next |-> NodeAt(s2, i + 1),
                               value |-> xs2[i]]
  <2>1. s2[i] \in DOMAIN heap2 /\ i \in Int /\ i - 1 \in Int /\ i + 1 \in Int /\ k \in Int
    BY <1>1, <1>10
  <2>2. CASE i = k
    <3>1. NodeAt(s2, i - 1) = p /\ NodeAt(s2, i + 1) = q
      <4>1. i - 1 < k /\ ~(i + 1 < k) /\ i + 1 # k /\ (i + 1) - 1 = k
        BY <2>1, <2>2
      <4> QED
        BY <1>2, <2>1, <2>2, <4>1
    <3>2. s2[i] = n /\ xs2[i] = x
      BY <1>2, <1>3, <2>1, <2>2
    <3> QED
      BY <1>8, <2>1, <3>1, <3>2
  <2>3. CASE i < k
    <3>1. i \in 1 .. L /\ s2[i] = s[i] /\ xs2[i] = xs[i] /\ s[i] # q /\ s[i] # n
      BY <1>1, <1>2, <1>3, <1>4, <1>6, <2>3
    <3>2. heap[s[i]] = [prev |-> NodeAt(s, i - 1), next |-> NodeAt(s, i + 1), value |-> xs[i]]
      BY <1>1, <3>1
    <3>3. NodeAt(s2, i - 1) = NodeAt(s, i - 1)
      BY <1>2, <2>1, <2>3
    <3>4. CASE i = k - 1
      <4>1. s[i] = p /\ NodeAt(s2, i + 1) = n
        BY <1>2, <1>6, <2>1, <3>1, <3>4
      <4>2. heap2[s2[i]] = [heap[s[i]] EXCEPT !.next = n]
        BY <1>8, <2>1, <3>1, <4>1
      <4> QED
        BY <3>1, <3>2, <3>3, <4>1, <4>2
    <3>5. CASE i # k - 1
      <4>1. s[i] # p /\ i + 1 < k
        BY <1>6, <2>1, <2>3, <3>1, <3>5
      <4>2. NodeAt(s2, i + 1) = NodeAt(s, i + 1)
        BY <1>2, <2>1, <4>1
      <4>3. heap2[s2[i]] = heap[s[i]]
        BY <1>8, <2>1, <3>1, <4>1
      <4> QED
        BY <3>1, <3>2, <3>3, <4>2, <4>3
    <3> QED
      BY <3>4, <3>5
  <2>4. CASE i > k
    <3>0. ~(i < k) /\ i # k /\ ~(i + 1 < k) /\ i + 1 # k /\ (i + 1) - 1 = i /\ i - 1 # k - 1
      BY <2>1, <2>4
    <3>1. /\ i - 1 \in 1 .. L /\ s2[i] = s[i - 1] /\ xs2[i] = xs[i - 1]
          /\ s[i - 1] # p /\ s[i - 1] # n
      BY <1>1, <1>2, <1>3, <1>4, <1>6, <3>0
    <3>2. heap[s[i - 1]] = [prev |-> NodeAt(s, (i - 1) - 1), next |-> NodeAt(s, i),
                             value |-> xs[i - 1]]
      <4>1. (i - 1) + 1 = i
        BY <2>1
      <4> QED
        BY <1>1, <3>1, <4>1
    <3>3. NodeAt(s2, i + 1) = NodeAt(s, i)
      BY <1>2, <2>1, <3>0
    <3>4. CASE i - 1 = k
      <4>1. s[i - 1] = q /\ NodeAt(s2, i - 1) = n
        BY <1>2, <1>6, <2>1, <3>1, <3>4
      <4>2. heap2[s2[i]] = [heap[s[i - 1]] EXCEPT !.prev = n]
        BY <1>8, <2>1, <3>1, <4>1
      <4> QED
        BY <3>1, <3>2, <3>3, <4>1, <4>2
    <3>5. CASE i - 1 # k
      <4>1. s[i - 1] # q /\ ~(i - 1 < k)
        BY <1>6, <2>1, <2>4, <3>1, <3>5
      <4>2. NodeAt(s2, i - 1) = NodeAt(s, (i - 1) - 1)
        BY <1>2, <2>1, <3>5, <4>1
      <4>3. heap2[s2[i]] = heap[s[i - 1]]
        BY <1>8, <2>1, <3>1, <4>1
      <4> QED
        BY <3>1, <3>2, <3>3, <4>2, <4>3
    <3> QED
      BY <3>4, <3>5
  <2> QED
    BY <2>1, <2>2, <2>3, <2>4
<1>14. Linked(S, s2, heap2, h2, t2, xs2)
  BY <1>2, <1>3, <1>9, <1>10, <1>11, <1>12, <1>13 DEF Linked
<1> QED
  BY <1>14 DEF s2, heap2, xs2

\* The node is gone and its neighbours are linked.
Removed(heap, n, p, q) ==
  [m \in DOMAIN heap \ {n} |-> [heap[m] EXCEPT !.next = IF m = p THEN q ELSE @,
                                                 !.prev = IF m = q THEN p ELSE @]]

\* The neighbours in the shorter list.
LEMMA NodeOfWithout ==
  ASSUME NEW s \in Seq(Node), NEW k \in 1 .. Len(s)
  PROVE  \A i \in Int : NodeAt(Without(s, k), i) = IF i < k THEN NodeAt(s, i)
                                                   ELSE NodeAt(s, i + 1)
<1> SUFFICES ASSUME NEW i \in Int
             PROVE  NodeAt(Without(s, k), i) = IF i < k THEN NodeAt(s, i) ELSE NodeAt(s, i + 1)
  OBVIOUS
<1>1. Len(s) \in Nat /\ Len(Without(s, k)) = Len(s) - 1
  BY WithoutIs
<1>2. CASE i \in 1 .. Len(s) - 1
  <2>1. NodeAt(Without(s, k), i) = IF i < k THEN s[i] ELSE s[i + 1]
    BY <1>1, <1>2 DEF NodeAt, Without
  <2>2. i \in 1 .. Len(s) /\ i + 1 \in 1 .. Len(s)
    BY <1>1, <1>2
  <2> QED
    BY <2>1, <2>2 DEF NodeAt
<1>3. CASE i \notin 1 .. Len(s) - 1
  <2>1. (i < k => i \notin 1 .. Len(s)) /\ (~(i < k) => i + 1 \notin 1 .. Len(s))
    BY <1>1, <1>3
  <2> QED
    BY <1>1, <1>3, <2>1 DEF NodeAt
<1> QED
  BY <1>2, <1>3

LEMMA RemoveKeeps ==
  ASSUME NEW S, NEW s, NEW heap, NEW h, NEW t, NEW xs, Linked(S, s, heap, h, t, xs),
         NEW k \in 1 .. Len(s), NEW n, n = s[k],
         NEW p, NEW q, p = NodeAt(s, k - 1), q = NodeAt(s, k + 1)
  PROVE  Linked(S, Without(s, k), Removed(heap, n, p, q),
                IF h = n THEN q ELSE h, IF t = n THEN p ELSE t, Without(xs, k))
<1> DEFINE L == Len(s)
           s2 == Without(s, k)
           xs2 == Without(xs, k)
           heap2 == Removed(heap, n, p, q)
           h2 == IF h = n THEN q ELSE h
           t2 == IF t = n THEN p ELSE t
<1>1. /\ s \in Seq(Node) /\ L \in Nat /\ k \in 1 .. L
      /\ \A i, j \in 1 .. L : s[i] = s[j] => i = j
      /\ DOMAIN heap = {s[i] : i \in 1 .. L}
      /\ h = NodeAt(s, 1) /\ t = NodeAt(s, L)
      /\ xs \in Seq(S) /\ Len(xs) = L
      /\ \A i \in 1 .. L : heap[s[i]] = [prev |-> NodeAt(s, i - 1),
                                          next |-> NodeAt(s, i + 1),
                                          value |-> xs[i]]
  BY DEF Linked, OnceEach
<1>2. /\ s2 \in Seq(Node) /\ Len(s2) = L - 1
      /\ \A i \in Int : NodeAt(s2, i) = IF i < k THEN NodeAt(s, i) ELSE NodeAt(s, i + 1)
      /\ \A i \in 1 .. L - 1 : s2[i] = IF i < k THEN s[i] ELSE s[i + 1]
  <2>1. s2 \in Seq(Node) /\ Len(s2) = L - 1
    BY <1>1, WithoutIs
  <2>2. \A i \in Int : NodeAt(s2, i) = IF i < k THEN NodeAt(s, i) ELSE NodeAt(s, i + 1)
    BY <1>1, NodeOfWithout
  <2>3. \A i \in 1 .. L - 1 : s2[i] = IF i < k THEN s[i] ELSE s[i + 1]
    BY DEF Without
  <2> QED
    BY <2>1, <2>2, <2>3
<1>3. /\ xs2 \in Seq(S) /\ Len(xs2) = L - 1
      /\ \A i \in 1 .. L - 1 : xs2[i] = IF i < k THEN xs[i] ELSE xs[i + 1]
  BY <1>1, WithoutIs DEF Without
<1>4. \A i \in 1 .. L : s[i] \in DOMAIN heap /\ s[i] # NULL /\ NodeAt(s, i) = s[i]
  <2> SUFFICES ASSUME NEW i \in 1 .. L
               PROVE  s[i] \in DOMAIN heap /\ s[i] # NULL /\ NodeAt(s, i) = s[i]
    OBVIOUS
  <2>1. s[i] \in DOMAIN heap
    BY <1>1
  <2>3. s[i] # NULL
    BY <1>1, NodesAreNodes
  <2>4. NodeAt(s, i) = s[i]
    BY DEF NodeAt
  <2> QED
    BY <2>1, <2>3, <2>4
<1>5. \A i \in Int : i \notin 1 .. L => NodeAt(s, i) = NULL
  BY DEF NodeAt
<1>6. \A i \in 1 .. L : /\ s[i] = p <=> i = k - 1
                        /\ s[i] = q <=> i = k + 1
                        /\ s[i] = n <=> i = k
  <2> SUFFICES ASSUME NEW i \in 1 .. L
               PROVE  /\ s[i] = p <=> i = k - 1
                      /\ s[i] = q <=> i = k + 1
                      /\ s[i] = n <=> i = k
    OBVIOUS
  <2>1. \A j \in Int : s[i] = NodeAt(s, j) <=> i = j
    <3> SUFFICES ASSUME NEW j \in Int PROVE s[i] = NodeAt(s, j) <=> i = j
      OBVIOUS
    <3>1. CASE j \in 1 .. L
      <4>1. NodeAt(s, j) = s[j]
        BY <1>4, <3>1
      <4>2. s[i] = s[j] <=> i = j
        BY <1>1, <3>1
      <4> QED
        BY <4>1, <4>2
    <3>2. CASE j \notin 1 .. L
      BY <1>4, <1>5, <3>2
    <3> QED
      BY <3>1, <3>2
  <2>2. k - 1 \in Int /\ k + 1 \in Int
    BY <1>1
  <2> QED
    BY <1>1, <2>1, <2>2
<1> HIDE DEF L, s2, xs2
<1>7. DOMAIN heap2 = DOMAIN heap \ {n}
  BY DEF Removed
<1>8. \A m \in DOMAIN heap2 :
        heap2[m] = [heap[m] EXCEPT !.next = IF m = p THEN q ELSE @,
                                     !.prev = IF m = q THEN p ELSE @]
  BY DEF Removed
<1> HIDE DEF heap2
\* The place in the longer list of the i-th node of the shorter.
<1> DEFINE Old(i) == IF i < k THEN i ELSE i + 1
<1>9. \A i \in 1 .. L - 1 : /\ Old(i) \in 1 .. L /\ Old(i) # k
                            /\ s2[i] = s[Old(i)] /\ xs2[i] = xs[Old(i)]
  <2> SUFFICES ASSUME NEW i \in 1 .. L - 1
               PROVE  /\ Old(i) \in 1 .. L /\ Old(i) # k
                      /\ s2[i] = s[Old(i)] /\ xs2[i] = xs[Old(i)]
    OBVIOUS
  <2>1. Old(i) \in 1 .. L /\ Old(i) # k
    BY <1>1
  <2>2. s2[i] = s[Old(i)]
    BY <1>2
  <2>3. xs2[i] = xs[Old(i)]
    BY <1>3
  <2> QED
    BY <2>1, <2>2, <2>3
<1>10. \A i, j \in 1 .. L - 1 : Old(i) = Old(j) => i = j
  BY <1>1
<1>11. \A j \in 1 .. L : j # k => \E i \in 1 .. L - 1 : Old(i) = j
  <2> SUFFICES ASSUME NEW j \in 1 .. L, j # k PROVE \E i \in 1 .. L - 1 : Old(i) = j
    OBVIOUS
  <2>1. CASE j < k
    BY <1>1, <2>1
  <2>2. CASE j > k
    <3>1. j - 1 \in 1 .. L - 1 /\ Old(j - 1) = j
      BY <1>1, <2>2
    <3> QED
      BY <3>1
  <2> QED
    BY <1>1, <2>1, <2>2
<1>12. OnceEach(s2)
  <2> SUFFICES ASSUME NEW i \in 1 .. L - 1, NEW j \in 1 .. L - 1, s2[i] = s2[j]
               PROVE  i = j
    BY <1>2 DEF OnceEach
  <2> HIDE DEF Old
  <2>1. Old(i) \in 1 .. L /\ Old(j) \in 1 .. L /\ s[Old(i)] = s[Old(j)]
    BY <1>9
  <2>2. Old(i) = Old(j)
    BY <1>1, <2>1
  <2> QED
    BY <1>10, <2>2
<1>13. DOMAIN heap2 = {s2[i] : i \in 1 .. L - 1}
  <2> HIDE DEF Old
  <2>1. ASSUME NEW i \in 1 .. L - 1 PROVE s2[i] \in DOMAIN heap2
    BY <1>4, <1>6, <1>7, <1>9
  <2>2. ASSUME NEW m \in DOMAIN heap2 PROVE \E i \in 1 .. L - 1 : m = s2[i]
    <3>1. PICK j \in 1 .. L : m = s[j]
      BY <1>1, <1>7
    <3>2. j # k
      BY <1>7, <3>1
    <3>3. PICK i \in 1 .. L - 1 : Old(i) = j
      BY <1>11, <3>2
    <3> QED
      BY <1>9, <3>1, <3>3
  <2> QED
    BY <2>1, <2>2
<1>14. h2 = NodeAt(s2, 1)
  <2>1. CASE k = 1
    <3>1. h = n
      BY <1>1, <1>4, <2>1
    <3>2. 1 \in Int /\ ~(1 < k) /\ 1 + 1 = k + 1
      BY <2>1
    <3> QED
      BY <1>2, <3>1, <3>2
  <2>2. CASE k # 1
    <3>1. 1 \in 1 .. L /\ 1 < k
      BY <1>1, <2>2
    <3>2. h = s[1] /\ h # n
      BY <1>1, <1>4, <1>6, <2>2, <3>1
    <3> QED
      BY <1>1, <1>2, <3>1, <3>2
  <2> QED
    BY <2>1, <2>2
<1>15. t2 = NodeAt(s2, L - 1)
  <2>0. L \in 1 .. L /\ L - 1 \in Int
    BY <1>1
  <2>1. CASE k = L
    <3>1. t = n /\ L - 1 < k
      BY <1>1, <1>4, <2>0, <2>1
    <3> QED
      BY <1>2, <2>0, <2>1, <3>1
  <2>2. CASE k # L
    <3>1. ~(L - 1 < k) /\ (L - 1) + 1 = L
      BY <1>1, <2>2
    <3>2. t = s[L] /\ t # n
      BY <1>1, <1>4, <1>6, <2>0, <2>2
    <3>3. NodeAt(s2, L - 1) = NodeAt(s, L)
      BY <1>2, <2>0, <3>1
    <3> QED
      BY <1>1, <3>2, <3>3
  <2> QED
    BY <2>1, <2>2
<1>16. ASSUME NEW i \in 1 .. L - 1
       PROVE  heap2[s2[i]] = [prev |-> NodeAt(s2, i - 1),
                               next |-> NodeAt(s2, i + 1),
                               value |-> xs2[i]]
  <2> DEFINE j == Old(i)
  <2>1. /\ i \in Int /\ i - 1 \in Int /\ i + 1 \in Int /\ k \in Int
        /\ j \in 1 .. L /\ j \in Int /\ j # k
        /\ s2[i] = s[j] /\ xs2[i] = xs[j] /\ s2[i] \in DOMAIN heap2
    <3> HIDE DEF Old
    <3> QED
      BY <1>1, <1>9, <1>13
  <2>2. heap[s[j]] = [prev |-> NodeAt(s, j - 1), next |-> NodeAt(s, j + 1), value |-> xs[j]]
    BY <1>1, <2>1
  <2>3. NodeAt(s2, i - 1) = IF j = k + 1 THEN p ELSE NodeAt(s, j - 1)
    <3>1. CASE i < k
      <4>1. i - 1 < k /\ j = i /\ j # k + 1
        BY <1>1, <2>1, <3>1
      <4> QED
        BY <1>2, <2>1, <4>1
    <3>2. CASE i = k
      <4>1. i - 1 < k /\ j = k + 1 /\ i - 1 = k - 1
        BY <1>1, <2>1, <3>2
      <4> QED
        BY <1>2, <2>1, <4>1
    <3>3. CASE i > k
      <4>1. ~(i - 1 < k) /\ j = i + 1 /\ j # k + 1 /\ (i - 1) + 1 = j - 1
        BY <1>1, <2>1, <3>3
      <4> QED
        BY <1>2, <2>1, <4>1
    <3> QED
      BY <2>1, <3>1, <3>2, <3>3
  <2>4. NodeAt(s2, i + 1) = IF j = k - 1 THEN q ELSE NodeAt(s, j + 1)
    <3>1. CASE i + 1 < k
      <4>1. j = i /\ j # k - 1
        BY <1>1, <2>1, <3>1
      <4> QED
        BY <1>2, <2>1, <3>1, <4>1
    <3>2. CASE i + 1 = k
      <4>1. j = k - 1 /\ ~(i + 1 < k) /\ (i + 1) + 1 = k + 1
        BY <1>1, <2>1, <3>2
      <4> QED
        BY <1>2, <2>1, <4>1
    <3>3. CASE i + 1 > k
      <4>1. ~(i + 1 < k) /\ j = i + 1 /\ j # k - 1 /\ (i + 1) + 1 = j + 1
        BY <1>1, <2>1, <3>3
      <4> QED
        BY <1>2, <2>1, <4>1
    <3> QED
      BY <2>1, <3>1, <3>2, <3>3
  <2> HIDE DEF j
  <2>5. (s[j] = p <=> j = k - 1) /\ (s[j] = q <=> j = k + 1)
    BY <1>6, <2>1
  <2>6. heap2[s2[i]] = [heap[s[j]] EXCEPT !.next = IF s[j] = p THEN q ELSE @,
                                            !.prev = IF s[j] = q THEN p ELSE @]
    BY <1>8, <2>1
  <2>7. heap2[s2[i]] = [prev |-> IF j = k + 1 THEN p ELSE NodeAt(s, j - 1),
                         next |-> IF j = k - 1 THEN q ELSE NodeAt(s, j + 1),
                         value |-> xs[j]]
    <3>1. heap2[s2[i]] = [prev |-> IF s[j] = q THEN p ELSE NodeAt(s, j - 1),
                           next |-> IF s[j] = p THEN q ELSE NodeAt(s, j + 1),
                           value |-> xs[j]]
      <4> DEFINE r == heap[s[j]]
                 x == IF s[j] = p THEN q ELSE r.next
                 y == IF s[j] = q THEN p ELSE r.prev
      <4>1. heap2[s2[i]] = [r EXCEPT !.next = x, !.prev = y]
        BY <2>6
      <4>2. x = IF s[j] = p THEN q ELSE NodeAt(s, j + 1)
        BY <2>2
      <4>3. y = IF s[j] = q THEN p ELSE NodeAt(s, j - 1)
        BY <2>2
      <4> HIDE DEF r, x, y
      <4>4. r = [prev |-> NodeAt(s, j - 1), next |-> NodeAt(s, j + 1), value |-> xs[j]]
        BY <2>2 DEF r
      <4>5. [r EXCEPT !.next = x, !.prev = y] = [prev |-> y, next |-> x, value |-> xs[j]]
        <5> DEFINE a == NodeAt(s, j - 1)
                   b == NodeAt(s, j + 1)
                   c == xs[j]
                   once == [r EXCEPT !.next = x]
        <5>1. r = [prev |-> a, next |-> b, value |-> c]
          BY <4>4
        <5> HIDE DEF a, b, c
        <5>2. once = [prev |-> a, next |-> x, value |-> c]
          BY <5>1
        <5>3. [r EXCEPT !.next = x, !.prev = y] = [once EXCEPT !.prev = y]
          OBVIOUS
        <5> HIDE DEF once
        <5>4. [once EXCEPT !.prev = y] = [prev |-> y, next |-> x, value |-> c]
          BY <5>2
        <5> QED
          BY <5>3, <5>4 DEF c
      <4> QED
        BY <4>1, <4>2, <4>3, <4>5
    <3> QED
      BY <2>5, <3>1
  <2> QED
    BY <2>1, <2>3, <2>4, <2>7
<1>17. Linked(S, s2, heap2, h2, t2, xs2)
  BY <1>2, <1>3, <1>12, <1>13, <1>14, <1>15, <1>16 DEF Linked
<1> QED
  BY <1>17 DEF s2, heap2, xs2

-----------------------------------------------------------------------------
(* The steps of the list. *)

ListOK == \E s \in Seq(Node) : Linked(Elem, s, lnodes, lhead, ltail, items)

LEMMA ListIsRead ==
  ASSUME NEW s, Linked(Elem, s, lnodes, lhead, ltail, items)
  PROVE  /\ Onward = s /\ Homeward = Reverse(s)
         /\ Range(s) = DOMAIN lnodes
         /\ items = [k \in DOMAIN s |-> lnodes[s[k]].value]
<1>1. /\ Followed(lhead, Nexts(lnodes)) = s
      /\ Followed(ltail, Prevs(lnodes)) = Reverse(s)
      /\ Range(s) = DOMAIN lnodes
      /\ items = Values(s, lnodes)
  BY LinkedIsRead
<1> QED
  BY <1>1, Zenon DEF Onward, Homeward, Nexts, Prevs, Values

\* Memory for one more node is found.
LEMMA NewNode ==
  ASSUME NEW D \in SUBSET Node, D # Node
  PROVE  Min(Node \ D) \in Node \ D
<1>1. Node \ D \in SUBSET Nat /\ Node \ D # {}
  <2>1. Node \subseteq Nat
    BY LinksAssumption DEF Node
  <2> QED
    BY <2>1
<1>2. PICK n \in Node \ D : \A m \in Node \ D : n <= m
  BY <1>1, LeastElement
<1> QED
  BY <1>2 DEF Min

\* A node is put in as the k-th.
LEMMA InsertStep ==
  ASSUME NEW s, Linked(Elem, s, lnodes, lhead, ltail, items), DOMAIN lnodes # Node,
         NEW k \in 1 .. Len(s) + 1, NEW x \in Elem, NEW p, NEW q,
         p = NodeAt(s, k - 1), q = NodeAt(s, k), Insert(p, q, x),
         items' = With(items, k, x)
  PROVE  ListOK'
<1> DEFINE n == Min(Node \ DOMAIN lnodes)
<1>1. DOMAIN lnodes \subseteq Node /\ s \in Seq(Node)
  BY NodesAreNodes DEF Linked
<1>2. n \in Node /\ n \notin DOMAIN lnodes
  BY <1>1, NewNode
<1>3. /\ lnodes' = Inserted(lnodes, n, p, q, x)
      /\ lhead' = IF lhead = q THEN n ELSE lhead
      /\ ltail' = IF ltail = p THEN n ELSE ltail
  BY DEF Insert, Inserted
<1> HIDE DEF n
<1>4. Linked(Elem, With(s, k, n), lnodes', lhead', ltail', items')
  BY <1>2, <1>3, InsertKeeps
<1>5. With(s, k, n) \in Seq(Node)
  BY <1>1, <1>2, WithIs
<1> QED
  BY <1>4, <1>5 DEF ListOK

LEMMA PushHeadKeeps ==
  ASSUME ListOK, NEW x \in Elem, colist_push_head(x)
  PROVE  ListOK'
<1>1. PICK s \in Seq(Node) : Linked(Elem, s, lnodes, lhead, ltail, items)
  BY DEF ListOK
<1>2. /\ 1 \in 1 .. Len(s) + 1 /\ NodeAt(s, 1 - 1) = NULL /\ NodeAt(s, 1) = lhead
      /\ items \in Seq(Elem) /\ Len(s) \in Nat
  BY <1>1 DEF Linked, NodeAt
<1>3. items' = With(items, 1, x)
  BY <1>2, EndsAreWith DEF colist_push_head
<1> QED
  BY <1>1, <1>2, <1>3, InsertStep DEF colist_push_head

LEMMA PushTailKeeps ==
  ASSUME ListOK, NEW x \in Elem, colist_push_tail(x)
  PROVE  ListOK'
<1>1. PICK s \in Seq(Node) : Linked(Elem, s, lnodes, lhead, ltail, items)
  BY DEF ListOK
<1> DEFINE k == Len(s) + 1
<1>2. /\ k \in 1 .. Len(s) + 1 /\ k - 1 = Len(s)
      /\ NodeAt(s, Len(s)) = ltail /\ NodeAt(s, k) = NULL
      /\ items \in Seq(Elem) /\ Len(items) = Len(s)
  BY <1>1 DEF Linked, NodeAt
<1>3. items' = With(items, k, x)
  BY <1>2, EndsAreWith DEF colist_push_tail
<1> HIDE DEF k
<1> QED
  BY <1>1, <1>2, <1>3, InsertStep DEF colist_push_tail

LEMMA PushAtKeeps ==
  ASSUME ListOK, NEW i \in DOMAIN Onward, NEW x \in Elem, NEW before \in BOOLEAN,
         colist_push_at(i, x, before)
  PROVE  ListOK'
<1>1. PICK s \in Seq(Node) : Linked(Elem, s, lnodes, lhead, ltail, items)
  BY DEF ListOK
<1>2. /\ Onward = s /\ i \in 1 .. Len(s) /\ Len(s) \in Nat
      /\ items \in Seq(Elem) /\ Len(items) = Len(s)
  BY <1>1, ListIsRead DEF Linked
<1>3. /\ lnodes[s[i]] = [prev |-> NodeAt(s, i - 1), next |-> NodeAt(s, i + 1),
                          value |-> items[i]]
      /\ NodeAt(s, i) = s[i]
  BY <1>1, <1>2 DEF Linked, NodeAt
<1>4. DOMAIN lnodes # Node
  BY DEF colist_push_at
<1>5. CASE before
  <2>1. Insert(NodeAt(s, i - 1), NodeAt(s, i), x) /\ items' = InsertAt(items, i, x)
    BY <1>2, <1>3, <1>5 DEF colist_push_at
  <2>2. i \in 1 .. Len(s) + 1 /\ i \in 1 .. Len(items) + 1
    BY <1>2
  <2>3. items' = With(items, i, x)
    BY <1>2, <2>1, <2>2, InsertAtIsWith
  <2> QED
    BY <1>1, <1>4, <2>1, <2>2, <2>3, InsertStep
<1>6. CASE ~before
  <2> DEFINE k == i + 1
  <2>1. Insert(NodeAt(s, i), NodeAt(s, k), x) /\ items' = InsertAt(items, k, x)
    BY <1>2, <1>3, <1>6 DEF colist_push_at
  <2>2. k \in 1 .. Len(s) + 1 /\ k \in 1 .. Len(items) + 1 /\ k - 1 = i
    BY <1>2
  <2> HIDE DEF k
  <2>3. items' = With(items, k, x)
    BY <1>2, <2>1, <2>2, InsertAtIsWith
  <2> QED
    BY <1>1, <1>4, <2>1, <2>2, <2>3, InsertStep
<1> QED
  BY <1>5, <1>6

LEMMA PopAtKeeps ==
  ASSUME ListOK, NEW i \in DOMAIN Onward, colist_pop_at(i)
  PROVE  ListOK'
<1>1. PICK s \in Seq(Node) : Linked(Elem, s, lnodes, lhead, ltail, items)
  BY DEF ListOK
<1>2. /\ Onward = s /\ i \in 1 .. Len(s) /\ Len(s) \in Nat
      /\ items \in Seq(Elem) /\ Len(items) = Len(s)
  BY <1>1, ListIsRead DEF Linked
<1> DEFINE n == s[i]
           p == NodeAt(s, i - 1)
           q == NodeAt(s, i + 1)
<1>3. lnodes[n] = [prev |-> p, next |-> q, value |-> items[i]]
  BY <1>1, <1>2 DEF Linked
<1>4. /\ lnodes' = Removed(lnodes, n, p, q)
      /\ lhead' = IF lhead = n THEN q ELSE lhead
      /\ ltail' = IF ltail = n THEN p ELSE ltail
      /\ items' = RemoveAt(items, i)
  <2>1. lnodes[n].prev = p /\ lnodes[n].next = q
    BY <1>3
  <2> HIDE DEF p, q, n
  <2>2. n = Onward[i]
    BY <1>2 DEF n
  <2> QED
    BY <2>1, <2>2 DEF colist_pop_at, Removed
<1>5. items' = Without(items, i)
  BY <1>2, <1>4, RemoveAtIsWithout
<1>6. Linked(Elem, Without(s, i), lnodes', lhead', ltail', items')
  BY <1>1, <1>2, <1>4, <1>5, RemoveKeeps
<1>7. Without(s, i) \in Seq(Node)
  BY <1>2, WithoutIs
<1> QED
  BY <1>6, <1>7 DEF ListOK

-----------------------------------------------------------------------------
(* The inductive invariant. *)

VLInv == \/ form = "vec" /\ VectorOK
         \/ form = "list" /\ ListOK

LEMMA InitVLInv == VLInit => VLInv
<1> SUFFICES ASSUME VLInit PROVE VLInv
  OBVIOUS
<1> USE DEF VLInit
<1>1. CASE form = "vec"
  <2>1. InVector(0, vdata, vsize, items)
    BY DEF InVector
  <2> QED
    BY <1>1, <2>1 DEF VLInv, VectorOK
<1>2. CASE form = "list"
  <2>1. Linked(Elem, <<>>, lnodes, lhead, ltail, items) /\ <<>> \in Seq(Node)
    BY DEF Linked, OnceEach, NodeAt, NULL
  <2>2. ListOK
    BY <2>1 DEF ListOK
  <2> QED
    BY <1>2, <2>2 DEF VLInv
<1> QED
  BY <1>1, <1>2

LEMMA NextVLInv == VLInv /\ [VLNext]_vlvars => VLInv'
<1> SUFFICES ASSUME VLInv, [VLNext]_vlvars PROVE VLInv'
  OBVIOUS
<1>0. MaxItems \in Nat /\ (form = "vec" => VectorOK) /\ (form = "list" => ListOK)
  BY VecListAssumption DEF VLInv
<1>1. ASSUME NEW index \in -MaxItems .. MaxItems, NEW x \in Elem,
             covec_push(index, x) \/ covec_set(index, x)
      PROVE  VLInv'
  <2>1. form = "vec" /\ form' = "vec" /\ index \in Int
    BY <1>0, <1>1 DEF covec_push, covec_set
  <2>2. VectorOK'
    BY <1>0, <1>1, <2>1, PushKeeps, SetKeeps
  <2> QED
    BY <2>1, <2>2 DEF VLInv
<1>2. ASSUME NEW index \in -MaxItems .. MaxItems, covec_del(index) PROVE VLInv'
  <2>1. form = "vec" /\ form' = "vec" /\ index \in Int
    BY <1>0, <1>2 DEF covec_del
  <2>2. VectorOK'
    BY <1>0, <1>2, <2>1, DelKeeps
  <2> QED
    BY <2>1, <2>2 DEF VLInv
<1>3. ASSUME NEW k \in -1 .. MaxItems - 1, NEW l \in -1 .. MaxItems - 1, covec_swap(k, l)
      PROVE  VLInv'
  <2>1. form = "vec" /\ form' = "vec" /\ k \in Int /\ l \in Int
    BY <1>0, <1>3 DEF covec_swap
  <2>2. VectorOK'
    BY <1>0, <1>3, <2>1, SwapKeeps
  <2> QED
    BY <2>1, <2>2 DEF VLInv
<1>4. ASSUME NEW n \in 0 .. MaxItems, covec_resize(n) \/ covec_growcap(n) PROVE VLInv'
  <2>1. form = "vec" /\ form' = "vec" /\ n \in Nat
    BY <1>0, <1>4 DEF covec_resize, covec_growcap
  <2>2. VectorOK'
    BY <1>0, <1>4, <2>1, ResizeKeeps, OtherVectorSteps
  <2> QED
    BY <2>1, <2>2 DEF VLInv
<1>5. CASE covec_copy \/ covec_clear
  <2>1. form = "vec" /\ form' = "vec"
    BY <1>5 DEF covec_copy, covec_clear
  <2>2. VectorOK'
    BY <1>0, <1>5, <2>1, OtherVectorSteps
  <2> QED
    BY <2>1, <2>2 DEF VLInv
<1>6. ASSUME NEW x \in Elem, colist_push_head(x) \/ colist_push_tail(x) PROVE VLInv'
  <2>1. form = "list" /\ form' = "list"
    BY <1>6 DEF colist_push_head, colist_push_tail, Insert
  <2>2. ListOK'
    BY <1>0, <1>6, <2>1, PushHeadKeeps, PushTailKeeps
  <2> QED
    BY <2>1, <2>2 DEF VLInv
<1>7. ASSUME NEW i \in DOMAIN Onward, NEW x \in Elem, NEW before \in BOOLEAN,
             colist_push_at(i, x, before)
      PROVE  VLInv'
  <2>1. form = "list" /\ form' = "list"
    BY <1>7 DEF colist_push_at, Insert
  <2>2. ListOK'
    BY <1>0, <1>7, <2>1, PushAtKeeps
  <2> QED
    BY <2>1, <2>2 DEF VLInv
<1>8. ASSUME NEW i \in DOMAIN Onward, colist_pop_at(i) PROVE VLInv'
  <2>1. form = "list" /\ form' = "list"
    BY <1>8 DEF colist_pop_at
  <2>2. ListOK'
    BY <1>0, <1>8, <2>1, PopAtKeeps
  <2> QED
    BY <2>1, <2>2 DEF VLInv
<1>9. CASE UNCHANGED vlvars
  <2>1. UNCHANGED <<form, items, vdata, vsize, lnodes, lhead, ltail>>
    BY <1>9 DEF vlvars, vec, list
  <2> QED
    BY <2>1 DEF VLInv, VectorOK, ListOK
<1> QED
  BY <1>1, <1>2, <1>3, <1>4, <1>5, <1>6, <1>7, <1>8, <1>9 DEF VLNext

\* What the invariant says of the cells and the pointers is what is read through them.
LEMMA VLInvHolds == VLInv => HoldsItems
<1> SUFFICES ASSUME VLInv PROVE HoldsItems
  OBVIOUS
<1>1. CASE form = "vec" /\ VectorOK
  <2>1. /\ vcap \in Nat /\ vsize \in 0 .. vcap
        /\ items \in Seq(Cells) /\ Len(items) = vsize
        /\ \A j \in 1 .. vsize : items[j] = vdata[j - 1]
    BY <1>1, VectorFacts
  <2>2. items = [k \in 1 .. vsize |-> items[k]]
    BY <2>1
  <2>3. items = [k \in 1 .. vsize |-> vdata[k - 1]]
    BY <2>1, <2>2
  <2>4. vsize <= vcap
    BY <2>1
  <2> QED
    BY <1>1, <2>3, <2>4 DEF HoldsItems
<1>2. CASE form = "list" /\ ListOK
  <2>1. PICK s \in Seq(Node) : Linked(Elem, s, lnodes, lhead, ltail, items)
    BY <1>2 DEF ListOK
  <2>2. /\ Onward = s /\ Homeward = Reverse(s) /\ Range(s) = DOMAIN lnodes
        /\ items = [k \in DOMAIN s |-> lnodes[s[k]].value]
    BY <2>1, ListIsRead
  <2> QED
    BY <1>2, <2>2 DEF HoldsItems
<1> QED
  BY <1>1, <1>2 DEF VLInv

\* Whatever was inserted, deleted, moved, resized, copied and enlarged, the vector
\* (co_vec.c) holds it in this order within its storage, for every least capacity, and the
\* list (co_list.c) is it when followed from either end, and has no other nodes.
THEOREM HoldsItemsAlways == VLSpec => []HoldsItems
<1>1. VLSpec => []VLInv
  BY InitVLInv, NextVLInv, PTL DEF VLSpec
<1> QED
  BY <1>1, VLInvHolds, PTL

-----------------------------------------------------------------------------
(* Chains. *)

\* From start on, the nodes of ch in this order are linked by next.
Path(ch, start, heap) ==
  /\ ch \in Seq(Node) /\ OnceEach(ch)
  /\ start = NodeAt(ch, 1)
  /\ \A i \in 1 .. Len(ch) : heap[ch[i]].next = NodeAt(ch, i + 1)

LEMMA RangeIs ==
  ASSUME NEW S, NEW s \in Seq(S)
  PROVE  /\ \A x : x \in Range(s) <=> \E i \in 1 .. Len(s) : s[i] = x
         /\ \A i \in 1 .. Len(s) : s[i] \in Range(s)
<1>1. DOMAIN s = 1 .. Len(s)
  OBVIOUS
<1> QED
  BY <1>1 DEF Range

LEMMA PathSame ==
  ASSUME NEW ch, NEW start, NEW heap, Path(ch, start, heap), NEW heap2,
         \A m \in Range(ch) : heap2[m].next = heap[m].next
  PROVE  Path(ch, start, heap2)
<1>1. ch \in Seq(Node)
  BY DEF Path
<1>2. \A i \in 1 .. Len(ch) : ch[i] \in Range(ch)
  BY <1>1, RangeIs
<1> QED
  BY <1>2 DEF Path

\* A chain is what is found when it is followed.
LEMMA PathIsRead ==
  ASSUME NEW ch, NEW start, NEW heap, Path(ch, start, heap), Range(ch) \subseteq DOMAIN heap
  PROVE  Followed(start, Nexts(heap)) = ch
<1>1. ch \in Seq(Node) /\ OnceEach(ch) /\ start = NodeAt(ch, 1)
  BY DEF Path
<1>2. \A i \in 1 .. Len(ch) : ch[i] \in DOMAIN heap
  BY <1>1, RangeIs
<1>3. \A i \in 1 .. Len(ch) : Nexts(heap)[ch[i]] = NodeAt(ch, i + 1)
  BY <1>2 DEF Path, Nexts
<1> QED
  BY <1>1, <1>3, FollowedIs

\* A node is put in front of a chain.
LEMMA PathFront ==
  ASSUME NEW ch, NEW start, NEW heap, Path(ch, start, heap),
         NEW n \in Node, n \notin Range(ch), NEW heap2,
         heap2[n].next = start, \A m \in Range(ch) : heap2[m].next = heap[m].next
  PROVE  Path(With(ch, 1, n), n, heap2) /\ Range(With(ch, 1, n)) = Range(ch) \cup {n}
<1> DEFINE L == Len(ch)
           ch2 == With(ch, 1, n)
<1>1. /\ ch \in Seq(Node) /\ L \in Nat /\ start = NodeAt(ch, 1)
      /\ \A i, j \in 1 .. L : ch[i] = ch[j] => i = j
      /\ \A i \in 1 .. L : heap[ch[i]].next = NodeAt(ch, i + 1)
  BY DEF Path, OnceEach
<1>2. /\ \A i \in 1 .. L : ch[i] \in Range(ch) /\ ch[i] # n
      /\ \A x \in Range(ch) : \E i \in 1 .. L : ch[i] = x
  BY <1>1, RangeIs
<1>3. /\ ch2 \in Seq(Node) /\ Len(ch2) = L + 1
      /\ \A i \in Int : NodeAt(ch2, i) = IF i < 1 THEN NodeAt(ch, i)
                                         ELSE IF i = 1 THEN n ELSE NodeAt(ch, i - 1)
      /\ ch2[1] = n
      /\ \A i \in 2 .. L + 1 : i - 1 \in 1 .. L /\ ch2[i] = ch[i - 1]
  <2>1. 1 \in 1 .. L + 1
    BY <1>1
  <2>2. ch2 \in Seq(Node) /\ Len(ch2) = L + 1
    BY <1>1, <2>1, WithIs
  <2>3. \A i \in Int : NodeAt(ch2, i) = IF i < 1 THEN NodeAt(ch, i)
                                         ELSE IF i = 1 THEN n ELSE NodeAt(ch, i - 1)
    BY <1>1, <2>1, NodeOfWith
  <2>4. \A i \in 1 .. L + 1 : ch2[i] = IF i < 1 THEN ch[i] ELSE IF i = 1 THEN n ELSE ch[i - 1]
    BY DEF With
  <2>5. \A i \in 2 .. L + 1 : i \in 1 .. L + 1 /\ ~(i < 1) /\ i # 1 /\ i - 1 \in 1 .. L
    BY <1>1
  <2> QED
    BY <2>1, <2>2, <2>3, <2>4, <2>5
<1> HIDE DEF L, ch2
<1>4. OnceEach(ch2)
  <2> SUFFICES ASSUME NEW i \in 1 .. L + 1, NEW j \in 1 .. L + 1, ch2[i] = ch2[j] PROVE i = j
    BY <1>3 DEF OnceEach
  <2>1. \A a \in 1 .. L + 1 : a = 1 \/ a \in 2 .. L + 1
    BY <1>1
  <2>2. CASE i = 1 /\ j \in 2 .. L + 1
    BY <1>2, <1>3, <2>2
  <2>3. CASE j = 1 /\ i \in 2 .. L + 1
    BY <1>2, <1>3, <2>3
  <2>4. CASE i \in 2 .. L + 1 /\ j \in 2 .. L + 1
    <3>1. i - 1 = j - 1
      BY <1>1, <1>3, <2>4
    <3> QED
      BY <3>1
  <2> QED
    BY <2>1, <2>2, <2>3, <2>4
<1>5. n = NodeAt(ch2, 1)
  BY <1>3
<1>6. ASSUME NEW i \in 1 .. L + 1 PROVE heap2[ch2[i]].next = NodeAt(ch2, i + 1)
  <2>1. i + 1 \in Int /\ ~(i + 1 < 1) /\ i + 1 # 1 /\ (i + 1) - 1 = i
    BY <1>1
  <2>2. NodeAt(ch2, i + 1) = NodeAt(ch, i)
    BY <1>3, <2>1
  <2>3. CASE i = 1
    BY <1>1, <1>3, <2>2, <2>3
  <2>4. CASE i # 1
    <3>1. i \in 2 .. L + 1 /\ (i - 1) + 1 = i
      BY <1>1, <2>4
    <3>2. ch2[i] = ch[i - 1] /\ i - 1 \in 1 .. L
      BY <1>3, <3>1
    <3>3. heap2[ch[i - 1]].next = heap[ch[i - 1]].next
      BY <1>2, <3>2
    <3> QED
      BY <1>1, <2>2, <3>1, <3>2, <3>3
  <2> QED
    BY <2>3, <2>4
<1>7. Range(ch2) = Range(ch) \cup {n}
  <2>1. ASSUME NEW x \in Range(ch2) PROVE x \in Range(ch) \cup {n}
    <3>1. PICK i \in 1 .. L + 1 : ch2[i] = x
      BY <1>3, RangeIs
    <3>2. i = 1 \/ i \in 2 .. L + 1
      BY <1>1
    <3> QED
      BY <1>2, <1>3, <3>1, <3>2
  <2>2. ASSUME NEW x \in Range(ch) PROVE x \in Range(ch2)
    <3>1. PICK i \in 1 .. L : ch[i] = x
      BY <1>2
    <3>2. i + 1 \in 2 .. L + 1 /\ i + 1 \in 1 .. L + 1 /\ (i + 1) - 1 = i
      BY <1>1
    <3>3. ch2[i + 1] = x
      BY <1>3, <3>1, <3>2
    <3> QED
      BY <1>3, <3>2, <3>3, RangeIs
  <2>3. n \in Range(ch2)
    <3>1. 1 \in 1 .. Len(ch2)
      BY <1>1, <1>3
    <3> QED
      BY <1>3, <3>1, RangeIs
  <2> QED
    BY <2>1, <2>2, <2>3
<1>8. Path(ch2, n, heap2)
  BY <1>3, <1>4, <1>5, <1>6 DEF Path
<1> QED
  BY <1>7, <1>8 DEF ch2

\* A node is taken out of a chain.
LEMMA PathWithout ==
  ASSUME NEW ch, NEW start, NEW heap, Path(ch, start, heap), NEW k \in 1 .. Len(ch),
         NEW heap2, NEW start2,
         \A j \in 1 .. Len(ch) :
           j # k => heap2[ch[j]].next = IF j = k - 1 THEN heap[ch[k]].next ELSE heap[ch[j]].next,
         start2 = IF k = 1 THEN heap[ch[k]].next ELSE start
  PROVE  Path(Without(ch, k), start2, heap2) /\ Range(Without(ch, k)) = Range(ch) \ {ch[k]}
<1> DEFINE L == Len(ch)
           ch2 == Without(ch, k)
           Old(i) == IF i < k THEN i ELSE i + 1
<1>1. /\ ch \in Seq(Node) /\ L \in Nat /\ k \in 1 .. L /\ start = NodeAt(ch, 1)
      /\ \A i, j \in 1 .. L : ch[i] = ch[j] => i = j
      /\ \A i \in 1 .. L : heap[ch[i]].next = NodeAt(ch, i + 1)
  BY DEF Path, OnceEach
<1>2. /\ ch2 \in Seq(Node) /\ Len(ch2) = L - 1
      /\ \A i \in Int : NodeAt(ch2, i) = NodeAt(ch, Old(i))
      /\ \A i \in 1 .. L - 1 : ch2[i] = ch[Old(i)]
  <2>1. ch2 \in Seq(Node) /\ Len(ch2) = L - 1
    BY <1>1, WithoutIs
  <2>2. \A i \in Int : NodeAt(ch2, i) = IF i < k THEN NodeAt(ch, i) ELSE NodeAt(ch, i + 1)
    BY <1>1, NodeOfWithout
  <2>3. \A i \in 1 .. L - 1 : ch2[i] = IF i < k THEN ch[i] ELSE ch[i + 1]
    BY DEF Without
  <2> QED
    BY <2>1, <2>2, <2>3
<1> HIDE DEF L, ch2
<1>3. /\ \A i \in 1 .. L - 1 : Old(i) \in 1 .. L /\ Old(i) # k
      /\ \A i, j \in 1 .. L - 1 : Old(i) = Old(j) => i = j
      /\ \A j \in 1 .. L : j # k => \E i \in 1 .. L - 1 : Old(i) = j
  <2>1. \A i \in 1 .. L - 1 : Old(i) \in 1 .. L /\ Old(i) # k
    BY <1>1
  <2>2. \A i, j \in 1 .. L - 1 : Old(i) = Old(j) => i = j
    BY <1>1
  <2>3. ASSUME NEW j \in 1 .. L, j # k PROVE \E i \in 1 .. L - 1 : Old(i) = j
    <3>1. CASE j < k
      <4>1. j \in 1 .. L - 1 /\ Old(j) = j
        BY <1>1, <3>1
      <4> QED
        BY <4>1
    <3>2. CASE j > k
      <4>1. j - 1 \in 1 .. L - 1 /\ Old(j - 1) = j
        BY <1>1, <3>2
      <4> QED
        BY <4>1
    <3> QED
      BY <1>1, <2>3, <3>1, <3>2
  <2> QED
    BY <2>1, <2>2, <2>3
<1>4. OnceEach(ch2)
  <2> SUFFICES ASSUME NEW i \in 1 .. L - 1, NEW j \in 1 .. L - 1, ch2[i] = ch2[j] PROVE i = j
    BY <1>2 DEF OnceEach
  <2> HIDE DEF Old
  <2>1. Old(i) = Old(j)
    BY <1>1, <1>2, <1>3
  <2> QED
    BY <1>3, <2>1
<1>5. start2 = NodeAt(ch2, 1)
  <2>1. CASE k = 1
    <3>1. 1 \in Int /\ Old(1) = k + 1
      BY <2>1
    <3> QED
      BY <1>1, <1>2, <2>1, <3>1
  <2>2. CASE k # 1
    <3>1. 1 \in Int /\ Old(1) = 1
      BY <1>1, <2>2
    <3> QED
      BY <1>1, <1>2, <2>2, <3>1
  <2> QED
    BY <2>1, <2>2
<1>6. ASSUME NEW i \in 1 .. L - 1 PROVE heap2[ch2[i]].next = NodeAt(ch2, i + 1)
  <2>0. i + 1 \in Int
    BY <1>1
  <2>1. ch2[i] = ch[Old(i)] /\ NodeAt(ch2, i + 1) = NodeAt(ch, Old(i + 1))
    <3> HIDE DEF Old
    <3> QED
      BY <1>2, <2>0
  <2>2. heap2[ch[Old(i)]].next = IF Old(i) = k - 1 THEN heap[ch[k]].next
                                 ELSE heap[ch[Old(i)]].next
    <3> HIDE DEF Old
    <3> QED
      BY <1>3 DEF L
  <2>3. Old(i + 1) = IF Old(i) = k - 1 THEN k + 1 ELSE Old(i) + 1
    BY <1>1
  <2>4. heap[ch[k]].next = NodeAt(ch, k + 1) /\ heap[ch[Old(i)]].next = NodeAt(ch, Old(i) + 1)
    <3> HIDE DEF Old
    <3> QED
      BY <1>1, <1>3
  <2> HIDE DEF Old
  <2> QED
    BY <2>1, <2>2, <2>3, <2>4
<1>7. Range(ch2) = Range(ch) \ {ch[k]}
  <2> HIDE DEF Old
  <2>1. ASSUME NEW x \in Range(ch2) PROVE x \in Range(ch) \ {ch[k]}
    <3>1. PICK i \in 1 .. L - 1 : ch2[i] = x
      BY <1>2, RangeIs
    <3>2. Old(i) \in 1 .. L /\ Old(i) # k /\ x = ch[Old(i)]
      BY <1>2, <1>3, <3>1
    <3>3. ch[Old(i)] # ch[k]
      BY <1>1, <3>2
    <3> QED
      BY <1>1, <3>2, <3>3, RangeIs DEF L
  <2>2. ASSUME NEW x \in Range(ch), x # ch[k] PROVE x \in Range(ch2)
    <3>1. PICK j \in 1 .. L : ch[j] = x
      BY <1>1, RangeIs DEF L
    <3>2. j # k
      BY <2>2, <3>1
    <3>3. PICK i \in 1 .. L - 1 : Old(i) = j
      BY <1>3, <3>2
    <3>4. ch2[i] = x
      BY <1>2, <3>1, <3>3
    <3> QED
      BY <1>2, <3>4, RangeIs
  <2> QED
    BY <2>1, <2>2
<1>8. Path(ch2, start2, heap2)
  BY <1>2, <1>4, <1>5, <1>6 DEF Path
<1> QED
  BY <1>7, <1>8 DEF ch2

-----------------------------------------------------------------------------
(* The dictionary: its table. *)

DictEntry == [key : Key, value : Val]

DictNode == [key : Key, value : Val, next : Node \cup {NULL},
             listprev : Node \cup {NULL}, listnext : Node \cup {NULL}]

\* No two nodes have the same key.
NodesOK(heap) == /\ heap \in [DOMAIN heap -> DictNode] /\ DOMAIN heap \subseteq Node
                 /\ \A m, n \in DOMAIN heap : heap[m].key = heap[n].key => m = n

OfBucket(heap, c, b) == {n \in DOMAIN heap : Hash[heap[n].key] % c = b}

\* Of c buckets each has a chain, of the nodes of which the keys belong there.
InChain(ch, bs, heap, c, b) == Path(ch, bs[b], heap) /\ Range(ch) = OfBucket(heap, c, b)

TableOK(bs, heap, c) == /\ c \in Nat \ {0} /\ bs \in [0 .. c - 1 -> Node \cup {NULL}]
                        /\ \A b \in 0 .. c - 1 : \E ch : InChain(ch, bs, heap, c, b)

LEMMA ZeroTo ==
  ASSUME NEW c \in Nat
  PROVE  Cardinality(0 .. c - 1) = c
<1>1. Cardinality(0 .. c - 1) = IF 0 > c - 1 THEN 0 ELSE (c - 1) - 0 + 1
  BY FS_Interval
<1> QED
  BY <1>1

LEMMA CapIs ==
  ASSUME NEW c, TableOK(buckets, nodes, c)
  PROVE  cap = c
<1>1. c \in Nat /\ DOMAIN buckets = 0 .. c - 1
  BY DEF TableOK
<1> QED
  BY <1>1, ZeroTo DEF cap

LEMMA HashIn ==
  ASSUME NEW c \in Nat \ {0}, NEW k \in Key
  PROVE  (Hash[k] % c) \in 0 .. c - 1
<1>1. Hash[k] \in Nat
  BY DictAssumption
<1> QED
  BY <1>1

LEMMA ChainIs ==
  ASSUME NEW c, NEW b, NEW ch, InChain(ch, buckets, nodes, c, b)
  PROVE  Chain(b) = ch
<1>1. Path(ch, buckets[b], nodes) /\ Range(ch) \subseteq DOMAIN nodes
  BY DEF InChain, OfBucket
<1>2. Followed(buckets[b], Nexts(nodes)) = ch
  BY <1>1, PathIsRead
<1> QED
  BY <1>2, Zenon DEF Chain, Nexts

\* A key that is there is found in its bucket, once, and no other is.
LEMMA LookUp ==
  ASSUME NodesOK(nodes), NEW c, TableOK(buckets, nodes, c), NEW k \in Key,
         NEW ch, InChain(ch, buckets, nodes, c, Hash[k] % c)
  PROVE  /\ Bucket(k) = Hash[k] % c
         /\ Chain(Bucket(k)) = ch
         /\ \/ /\ \A n \in DOMAIN nodes : nodes[n].key # k
               /\ Position(k) = 0 /\ codict_get(k) = NULL
            \/ \E i \in 1 .. Len(ch) : /\ ch[i] \in DOMAIN nodes /\ nodes[ch[i]].key = k
                                       /\ Position(k) = i /\ codict_get(k) = ch[i]
<1> DEFINE b == Hash[k] % c
           found == {i \in DOMAIN ch : nodes[ch[i]].key = k}
<1>1. Bucket(k) = b /\ Chain(b) = ch
  BY CapIs, ChainIs DEF Bucket
<1>2. ch \in Seq(Node) /\ Len(ch) \in Nat /\ DOMAIN ch = 1 .. Len(ch) /\ OnceEach(ch)
  BY DEF InChain, Path
<1>3. \A x : x \in Range(ch) <=> x \in DOMAIN nodes /\ Hash[nodes[x].key] % c = b
  BY DEF InChain, OfBucket
<1>4. \A i \in 1 .. Len(ch) : ch[i] \in Range(ch)
  BY <1>2, RangeIs
<1>5. Position(k) = IF found = {} THEN 0 ELSE Min(found)
  BY <1>1 DEF Position
<1>6. codict_get(k) = IF Position(k) = 0 THEN NULL ELSE ch[Position(k)]
  BY <1>1 DEF codict_get
<1> HIDE DEF b
<1>7. CASE \A n \in DOMAIN nodes : nodes[n].key # k
  <2>1. found = {}
    BY <1>2, <1>3, <1>4, <1>7
  <2> QED
    BY <1>1, <1>5, <1>6, <1>7, <2>1 DEF b
<1>8. CASE \E n \in DOMAIN nodes : nodes[n].key = k
  <2>1. PICK n \in DOMAIN nodes : nodes[n].key = k
    BY <1>8
  <2>2. n \in Range(ch)
    BY <1>3, <2>1 DEF b
  <2>3. PICK i \in 1 .. Len(ch) : ch[i] = n
    BY <1>2, <2>2, RangeIs
  <2>4. found = {i}
    <3>1. ASSUME NEW j \in found PROVE j = i
      <4>1. j \in 1 .. Len(ch) /\ ch[j] \in DOMAIN nodes /\ nodes[ch[j]].key = k
        BY <1>2, <1>3, <1>4, <3>1
      <4>2. ch[j] = n
        BY <2>1, <4>1 DEF NodesOK
      <4> QED
        BY <1>2, <2>3, <4>1, <4>2 DEF OnceEach
    <3>2. i \in found
      BY <1>2, <2>1, <2>3
    <3> QED
      BY <3>1, <3>2
  <2> HIDE DEF found
  <2>5. Min(found) = i
    <3>1. i \in found /\ \A y \in found : i <= y
      BY <2>4
    <3>2. \A x \in found : x = i
      BY <2>4
    <3> QED
      BY <3>1, <3>2 DEF Min
  <2>6. Position(k) = i /\ i # 0
    BY <1>2, <1>5, <2>4, <2>5
  <2>7. codict_get(k) = ch[i]
    BY <1>6, <2>6
  <2> QED
    BY <1>1, <2>1, <2>3, <2>6, <2>7 DEF b
<1> QED
  BY <1>7, <1>8

-----------------------------------------------------------------------------
(* The table is built anew from the list. *)

LEMMA LastOfNone ==
  ASSUME NEW s, NEW b, NEW c
  PROVE  LastOf(s, 0, b, c) = NULL
<1>1. {i \in 1 .. 0 : Hash[nodes[s[i]].key] % c = b} = {}
  OBVIOUS
<1> QED
  BY <1>1 DEF LastOf

\* The next node of the list is put in front of its bucket, the others stay.
LEMMA LastOfNext ==
  ASSUME NEW s, NEW b, NEW c, NEW n \in Nat \ {0}
  PROVE  LastOf(s, n, b, c) = IF Hash[nodes[s[n]].key] % c = b THEN s[n]
                              ELSE LastOf(s, n - 1, b, c)
<1> DEFINE h(i) == Hash[nodes[s[i]].key] % c
           is(m) == {i \in 1 .. m : h(i) = b}
<1>1. \A m : LastOf(s, m, b, c) = IF is(m) = {} THEN NULL ELSE s[Max(is(m))]
  BY DEF LastOf
<1> HIDE DEF h
<1>2. CASE h(n) = b
  <2>1. n \in is(n) /\ \A y \in is(n) : n >= y
    BY <1>2
  <2>2. \A x \in is(n) : (\A y \in is(n) : x >= y) => x = n
    <3> SUFFICES ASSUME NEW x \in is(n), \A y \in is(n) : x >= y PROVE x = n
      OBVIOUS
    <3>1. x >= n /\ x \in 1 .. n
      BY <2>1
    <3> QED
      BY <3>1
  <2>3. Max(is(n)) = n
    <3> HIDE DEF is
    <3> QED
      BY <2>1, <2>2 DEF Max
  <2>4. is(n) # {}
    BY <2>1
  <2>5. LastOf(s, n, b, c) = s[n]
    BY <1>1, <2>3, <2>4
  <2> QED
    BY <1>2, <2>5 DEF h
<1>3. CASE h(n) # b
  <2>1. is(n) = is(n - 1)
    <3>1. ASSUME NEW i PROVE i \in is(n) <=> i \in is(n - 1)
      <4>1. i \in 1 .. n <=> (i \in 1 .. n - 1 \/ i = n)
        OBVIOUS
      <4> QED
        BY <1>3, <4>1
    <3> HIDE DEF is
    <3> QED
      BY <3>1
  <2>2. LastOf(s, n, b, c) = LastOf(s, n - 1, b, c)
    BY <1>1, <2>1
  <2> QED
    BY <1>3, <2>2 DEF h
<1> QED
  BY <1>2, <1>3

\* Those of the first n nodes of s that belong in bucket b.
AmongFirst(s, n, b, c) == {s[i] : i \in {j \in 1 .. n : Hash[nodes[s[j]].key] % c = b}}

\* Every bucket has a chain of its nodes among those that were reached.
LEMMA ChainsAreBuilt ==
  ASSUME NEW s, s \in Seq(Node), OnceEach(s), NEW c, NEW b, NEW heap,
         \A i \in 1 .. Len(s) :
           heap[s[i]].next = LastOf(s, i - 1, Hash[nodes[s[i]].key] % c, c)
  PROVE  \A n \in 0 .. Len(s) :
           \E ch : Path(ch, LastOf(s, n, b, c), heap) /\ Range(ch) = AmongFirst(s, n, b, c)
<1> DEFINE h(i) == Hash[nodes[s[i]].key] % c
           of(n) == {s[i] : i \in {j \in 1 .. n : h(j) = b}}
           Built(n) == \E ch : Path(ch, LastOf(s, n, b, c), heap) /\ Range(ch) = of(n)
           Wrong == {n \in 0 .. Len(s) : ~Built(n)}
<1>1. /\ Len(s) \in Nat /\ \A i \in 1 .. Len(s) : s[i] \in Node
      /\ \A i, j \in 1 .. Len(s) : s[i] = s[j] => i = j
      /\ \A i \in 1 .. Len(s) : heap[s[i]].next = LastOf(s, i - 1, h(i), c)
  BY DEF OnceEach
<1>2. \A n \in Nat \ {0} : LastOf(s, n, b, c) = IF h(n) = b THEN s[n]
                                                ELSE LastOf(s, n - 1, b, c)
  BY LastOfNext
<1> HIDE DEF h
<1>3. Built(0)
  <2>1. LastOf(s, 0, b, c) = NULL
    BY LastOfNone
  <2>2. Path(<<>>, LastOf(s, 0, b, c), heap)
    BY <2>1 DEF Path, OnceEach, NodeAt
  <2>3. Range(<<>>) = {}
    BY DEF Range
  <2>4. of(0) = {}
    OBVIOUS
  <2> QED
    BY <2>2, <2>3, <2>4
<1>4. ASSUME NEW n \in 0 .. Len(s) - 1, Built(n) PROVE Built(n + 1)
  <2>1. n + 1 \in 1 .. Len(s) /\ n + 1 \in Nat \ {0} /\ n \in Nat /\ (n + 1) - 1 = n
    BY <1>1
  <2>2. PICK ch : Path(ch, LastOf(s, n, b, c), heap) /\ Range(ch) = of(n)
    BY <1>4
  <2>3. of(n + 1) = IF h(n + 1) = b THEN of(n) \cup {s[n + 1]} ELSE of(n)
    <3>1. \A i : i \in 1 .. n + 1 <=> (i \in 1 .. n \/ i = n + 1)
      BY <2>1
    <3> QED
      BY <3>1
  <2>4. s[n + 1] \notin of(n)
    <3> SUFFICES ASSUME NEW i \in 1 .. n, s[i] = s[n + 1] PROVE FALSE
      OBVIOUS
    <3>1. i \in 1 .. Len(s) /\ i # n + 1
      BY <1>1, <2>1
    <3> QED
      BY <1>1, <2>1, <3>1
  <2> HIDE DEF of
  <2>5. CASE h(n + 1) # b
    BY <1>2, <2>1, <2>2, <2>3, <2>5
  <2>6. CASE h(n + 1) = b
    <3> DEFINE x == s[n + 1]
    <3>1. heap[x].next = LastOf(s, n, b, c)
      BY <1>1, <2>1, <2>6
    <3>2. x \in Node /\ x \notin Range(ch)
      BY <1>1, <2>1, <2>2, <2>4
    <3> HIDE DEF x
    <3>3. Path(With(ch, 1, x), x, heap) /\ Range(With(ch, 1, x)) = Range(ch) \cup {x}
      BY <2>2, <3>1, <3>2, PathFront
    <3>4. LastOf(s, n + 1, b, c) = x
      BY <1>2, <2>1, <2>6 DEF x
    <3>5. of(n + 1) = Range(ch) \cup {x}
      BY <2>2, <2>3, <2>6 DEF x
    <3> QED
      BY <3>3, <3>4, <3>5
  <2> QED
    BY <2>5, <2>6
<1> HIDE DEF Built
<1>5. Wrong = {}
  <2> SUFFICES ASSUME Wrong # {} PROVE FALSE
    OBVIOUS
  <2>1. Wrong \in SUBSET Nat
    OBVIOUS
  <2>2. PICK n \in Wrong : \A m \in Wrong : n <= m
    <3> HIDE DEF Wrong
    <3> QED
      BY <2>1, LeastElement
  <2>3. n \in 0 .. Len(s) /\ ~Built(n) /\ n # 0
    BY <1>3, <2>2
  <2>4. n - 1 \in 0 .. Len(s) - 1 /\ n - 1 \in 0 .. Len(s) /\ ~(n <= n - 1) /\ (n - 1) + 1 = n
    BY <1>1, <2>3
  <2>5. Built(n - 1)
    BY <2>2, <2>4
  <2>6. Built((n - 1) + 1)
    BY <1>4, <2>4, <2>5
  <2> QED
    BY <2>3, <2>4, <2>6
<1>6. \A n : of(n) = AmongFirst(s, n, b, c)
  BY DEF h, AmongFirst
<1> HIDE DEF of
<1> QED
  BY <1>5, <1>6 DEF Built

-----------------------------------------------------------------------------
(* Its list, the entries of which are those of the abstract map. *)

\* The list of the dictionary as a list of nodes that hold entries.
Listed(heap) == [n \in DOMAIN heap |->
                   [prev |-> heap[n].listprev, next |-> heap[n].listnext,
                    value |-> [key |-> heap[n].key, value |-> heap[n].value]]]

EntriesOf(heap, s) == [i \in DOMAIN s |-> [key |-> heap[s[i]].key, value |-> heap[s[i]].value]]

ForwardOf(heap, h) == Followed(h, [n \in DOMAIN heap |-> heap[n].listnext])
BackwardOf(heap, t) == Followed(t, [n \in DOMAIN heap |-> heap[n].listprev])

LEMMA EntriesAreRead ==
  ASSUME NEW s, NEW heap, NEW h, NEW t, NEW es, Linked(DictEntry, s, Listed(heap), h, t, es)
  PROVE  /\ ForwardOf(heap, h) = s /\ BackwardOf(heap, t) = Reverse(s)
         /\ Range(s) = DOMAIN heap /\ DOMAIN Listed(heap) = DOMAIN heap
         /\ es = EntriesOf(heap, s)
<1>1. /\ Followed(h, Nexts(Listed(heap))) = s
      /\ Followed(t, Prevs(Listed(heap))) = Reverse(s)
      /\ Range(s) = DOMAIN Listed(heap)
      /\ es = Values(s, Listed(heap))
  BY LinkedIsRead
<1>2. DOMAIN Listed(heap) = DOMAIN heap
  BY DEF Listed
<1>3. /\ Nexts(Listed(heap)) = [n \in DOMAIN heap |-> heap[n].listnext]
      /\ Prevs(Listed(heap)) = [n \in DOMAIN heap |-> heap[n].listprev]
  BY DEF Listed, Nexts, Prevs
<1>4. \A i \in DOMAIN s : s[i] \in DOMAIN heap
  BY <1>1, <1>2 DEF Range
<1>5. Values(s, Listed(heap)) = EntriesOf(heap, s)
  BY <1>4 DEF Values, Listed, EntriesOf
<1>6. ForwardOf(heap, h) = s /\ BackwardOf(heap, t) = Reverse(s)
  BY <1>1, <1>3 DEF ForwardOf, BackwardOf
<1> QED
  BY <1>1, <1>2, <1>5, <1>6

\* Of a list that is linked, each entry and the neighbours of its node.
LEMMA LinkedFacts ==
  ASSUME NEW s, NEW heap, NEW h, NEW t, NEW es, Linked(DictEntry, s, Listed(heap), h, t, es)
  PROVE  /\ s \in Seq(Node) /\ Len(s) \in Nat /\ OnceEach(s)
         /\ es \in Seq(DictEntry) /\ Len(es) = Len(s)
         /\ h = NodeAt(s, 1) /\ t = NodeAt(s, Len(s))
         /\ \A i \in 1 .. Len(s) :
              /\ s[i] \in DOMAIN heap /\ s[i] # NULL
              /\ heap[s[i]].listprev = NodeAt(s, i - 1)
              /\ heap[s[i]].listnext = NodeAt(s, i + 1)
              /\ es[i] = [key |-> heap[s[i]].key, value |-> heap[s[i]].value]
         /\ \A m \in DOMAIN heap : \E i \in 1 .. Len(s) : s[i] = m
<1>1. /\ s \in Seq(Node) /\ Len(s) \in Nat /\ OnceEach(s)
      /\ es \in Seq(DictEntry) /\ Len(es) = Len(s)
      /\ h = NodeAt(s, 1) /\ t = NodeAt(s, Len(s))
      /\ DOMAIN Listed(heap) = {s[i] : i \in 1 .. Len(s)}
      /\ DOMAIN Listed(heap) = DOMAIN heap
  BY DEF Linked, Listed
<1>2. ASSUME NEW i \in 1 .. Len(s)
      PROVE  /\ s[i] \in DOMAIN heap /\ s[i] # NULL
             /\ heap[s[i]].listprev = NodeAt(s, i - 1)
             /\ heap[s[i]].listnext = NodeAt(s, i + 1)
             /\ es[i] = [key |-> heap[s[i]].key, value |-> heap[s[i]].value]
  <2>1. s[i] \in DOMAIN heap /\ s[i] # NULL
    BY <1>1, NodesAreNodes
  <2>2. Listed(heap)[s[i]] = [prev |-> NodeAt(s, i - 1), next |-> NodeAt(s, i + 1),
                              value |-> es[i]]
    BY DEF Linked
  <2>3. Listed(heap)[s[i]] = [prev |-> heap[s[i]].listprev, next |-> heap[s[i]].listnext,
                              value |-> [key |-> heap[s[i]].key, value |-> heap[s[i]].value]]
    BY <2>1 DEF Listed
  <2> DEFINE r == Listed(heap)[s[i]]
  <2>4. r.prev = NodeAt(s, i - 1) /\ r.next = NodeAt(s, i + 1) /\ r.value = es[i]
    BY <2>2
  <2>5. /\ r.prev = heap[s[i]].listprev /\ r.next = heap[s[i]].listnext
        /\ r.value = [key |-> heap[s[i]].key, value |-> heap[s[i]].value]
    BY <2>3
  <2> HIDE DEF r
  <2> QED
    BY <2>1, <2>4, <2>5
<1> QED
  BY <1>1, <1>2

-----------------------------------------------------------------------------
(* The inductive invariant. *)

\* Too few entries to resize a table of c buckets, unless it is of the last size.
Sparse(c, n) == \E j \in DOMAIN BucketSizes :
                  c = BucketSizes[j] /\ (j < Len(BucketSizes) => 4 * (n - 1) < 3 * c)

DictIs(bs, heap, h, t, n, s, es) ==
  /\ NodesOK(heap)
  /\ Linked(DictEntry, s, Listed(heap), h, t, es) /\ n = Len(s)
  /\ \E c : TableOK(bs, heap, c) /\ Sparse(c, n)

DictInv == \E s, es : DictIs(buckets, nodes, listhead, listtail, count, s, es)

LEMMA NodeAtType ==
  ASSUME NEW s \in Seq(Node), NEW i
  PROVE  NodeAt(s, i) \in Node \cup {NULL}
BY DEF NodeAt

\* After a resize to c buckets.
LEMMA Rebuilt ==
  ASSUME NodesOK(nodes), NEW s, NEW es,
         Linked(DictEntry, s, Listed(nodes), listhead, listtail, es),
         NEW c \in Nat \ {0}
  PROVE  /\ NodesOK(Rechained(c)) /\ TableOK(Rebucketed(c), Rechained(c), c)
         /\ Listed(Rechained(c)) = Listed(nodes)
         /\ DOMAIN Rechained(c) = DOMAIN nodes
         /\ \A m \in DOMAIN nodes : Rechained(c)[m].key = nodes[m].key
<1> DEFINE L == Len(s)
           H(m) == Hash[nodes[m].key] % c
           heap == Rechained(c)
<1>1. /\ s \in Seq(Node) /\ L \in Nat
      /\ \A i, j \in 1 .. L : s[i] = s[j] => i = j
      /\ \A i \in 1 .. L : s[i] \in DOMAIN nodes
      /\ \A m \in DOMAIN nodes : \E i \in 1 .. L : s[i] = m
      /\ DOMAIN s = 1 .. L /\ OnceEach(s)
  <2>1. /\ s \in Seq(Node) /\ L \in Nat /\ OnceEach(s)
        /\ \A i \in 1 .. L : s[i] \in DOMAIN nodes
        /\ \A m \in DOMAIN nodes : \E i \in 1 .. L : s[i] = m
    BY LinkedFacts
  <2> QED
    BY <2>1 DEF OnceEach
<1>2. Forward = s
  <2>1. ForwardOf(nodes, listhead) = s
    BY EntriesAreRead
  <2> QED
    BY <2>1, Zenon DEF Forward, ForwardOf
<1>3. \A m \in DOMAIN nodes : H(m) \in 0 .. c - 1
  BY HashIn DEF NodesOK, DictNode
<1>4. DOMAIN heap = DOMAIN nodes
  BY DEF Rechained
<1>5. ASSUME NEW i \in 1 .. L
      PROVE  heap[s[i]] = [nodes[s[i]] EXCEPT !.next = LastOf(s, i - 1, H(s[i]), c)]
  <2> DEFINE Index(m) == CHOOSE j \in DOMAIN s : s[j] = m
  <2>1. Index(s[i]) = i
    BY <1>1
  <2>2. heap[s[i]] = [nodes[s[i]] EXCEPT !.next = LastOf(s, Index(s[i]) - 1, H(s[i]), c)]
    BY <1>1, <1>2, Zenon DEF Rechained
  <2> HIDE DEF Index
  <2> QED
    BY <2>1, <2>2
<1>6. \A b : LastOf(s, L, b, c) = Rebucketed(c)[b] \/ b \notin 0 .. c - 1
  BY <1>2 DEF Rebucketed
<1>7. DOMAIN Rebucketed(c) = 0 .. c - 1
  BY DEF Rebucketed
<1>8. \A m \in DOMAIN nodes : nodes[m] \in DictNode
  BY DEF NodesOK
<1> HIDE DEF heap, L
<1>9. \A i \in 1 .. L : /\ heap[s[i]].next = LastOf(s, i - 1, H(s[i]), c)
                        /\ heap[s[i]].key = nodes[s[i]].key
                        /\ heap[s[i]].value = nodes[s[i]].value
                        /\ heap[s[i]].listprev = nodes[s[i]].listprev
                        /\ heap[s[i]].listnext = nodes[s[i]].listnext
  <2> SUFFICES ASSUME NEW i \in 1 .. L
               PROVE /\ heap[s[i]].next = LastOf(s, i - 1, H(s[i]), c)
                     /\ heap[s[i]].key = nodes[s[i]].key
                     /\ heap[s[i]].value = nodes[s[i]].value
                     /\ heap[s[i]].listprev = nodes[s[i]].listprev
                     /\ heap[s[i]].listnext = nodes[s[i]].listnext
    OBVIOUS
  <2> DEFINE r == nodes[s[i]]
             x == LastOf(s, i - 1, H(s[i]), c)
  <2>1. r \in DictNode
    BY <1>1, <1>8
  <2>2. heap[s[i]] = [r EXCEPT !.next = x]
    BY <1>5
  <2> HIDE DEF r, x
  <2>3. /\ [r EXCEPT !.next = x].next = x
        /\ [r EXCEPT !.next = x].key = r.key
        /\ [r EXCEPT !.next = x].value = r.value
        /\ [r EXCEPT !.next = x].listprev = r.listprev
        /\ [r EXCEPT !.next = x].listnext = r.listnext
    BY <2>1 DEF DictNode
  <2> QED
    BY <2>2, <2>3 DEF r, x
<1>10. ASSUME NEW b
       PROVE  \A n \in 0 .. L :
                \E ch : Path(ch, LastOf(s, n, b, c), heap) /\ Range(ch) = AmongFirst(s, n, b, c)
  <2>1. \A i \in 1 .. Len(s) :
          heap[s[i]].next = LastOf(s, i - 1, Hash[nodes[s[i]].key] % c, c)
    BY <1>9 DEF L
  <2>2. \A n \in 0 .. Len(s) :
          \E ch : Path(ch, LastOf(s, n, b, c), heap) /\ Range(ch) = AmongFirst(s, n, b, c)
    BY <1>1, <2>1, ChainsAreBuilt
  <2> QED
    BY <2>2 DEF L
<1>11. \A b : \A n \in 0 .. L : LastOf(s, n, b, c) \in Node \cup {NULL}
  <2> SUFFICES ASSUME NEW b, NEW n \in 0 .. L PROVE LastOf(s, n, b, c) \in Node \cup {NULL}
    OBVIOUS
  <2>1. PICK ch : Path(ch, LastOf(s, n, b, c), heap)
    BY <1>10
  <2> QED
    BY <2>1, NodeAtType DEF Path
<1>12. \A m \in DOMAIN nodes : /\ heap[m].key = nodes[m].key /\ heap[m].value = nodes[m].value
                               /\ heap[m].listprev = nodes[m].listprev
                               /\ heap[m].listnext = nodes[m].listnext
  BY <1>1, <1>9
<1>13. NodesOK(heap)
  <2>1. ASSUME NEW m \in DOMAIN nodes PROVE heap[m] \in DictNode
    <3>1. PICK i \in 1 .. L : s[i] = m
      BY <1>1
    <3>2. i - 1 \in 0 .. L
      BY <1>1
    <3> DEFINE r == nodes[m]
               x == LastOf(s, i - 1, H(s[i]), c)
    <3>3. x \in Node \cup {NULL}
      BY <1>11, <3>2
    <3>4. heap[m] = [r EXCEPT !.next = x] /\ r \in DictNode
      BY <1>5, <1>8, <3>1
    <3> HIDE DEF r, x
    <3> QED
      BY <3>3, <3>4 DEF DictNode
  <2>2. heap = [m \in DOMAIN heap |-> heap[m]]
    BY DEF heap, Rechained
  <2>3. heap \in [DOMAIN heap -> DictNode]
    BY <1>4, <2>1, <2>2
  <2> QED
    BY <1>4, <1>12, <2>3 DEF NodesOK
<1>14. Listed(heap) = Listed(nodes)
  BY <1>4, <1>12 DEF Listed
<1>15. TableOK(Rebucketed(c), heap, c)
  <2>1. ASSUME NEW b \in 0 .. c - 1 PROVE Rebucketed(c)[b] = LastOf(s, L, b, c)
    BY <1>6
  <2>2. L \in 0 .. L
    BY <1>1
  <2>3. Rebucketed(c) \in [0 .. c - 1 -> Node \cup {NULL}]
    <3>1. Rebucketed(c) = [b \in 0 .. c - 1 |-> Rebucketed(c)[b]]
      BY DEF Rebucketed
    <3> QED
      BY <1>11, <2>1, <2>2, <3>1
  <2>4. ASSUME NEW b \in 0 .. c - 1 PROVE \E ch : InChain(ch, Rebucketed(c), heap, c, b)
    <3>1. PICK ch : Path(ch, LastOf(s, L, b, c), heap) /\ Range(ch) = AmongFirst(s, L, b, c)
      BY <1>10, <2>2
    <3>2. AmongFirst(s, L, b, c) = OfBucket(heap, c, b)
      <4>1. OfBucket(heap, c, b) = {m \in DOMAIN nodes : H(m) = b}
        BY <1>4, <1>12 DEF OfBucket
      <4>2. AmongFirst(s, L, b, c) = {s[i] : i \in {j \in 1 .. L : H(s[j]) = b}}
        BY DEF AmongFirst
      <4> HIDE DEF H
      <4> QED
        BY <1>1, <4>1, <4>2
    <3> QED
      BY <2>1, <3>1, <3>2 DEF InChain
  <2> QED
    BY <2>3, <2>4 DEF TableOK
<1> QED
  BY <1>4, <1>12, <1>13, <1>14, <1>15 DEF heap

\* A table that is crowded is resized: afterwards there is room for one more entry.
LEMMA Resized ==
  ASSUME NEW s, NEW es, DictIs(buckets, nodes, listhead, listtail, count, s, es),
         NEW bs, NEW heap, bs = _check_and_resize.buckets, heap = _check_and_resize.nodes
  PROVE  /\ NodesOK(heap) /\ Listed(heap) = Listed(nodes) /\ DOMAIN heap = DOMAIN nodes
         /\ \A m \in DOMAIN nodes : heap[m].key = nodes[m].key
         /\ \E c : TableOK(bs, heap, c) /\ Sparse(c, count + 1)
<1>1. /\ NodesOK(nodes) /\ count \in Nat
      /\ Linked(DictEntry, s, Listed(nodes), listhead, listtail, es)
  <2>1. Linked(DictEntry, s, Listed(nodes), listhead, listtail, es) /\ count = Len(s)
    BY DEF DictIs
  <2> QED
    BY <2>1, LinkedFacts DEF DictIs
<1>2. PICK c : TableOK(buckets, nodes, c) /\ Sparse(c, count)
  BY DEF DictIs
<1>3. PICK j \in DOMAIN BucketSizes :
        c = BucketSizes[j] /\ (j < Len(BucketSizes) => 4 * (count - 1) < 3 * c)
  BY <1>2 DEF Sparse
<1>4. cap = c /\ c \in Nat \ {0}
  BY <1>2, CapIs DEF TableOK
<1>5. /\ Len(BucketSizes) \in Nat \ {0} /\ DOMAIN BucketSizes = 1 .. Len(BucketSizes)
      /\ \A i \in DOMAIN BucketSizes : BucketSizes[i] \in Nat \ {0}
      /\ \A i, k \in DOMAIN BucketSizes : i < k => BucketSizes[i] + 1 < BucketSizes[k]
  BY DictAssumption
<1>6. CASE ~Crowded
  <2>1. bs = buckets /\ heap = nodes
    BY <1>6 DEF _check_and_resize
  <2>2. 4 * count < 3 * c /\ (count + 1) - 1 = count
    BY <1>1, <1>4, <1>6 DEF Crowded
  <2>3. Sparse(c, count + 1)
    BY <1>3, <2>2 DEF Sparse
  <2> QED
    BY <1>1, <1>2, <2>1, <2>3
<1>7. CASE Crowded
  <2>1. bs = Rebucketed(NewCap) /\ heap = Rechained(NewCap)
    BY <1>7 DEF _check_and_resize
  <2>2. NewCap \in Nat \ {0} /\ Sparse(NewCap, count + 1)
    <3> DEFINE larger == {i \in DOMAIN BucketSizes : BucketSizes[i] > c}
    <3>1. NewCap = IF larger = {} THEN BucketSizes[Len(BucketSizes)] ELSE BucketSizes[Min(larger)]
      BY <1>4 DEF NewCap
    <3>2. CASE larger = {}
      <4>1. Len(BucketSizes) \in DOMAIN BucketSizes /\ NewCap = BucketSizes[Len(BucketSizes)]
        BY <1>5, <3>1, <3>2
      <4>2. ~(Len(BucketSizes) < Len(BucketSizes))
        BY <1>5
      <4> QED
        BY <1>5, <4>1, <4>2 DEF Sparse
    <3>3. CASE larger # {}
      <4>1. larger \in SUBSET Nat
        BY <1>5
      <4> HIDE DEF larger
      <4>2. PICK k \in larger : \A m \in larger : k <= m
        BY <3>3, <4>1, LeastElement
      <4>3. Min(larger) \in larger
        BY <4>2 DEF Min
      <4> DEFINE i == Min(larger)
      <4>4. i \in DOMAIN BucketSizes /\ BucketSizes[i] > c /\ NewCap = BucketSizes[i]
        BY <3>1, <3>3, <4>3 DEF larger
      <4> HIDE DEF i
      <4>5. j < i
        <5>1. i \in Nat /\ j \in Nat /\ i # j
          BY <1>3, <1>4, <1>5, <4>4
        <5>2. CASE i < j
          <6>1. BucketSizes[i] + 1 < BucketSizes[j]
            BY <1>5, <4>4, <5>2
          <6> QED
            BY <1>3, <1>4, <1>5, <4>4, <6>1
        <5> QED
          BY <5>1, <5>2
      <4>6. c + 1 < BucketSizes[i] /\ BucketSizes[i] \in Nat \ {0}
        BY <1>3, <1>5, <4>4, <4>5
      <4>7. i < Len(BucketSizes) => 4 * ((count + 1) - 1) < 3 * BucketSizes[i]
        <5> SUFFICES ASSUME i < Len(BucketSizes) PROVE 4 * ((count + 1) - 1) < 3 * BucketSizes[i]
          OBVIOUS
        <5>1. j < Len(BucketSizes)
          BY <1>3, <1>5, <4>4, <4>5
        <5>2. 4 * (count - 1) < 3 * c
          BY <1>3, <5>1
        <5> QED
          BY <1>1, <1>4, <4>6, <5>2
      <4> QED
        BY <4>4, <4>6, <4>7 DEF Sparse
    <3> QED
      BY <3>2, <3>3
  <2> DEFINE c2 == NewCap
  <2>3. c2 \in Nat \ {0} /\ Sparse(c2, count + 1)
    BY <2>2
  <2>4. bs = Rebucketed(c2) /\ heap = Rechained(c2)
    BY <2>1
  <2> HIDE DEF c2
  <2>5. /\ NodesOK(heap) /\ TableOK(bs, heap, c2)
        /\ Listed(heap) = Listed(nodes) /\ DOMAIN heap = DOMAIN nodes
        /\ \A m \in DOMAIN nodes : heap[m].key = nodes[m].key
    BY <1>1, <2>3, <2>4, Rebuilt
  <2> QED
    BY <2>3, <2>5
<1> QED
  BY <1>6, <1>7

\* Nothing that the table depends on changes.
LEMMA TableSame ==
  ASSUME NEW bs, NEW heap, NEW c, TableOK(bs, heap, c), NEW heap2,
         DOMAIN heap2 = DOMAIN heap,
         \A m \in DOMAIN heap : heap2[m].next = heap[m].next /\ heap2[m].key = heap[m].key
  PROVE  TableOK(bs, heap2, c)
<1> SUFFICES ASSUME NEW b \in 0 .. c - 1 PROVE \E ch : InChain(ch, bs, heap2, c, b)
  BY DEF TableOK
<1>1. PICK ch : InChain(ch, bs, heap, c, b)
  BY DEF TableOK
<1>2. OfBucket(heap2, c, b) = OfBucket(heap, c, b)
  BY DEF OfBucket
<1>3. Path(ch, bs[b], heap) /\ Range(ch) = OfBucket(heap, c, b) /\ Range(ch) \subseteq DOMAIN heap
  BY <1>1 DEF InChain, OfBucket
<1>4. \A m \in Range(ch) : heap2[m].next = heap[m].next
  BY <1>3
<1>5. Path(ch, bs[b], heap2)
  BY <1>3, <1>4, PathSame
<1> QED
  BY <1>2, <1>3, <1>5 DEF InChain

\* One more node, in front of its bucket.
LEMMA TableWith ==
  ASSUME NEW bs, NEW heap, NEW c, TableOK(bs, heap, c), NEW n \in Node, n \notin DOMAIN heap,
         NEW heap2, DOMAIN heap2 = DOMAIN heap \cup {n},
         \A m \in DOMAIN heap : heap2[m].next = heap[m].next /\ heap2[m].key = heap[m].key,
         NEW b \in 0 .. c - 1, Hash[heap2[n].key] % c = b, heap2[n].next = bs[b],
         NEW bs2, bs2 = [bs EXCEPT ![b] = n]
  PROVE  TableOK(bs2, heap2, c)
<1>1. /\ c \in Nat \ {0} /\ bs2 \in [0 .. c - 1 -> Node \cup {NULL}]
      /\ bs2[b] = n /\ \A a \in 0 .. c - 1 : a # b => bs2[a] = bs[a]
  BY DEF TableOK
<1>2. ASSUME NEW a \in 0 .. c - 1 PROVE \E ch : InChain(ch, bs2, heap2, c, a)
  <2>1. PICK ch : Path(ch, bs[a], heap) /\ Range(ch) = OfBucket(heap, c, a)
    BY DEF TableOK, InChain
  <2>2. Range(ch) \subseteq DOMAIN heap
    BY <2>1 DEF OfBucket
  <2>3. \A m \in Range(ch) : heap2[m].next = heap[m].next
    BY <2>2
  <2>4. CASE a # b
    <3>1. OfBucket(heap2, c, a) = OfBucket(heap, c, a)
      BY <2>4 DEF OfBucket
    <3>2. Path(ch, bs2[a], heap2)
      BY <1>1, <2>1, <2>3, <2>4, PathSame
    <3> QED
      BY <2>1, <3>1, <3>2 DEF InChain
  <2>5. CASE a = b
    <3>1. OfBucket(heap2, c, a) = OfBucket(heap, c, a) \cup {n}
      BY <2>5 DEF OfBucket
    <3>2. n \notin Range(ch) /\ heap2[n].next = bs[a]
      BY <2>2, <2>5
    <3>3. Path(With(ch, 1, n), n, heap2) /\ Range(With(ch, 1, n)) = Range(ch) \cup {n}
      BY <2>1, <2>3, <3>2, PathFront
    <3> QED
      BY <1>1, <2>1, <2>5, <3>1, <3>3 DEF InChain
  <2> QED
    BY <2>4, <2>5
<1> QED
  BY <1>1, <1>2 DEF TableOK

\* The nodes but n, the i-th of a chain, which is linked past it.
ChainedPast(heap2, heap, ch, i, n) ==
  /\ DOMAIN heap2 = DOMAIN heap \ {n}
  /\ \A m \in DOMAIN heap2 :
       /\ heap2[m].key = heap[m].key
       /\ heap2[m].next = IF i > 1 /\ m = ch[i - 1] THEN heap[n].next ELSE heap[m].next

\* A node less: its chain is linked past it.
LEMMA TableWithout ==
  ASSUME NEW bs, NEW heap, NEW c, TableOK(bs, heap, c),
         NEW b \in 0 .. c - 1, NEW ch, InChain(ch, bs, heap, c, b), NEW i \in 1 .. Len(ch),
         NEW n, n = ch[i],
         NEW heap2, ChainedPast(heap2, heap, ch, i, n),
         NEW bs2, bs2 = IF i = 1 THEN [bs EXCEPT ![b] = heap[n].next] ELSE bs
  PROVE  TableOK(bs2, heap2, c)
<1>0. /\ DOMAIN heap2 = DOMAIN heap \ {n}
      /\ \A m \in DOMAIN heap2 :
           /\ heap2[m].key = heap[m].key
           /\ heap2[m].next = IF i > 1 /\ m = ch[i - 1] THEN heap[n].next ELSE heap[m].next
  BY DEF ChainedPast
<1>1. /\ ch \in Seq(Node) /\ Len(ch) \in Nat /\ OnceEach(ch)
      /\ Path(ch, bs[b], heap) /\ Range(ch) = OfBucket(heap, c, b)
      /\ heap[n].next = NodeAt(ch, i + 1)
  BY DEF InChain, Path
<1>2. \A j \in 1 .. Len(ch) : ch[j] \in OfBucket(heap, c, b)
  BY <1>1, RangeIs
<1>3. heap[n].next \in Node \cup {NULL}
  BY <1>1, NodeAtType
<1>4. /\ c \in Nat \ {0} /\ bs2 \in [0 .. c - 1 -> Node \cup {NULL}]
      /\ bs2[b] = IF i = 1 THEN heap[n].next ELSE bs[b]
      /\ \A a \in 0 .. c - 1 : a # b => bs2[a] = bs[a]
  BY <1>3 DEF TableOK
<1>5. ASSUME NEW a \in 0 .. c - 1, a # b PROVE \E ch2 : InChain(ch2, bs2, heap2, c, a)
  <2>1. PICK ch2 : Path(ch2, bs[a], heap) /\ Range(ch2) = OfBucket(heap, c, a)
    BY DEF TableOK, InChain
  <2>2. \A m \in OfBucket(heap, c, a) : m \notin OfBucket(heap, c, b) /\ m \in DOMAIN heap
    BY <1>5 DEF OfBucket
  <2>3. \A m \in OfBucket(heap, c, a) : m \in DOMAIN heap2 /\ ~(i > 1 /\ m = ch[i - 1])
    <3>1. i > 1 => i - 1 \in 1 .. Len(ch)
      BY <1>1
    <3> QED
      BY <1>0, <1>2, <2>2, <3>1
  <2>4. \A m \in Range(ch2) : heap2[m].next = heap[m].next
    BY <1>0, <2>1, <2>3
  <2>5. Path(ch2, bs2[a], heap2)
    BY <1>4, <1>5, <2>1, <2>4, PathSame
  <2>6. OfBucket(heap2, c, a) = OfBucket(heap, c, a)
    <3>1. ASSUME NEW m \in OfBucket(heap2, c, a) PROVE m \in OfBucket(heap, c, a)
      BY <1>0 DEF OfBucket
    <3>2. ASSUME NEW m \in OfBucket(heap, c, a) PROVE m \in OfBucket(heap2, c, a)
      BY <1>0, <2>3 DEF OfBucket
    <3> QED
      BY <3>1, <3>2
  <2> QED
    BY <2>1, <2>5, <2>6 DEF InChain
<1>6. InChain(Without(ch, i), bs2, heap2, c, b)
  <2>1. ASSUME NEW j \in 1 .. Len(ch), j # i
        PROVE  heap2[ch[j]].next = IF j = i - 1 THEN heap[ch[i]].next ELSE heap[ch[j]].next
    <3>1. ch[j] # n /\ ch[j] \in DOMAIN heap2
      BY <1>0, <1>1, <1>2, <2>1 DEF OnceEach, OfBucket
    <3>2. (i > 1 /\ ch[j] = ch[i - 1]) <=> j = i - 1
      <4>1. i > 1 => i - 1 \in 1 .. Len(ch)
        BY <1>1
      <4>2. j = i - 1 => i > 1
        BY <1>1
      <4> QED
        BY <1>1, <4>1, <4>2 DEF OnceEach
    <3> QED
      BY <1>0, <3>1, <3>2
  <2>2. bs2[b] = IF i = 1 THEN heap[ch[i]].next ELSE bs[b]
    BY <1>4
  <2>3. /\ Path(Without(ch, i), bs2[b], heap2)
        /\ Range(Without(ch, i)) = Range(ch) \ {ch[i]}
    BY <1>1, <2>1, <2>2, PathWithout
  <2>4. OfBucket(heap2, c, b) = OfBucket(heap, c, b) \ {n}
    BY <1>0 DEF OfBucket
  <2> QED
    BY <1>1, <2>3, <2>4 DEF InChain
<1>7. ASSUME NEW a \in 0 .. c - 1 PROVE \E ch2 : InChain(ch2, bs2, heap2, c, a)
  BY <1>5, <1>6
<1> QED
  BY <1>4, <1>7 DEF TableOK

-----------------------------------------------------------------------------
(* Steps of the list. *)

\* What the abstract map may do.
MapStep(es, es2) ==
  es2 \in {Map!With(es, k, v) : k \in Key, v \in Val}
            \cup {RemoveAt(es, i) : i \in DOMAIN es}
            \cup {<<es[i]>> \o RemoveAt(es, i) : i \in DOMAIN es}
            \cup {Append(RemoveAt(es, i), es[i]) : i \in DOMAIN es}
            \cup {<<>>}

\* The fields of a node that has a link changed.
LEMMA Relinked ==
  ASSUME NEW a, NEW b, NEW e, NEW r, r = [prev |-> a, next |-> b, value |-> e], NEW x
  PROVE  /\ [r EXCEPT !.next = x] = [prev |-> a, next |-> x, value |-> e]
         /\ [r EXCEPT !.prev = x] = [prev |-> x, next |-> b, value |-> e]
OBVIOUS

\* The nodes and a new one, which the list links between p and q.
LinkedBetween(heap2, heap, n, p, q, e) ==
  /\ DOMAIN heap2 = DOMAIN heap \cup {n}
  /\ heap2[n].listprev = p /\ heap2[n].listnext = q
  /\ [key |-> heap2[n].key, value |-> heap2[n].value] = e
  /\ \A m \in DOMAIN heap :
       /\ heap2[m].key = heap[m].key /\ heap2[m].value = heap[m].value
       /\ heap2[m].listnext = IF m = p THEN n ELSE heap[m].listnext
       /\ heap2[m].listprev = IF m = q THEN n ELSE heap[m].listprev

\* A node between p and q, seen as a node of a list.
LEMMA ListedWith ==
  ASSUME NEW heap, NEW n, n \notin DOMAIN heap, NULL \notin DOMAIN heap,
         NEW p, NEW q, p # q \/ p = NULL, NEW e,
         NEW heap2, LinkedBetween(heap2, heap, n, p, q, e)
  PROVE  Listed(heap2) = Inserted(Listed(heap), n, p, q, e)
<1>0. /\ DOMAIN heap2 = DOMAIN heap \cup {n}
      /\ heap2[n].listprev = p /\ heap2[n].listnext = q
      /\ [key |-> heap2[n].key, value |-> heap2[n].value] = e
      /\ \A m \in DOMAIN heap :
           /\ heap2[m].key = heap[m].key /\ heap2[m].value = heap[m].value
           /\ heap2[m].listnext = IF m = p THEN n ELSE heap[m].listnext
           /\ heap2[m].listprev = IF m = q THEN n ELSE heap[m].listprev
  BY DEF LinkedBetween
<1> DEFINE v == Listed(heap)
           w == Inserted(v, n, p, q, e)
           E(m) == [key |-> heap[m].key, value |-> heap[m].value]
<1>1. DOMAIN v = DOMAIN heap
  BY DEF Listed
<1>2. \A m \in DOMAIN heap : v[m] = [prev |-> heap[m].listprev, next |-> heap[m].listnext,
                                     value |-> E(m)]
  BY DEF Listed
<1> HIDE DEF v
<1>3. w = [m \in DOMAIN heap2 |-> w[m]]
  BY <1>0, <1>1 DEF Inserted
<1>4. ASSUME NEW m \in DOMAIN heap2
      PROVE  w[m] = [prev |-> heap2[m].listprev, next |-> heap2[m].listnext,
                     value |-> [key |-> heap2[m].key, value |-> heap2[m].value]]
  <2>1. w[m] = IF m = n THEN [prev |-> p, next |-> q, value |-> e]
               ELSE IF m = p THEN [v[m] EXCEPT !.next = n]
               ELSE IF m = q THEN [v[m] EXCEPT !.prev = n]
               ELSE v[m]
    BY <1>0, <1>1 DEF Inserted
  <2>2. CASE m = n
    BY <1>0, <2>1, <2>2
  <2>3. CASE m # n
    <3>1. /\ m \in DOMAIN heap /\ m # NULL
          /\ v[m] = [prev |-> heap[m].listprev, next |-> heap[m].listnext, value |-> E(m)]
          /\ [key |-> heap2[m].key, value |-> heap2[m].value] = E(m)
          /\ heap2[m].listnext = IF m = p THEN n ELSE heap[m].listnext
          /\ heap2[m].listprev = IF m = q THEN n ELSE heap[m].listprev
      BY <1>0, <1>2, <2>3
    <3> HIDE DEF E, w
    <3>2. /\ [v[m] EXCEPT !.next = n] = [prev |-> heap[m].listprev, next |-> n, value |-> E(m)]
          /\ [v[m] EXCEPT !.prev = n] = [prev |-> n, next |-> heap[m].listnext, value |-> E(m)]
      BY <3>1, Relinked
    <3>3. CASE m = p
      <4>1. m # q
        BY <3>1, <3>3
      <4> QED
        BY <2>1, <2>3, <3>1, <3>2, <3>3, <4>1
    <3>4. CASE m = q /\ m # p
      BY <2>1, <2>3, <3>1, <3>2, <3>4
    <3>5. CASE m # q /\ m # p
      BY <2>1, <2>3, <3>1, <3>5
    <3> QED
      BY <3>3, <3>4, <3>5
  <2> QED
    BY <2>2, <2>3
<1>5. Listed(heap2) = [m \in DOMAIN heap2 |-> w[m]]
  <2> HIDE DEF w
  <2> QED
    BY <1>4 DEF Listed
<1> QED
  BY <1>3, <1>5 DEF v

\* The nodes but n, which the list is linked past.
LinkedPast(heap2, heap, n, p, q) ==
  /\ DOMAIN heap2 = DOMAIN heap \ {n}
  /\ \A m \in DOMAIN heap2 :
       /\ heap2[m].key = heap[m].key /\ heap2[m].value = heap[m].value
       /\ heap2[m].listnext = IF m = p THEN q ELSE heap[m].listnext
       /\ heap2[m].listprev = IF m = q THEN p ELSE heap[m].listprev

\* A node less between p and q.
LEMMA ListedWithout ==
  ASSUME NEW heap, NEW n, NEW p, NEW q,
         NEW heap2, LinkedPast(heap2, heap, n, p, q)
  PROVE  Listed(heap2) = Removed(Listed(heap), n, p, q)
<1>0. /\ DOMAIN heap2 = DOMAIN heap \ {n}
      /\ \A m \in DOMAIN heap2 :
           /\ heap2[m].key = heap[m].key /\ heap2[m].value = heap[m].value
           /\ heap2[m].listnext = IF m = p THEN q ELSE heap[m].listnext
           /\ heap2[m].listprev = IF m = q THEN p ELSE heap[m].listprev
  BY DEF LinkedPast
<1> DEFINE v == Listed(heap)
           w == Removed(v, n, p, q)
           E(m) == [key |-> heap[m].key, value |-> heap[m].value]
<1>1. DOMAIN v = DOMAIN heap
  BY DEF Listed
<1>2. \A m \in DOMAIN heap : v[m] = [prev |-> heap[m].listprev, next |-> heap[m].listnext,
                                     value |-> E(m)]
  BY DEF Listed
<1> HIDE DEF v
<1>3. w = [m \in DOMAIN heap2 |-> w[m]]
  BY <1>0, <1>1 DEF Removed
<1>4. ASSUME NEW m \in DOMAIN heap2
      PROVE  w[m] = [prev |-> heap2[m].listprev, next |-> heap2[m].listnext,
                     value |-> [key |-> heap2[m].key, value |-> heap2[m].value]]
  <2> DEFINE r == v[m]
             x == IF m = p THEN q ELSE r.next
             y == IF m = q THEN p ELSE r.prev
  <2>1. w[m] = [r EXCEPT !.next = x, !.prev = y]
    BY <1>0, <1>1 DEF Removed
  <2>2. /\ m \in DOMAIN heap
        /\ r = [prev |-> heap[m].listprev, next |-> heap[m].listnext, value |-> E(m)]
        /\ [key |-> heap2[m].key, value |-> heap2[m].value] = E(m)
        /\ heap2[m].listnext = IF m = p THEN q ELSE heap[m].listnext
        /\ heap2[m].listprev = IF m = q THEN p ELSE heap[m].listprev
    BY <1>0, <1>2
  <2> HIDE DEF w, r, E
  <2>3. x = heap2[m].listnext /\ y = heap2[m].listprev
    BY <2>2
  <2> HIDE DEF x, y
  <2>4. [r EXCEPT !.next = x, !.prev = y] = [prev |-> y, next |-> x, value |-> E(m)]
    <3> DEFINE once == [r EXCEPT !.next = x]
               a == heap[m].listprev
               c == E(m)
    <3>1. once = [prev |-> a, next |-> x, value |-> c]
      BY <2>2
    <3>2. [r EXCEPT !.next = x, !.prev = y] = [once EXCEPT !.prev = y]
      OBVIOUS
    <3> HIDE DEF once, a, c
    <3>3. [once EXCEPT !.prev = y] = [prev |-> y, next |-> x, value |-> c]
      BY <3>1
    <3> QED
      BY <3>2, <3>3 DEF c
  <2> QED
    BY <2>1, <2>2, <2>3, <2>4
<1>5. Listed(heap2) = [m \in DOMAIN heap2 |-> w[m]]
  <2> HIDE DEF w
  <2> QED
    BY <1>4 DEF Listed
<1> QED
  BY <1>3, <1>5 DEF v

\* A node that is linked past: what the others are then.
LEMMA BypassedIs ==
  ASSUME NodesOK(nodes), NEW n \in DOMAIN nodes, NEW m \in DOMAIN nodes
  PROVE  /\ Bypassed(n)[m] \in DictNode
         /\ Bypassed(n)[m].key = nodes[m].key /\ Bypassed(n)[m].value = nodes[m].value
         /\ Bypassed(n)[m].next = nodes[m].next
         /\ Bypassed(n)[m].listnext = IF m = nodes[n].listprev THEN nodes[n].listnext
                                      ELSE nodes[m].listnext
         /\ Bypassed(n)[m].listprev = IF m = nodes[n].listnext THEN nodes[n].listprev
                                      ELSE nodes[m].listprev
<1> DEFINE p == nodes[n].listprev
           q == nodes[n].listnext
           r == nodes[m]
           x == IF m = p THEN q ELSE r.listnext
           y == IF m = q THEN p ELSE r.listprev
           once == [r EXCEPT !.listnext = x]
<1>1. nodes[n] \in DictNode /\ r \in DictNode
  BY DEF NodesOK
<1>2. p \in Node \cup {NULL} /\ q \in Node \cup {NULL}
  BY <1>1 DEF DictNode
<1>3. Bypassed(n)[m] = [r EXCEPT !.listnext = x, !.listprev = y]
  BY DEF Bypassed
<1>4. [r EXCEPT !.listnext = x, !.listprev = y] = [once EXCEPT !.listprev = y]
  OBVIOUS
<1>5. x \in Node \cup {NULL} /\ y \in Node \cup {NULL}
  BY <1>1, <1>2 DEF DictNode
<1> HIDE DEF p, q, r, x, y
<1>6. /\ once \in DictNode /\ once.key = r.key /\ once.value = r.value /\ once.next = r.next
      /\ once.listnext = x
  BY <1>1, <1>5 DEF DictNode
<1> HIDE DEF once
<1> DEFINE twice == [once EXCEPT !.listprev = y]
<1>7. /\ twice \in DictNode /\ twice.key = r.key /\ twice.value = r.value
      /\ twice.next = r.next /\ twice.listnext = x /\ twice.listprev = y
  BY <1>5, <1>6 DEF DictNode
<1>8. Bypassed(n)[m] = twice
  BY <1>3, <1>4
<1> HIDE DEF twice
<1> QED
  BY <1>7, <1>8 DEF p, q, r, x, y

\* An entry changes where it is.
LEMMA ValueKeeps ==
  ASSUME NEW S, NEW s, NEW heap, NEW h, NEW t, NEW xs, Linked(S, s, heap, h, t, xs),
         NEW i \in 1 .. Len(s), NEW x \in S, NEW heap2, DOMAIN heap2 = DOMAIN heap,
         heap2[s[i]] = [prev |-> NodeAt(s, i - 1), next |-> NodeAt(s, i + 1), value |-> x],
         \A m \in DOMAIN heap : m # s[i] => heap2[m] = heap[m],
         NEW xs2, xs2 \in Seq(S), Len(xs2) = Len(xs),
         \A j \in 1 .. Len(s) : xs2[j] = IF j = i THEN x ELSE xs[j]
  PROVE  Linked(S, s, heap2, h, t, xs2)
<1>1. /\ s \in Seq(Node) /\ OnceEach(s)
      /\ DOMAIN heap = {s[j] : j \in 1 .. Len(s)}
      /\ h = NodeAt(s, 1) /\ t = NodeAt(s, Len(s)) /\ Len(xs) = Len(s)
      /\ \A j \in 1 .. Len(s) : heap[s[j]] = [prev |-> NodeAt(s, j - 1),
                                              next |-> NodeAt(s, j + 1),
                                              value |-> xs[j]]
  BY DEF Linked
<1>2. ASSUME NEW j \in 1 .. Len(s)
      PROVE  heap2[s[j]] = [prev |-> NodeAt(s, j - 1), next |-> NodeAt(s, j + 1),
                            value |-> xs2[j]]
  <2>1. CASE j = i
    BY <2>1
  <2>2. CASE j # i
    <3>1. s[j] # s[i] /\ s[j] \in DOMAIN heap
      BY <1>1, <2>2 DEF OnceEach
    <3> QED
      BY <1>1, <2>2, <3>1
  <2> QED
    BY <2>1, <2>2
<1> QED
  BY <1>1, <1>2 DEF Linked

-----------------------------------------------------------------------------
(* The steps of the dictionary: each of them is one of the abstract map. *)

\* A step of the dictionary whose entries were es.
DictGoes(es) ==
  \E s2, es2 : /\ DictIs(buckets', nodes', listhead', listtail', count', s2, es2)
               /\ MapStep(es, es2)

\* What each of the steps starts from.
LEMMA DictFacts ==
  ASSUME NEW s, NEW es, DictIs(buckets, nodes, listhead, listtail, count, s, es)
  PROVE  /\ NodesOK(nodes) /\ NULL \notin DOMAIN nodes /\ DOMAIN nodes \in SUBSET Node
         /\ Linked(DictEntry, s, Listed(nodes), listhead, listtail, es)
         /\ s \in Seq(Node) /\ Len(s) \in Nat /\ count = Len(s) /\ OnceEach(s)
         /\ es \in Seq(DictEntry) /\ Len(es) = Len(s)
         /\ listhead = NodeAt(s, 1) /\ listtail = NodeAt(s, Len(s))
         /\ \A m \in DOMAIN nodes : nodes[m] \in DictNode
<1>1. /\ NodesOK(nodes) /\ Linked(DictEntry, s, Listed(nodes), listhead, listtail, es)
      /\ count = Len(s)
  BY DEF DictIs
<1>2. DOMAIN nodes \subseteq Node /\ \A m \in DOMAIN nodes : nodes[m] \in DictNode
  BY <1>1 DEF NodesOK
<1>3. NULL \notin Node
  BY LinksAssumption DEF NULL, Node
<1>4. /\ s \in Seq(Node) /\ Len(s) \in Nat /\ OnceEach(s)
      /\ es \in Seq(DictEntry) /\ Len(es) = Len(s)
      /\ listhead = NodeAt(s, 1) /\ listtail = NodeAt(s, Len(s))
  BY <1>1, LinkedFacts
<1> QED
  BY <1>1, <1>2, <1>3, <1>4

LEMMA Found ==
  ASSUME NEW s, NEW es, DictIs(buckets, nodes, listhead, listtail, count, s, es),
         NEW k \in Key
  PROVE  \/ codict_get(k) = NULL /\ \A n \in DOMAIN nodes : nodes[n].key # k
         \/ codict_get(k) \in DOMAIN nodes /\ nodes[codict_get(k)].key = k
<1>1. NodesOK(nodes)
  BY DictFacts
<1>2. PICK c : TableOK(buckets, nodes, c)
  BY DEF DictIs
<1>3. (Hash[k] % c) \in 0 .. c - 1
  BY <1>2, HashIn DEF TableOK
<1>4. PICK ch : InChain(ch, buckets, nodes, c, Hash[k] % c)
  BY <1>2, <1>3 DEF TableOK
<1>5. \/ /\ \A n \in DOMAIN nodes : nodes[n].key # k
         /\ Position(k) = 0 /\ codict_get(k) = NULL
      \/ \E i \in 1 .. Len(ch) : /\ ch[i] \in DOMAIN nodes /\ nodes[ch[i]].key = k
                                 /\ Position(k) = i /\ codict_get(k) = ch[i]
  BY <1>1, <1>2, <1>4, LookUp
<1> QED
  BY <1>5

\* The key is that of an entry, which is the only one.
LEMMA EntryOf ==
  ASSUME NEW s, NEW es, DictIs(buckets, nodes, listhead, listtail, count, s, es),
         NEW n \in DOMAIN nodes
  PROVE  \E j \in 1 .. Len(s) :
           /\ s[j] = n /\ j \in DOMAIN es /\ es[j] \in DictEntry
           /\ es[j] = [key |-> nodes[n].key, value |-> nodes[n].value]
           /\ nodes[n].listprev = NodeAt(s, j - 1) /\ nodes[n].listnext = NodeAt(s, j + 1)
           /\ \A i \in DOMAIN es : es[i].key = nodes[n].key <=> i = j
<1>1. /\ NodesOK(nodes) /\ Linked(DictEntry, s, Listed(nodes), listhead, listtail, es)
      /\ es \in Seq(DictEntry) /\ Len(es) = Len(s)
  BY DictFacts
<1>2. /\ Len(s) \in Nat /\ OnceEach(s)
      /\ \A i \in 1 .. Len(s) :
           /\ s[i] \in DOMAIN nodes /\ s[i] # NULL
           /\ nodes[s[i]].listprev = NodeAt(s, i - 1)
           /\ nodes[s[i]].listnext = NodeAt(s, i + 1)
           /\ es[i] = [key |-> nodes[s[i]].key, value |-> nodes[s[i]].value]
      /\ \A m \in DOMAIN nodes : \E i \in 1 .. Len(s) : s[i] = m
  BY <1>1, LinkedFacts
<1>3. PICK j \in 1 .. Len(s) : s[j] = n
  BY <1>2
<1>4. DOMAIN es = 1 .. Len(s) /\ \A i \in 1 .. Len(s) : es[i] \in DictEntry
  BY <1>1
<1>5. ASSUME NEW i \in 1 .. Len(s), es[i].key = nodes[n].key PROVE i = j
  <2>1. s[i] \in DOMAIN nodes /\ es[i] = [key |-> nodes[s[i]].key, value |-> nodes[s[i]].value]
    BY <1>2
  <2>2. nodes[s[i]].key = nodes[n].key
    BY <1>5, <2>1
  <2>3. s[i] = s[j]
    BY <1>1, <1>3, <2>1, <2>2 DEF NodesOK
  <2> QED
    BY <1>2, <2>3 DEF OnceEach
<1>6. es[j].key = nodes[n].key
  <2>1. es[j] = [key |-> nodes[n].key, value |-> nodes[n].value]
    BY <1>2, <1>3
  <2> QED
    BY <2>1
<1> QED
  BY <1>2, <1>3, <1>4, <1>5, <1>6

\* The entry of a key that is there gets another value.
LEMMA SetExistingGoes ==
  ASSUME NEW s, NEW es, DictIs(buckets, nodes, listhead, listtail, count, s, es),
         NEW k \in Key, NEW v \in Val, codict_set_existing(k, v)
  PROVE  DictGoes(es)
<1> DEFINE n == codict_get(k)
           e == [key |-> k, value |-> v]
           ms == Map!With(es, k, v)
<1>1. /\ NodesOK(nodes) /\ Linked(DictEntry, s, Listed(nodes), listhead, listtail, es)
      /\ es \in Seq(DictEntry) /\ Len(es) = Len(s) /\ Len(s) \in Nat /\ OnceEach(s)
      /\ s \in Seq(Node) /\ count = Len(s)
  BY DictFacts
<1>2. n \in DOMAIN nodes /\ nodes[n].key = k
  BY Found DEF codict_set_existing
<1>3. /\ nodes' = [nodes EXCEPT ![n].value = v]
      /\ UNCHANGED <<buckets, listhead, listtail, count>>
  BY DEF codict_set_existing
<1> HIDE DEF n
<1>4. PICK j \in 1 .. Len(s) :
        /\ s[j] = n /\ j \in DOMAIN es /\ es[j] \in DictEntry
        /\ es[j] = [key |-> nodes[n].key, value |-> nodes[n].value]
        /\ nodes[n].listprev = NodeAt(s, j - 1) /\ nodes[n].listnext = NodeAt(s, j + 1)
        /\ \A i \in DOMAIN es : es[i].key = nodes[n].key <=> i = j
  BY <1>2, EntryOf
<1>5. /\ DOMAIN nodes' = DOMAIN nodes
      /\ nodes'[n] = [nodes[n] EXCEPT !.value = v]
      /\ \A m \in DOMAIN nodes : m # n => nodes'[m] = nodes[m]
  BY <1>2, <1>3
<1>6. nodes[n] \in DictNode /\ \A m \in DOMAIN nodes : nodes[m] \in DictNode
  BY <1>1, <1>2 DEF NodesOK
<1>7. /\ nodes'[n] \in DictNode
      /\ nodes'[n].key = k /\ nodes'[n].value = v /\ nodes'[n].next = nodes[n].next
      /\ nodes'[n].listprev = nodes[n].listprev /\ nodes'[n].listnext = nodes[n].listnext
  <2> DEFINE r == nodes[n]
  <2>1. nodes'[n] = [r EXCEPT !.value = v] /\ r \in DictNode /\ r.key = k
    BY <1>2, <1>5, <1>6
  <2> HIDE DEF r
  <2>2. /\ [r EXCEPT !.value = v] \in DictNode
        /\ [r EXCEPT !.value = v].key = k /\ [r EXCEPT !.value = v].value = v
        /\ [r EXCEPT !.value = v].next = r.next
        /\ [r EXCEPT !.value = v].listprev = r.listprev
        /\ [r EXCEPT !.value = v].listnext = r.listnext
    BY <2>1 DEF DictNode
  <2> QED
    BY <2>1, <2>2 DEF r
<1>8. NodesOK(nodes')
  <2>1. \A m \in DOMAIN nodes : nodes'[m] \in DictNode /\ nodes'[m].key = nodes[m].key
    BY <1>2, <1>5, <1>6, <1>7
  <2>2. nodes' = [m \in DOMAIN nodes |-> nodes'[m]]
    BY <1>3
  <2>3. nodes' \in [DOMAIN nodes -> DictNode]
    BY <2>1, <2>2
  <2> QED
    BY <1>1, <1>5, <2>1, <2>3 DEF NodesOK
<1>9. ms = [i \in DOMAIN es |-> IF es[i].key = k THEN [es[i] EXCEPT !.value = v] ELSE es[i]]
  <2>1. \E i \in DOMAIN es : es[i].key = k
    BY <1>2, <1>4
  <2> QED
    BY <2>1 DEF Map!With
<1> HIDE DEF ms
<1>10. e \in DictEntry
  BY DEF DictEntry
<1>11. ASSUME NEW i \in DOMAIN es PROVE ms[i] = IF i = j THEN e ELSE es[i]
  <2>1. CASE i = j
    <3>1. es[j] = [key |-> k, value |-> nodes[n].value] /\ es[j].key = k
      BY <1>2, <1>4
    <3>2. [es[j] EXCEPT !.value = v] = e
      BY <3>1
    <3> QED
      BY <1>9, <2>1, <3>1, <3>2
  <2>2. CASE i # j
    BY <1>2, <1>4, <1>9, <2>2
  <2> QED
    BY <2>1, <2>2
<1> HIDE DEF e
<1>12. ms \in Seq(DictEntry) /\ Len(ms) = Len(es)
  <2>1. DOMAIN es = 1 .. Len(es) /\ \A i \in 1 .. Len(es) : es[i] \in DictEntry
    BY <1>1
  <2>2. ms \in [1 .. Len(es) -> DictEntry]
    BY <1>9, <1>10, <1>11, <2>1
  <2> QED
    BY <1>1, <2>2
<1>13. Linked(DictEntry, s, Listed(nodes'), listhead', listtail', ms)
  <2>1. DOMAIN Listed(nodes') = DOMAIN Listed(nodes)
    BY <1>5 DEF Listed
  <2>2. Listed(nodes')[s[j]] = [prev |-> NodeAt(s, j - 1), next |-> NodeAt(s, j + 1),
                                value |-> e]
    BY <1>2, <1>4, <1>5, <1>7 DEF Listed, e
  <2>3. \A m \in DOMAIN Listed(nodes) : m # s[j] => Listed(nodes')[m] = Listed(nodes)[m]
    BY <1>4, <1>5 DEF Listed
  <2>4. \A i \in 1 .. Len(s) : ms[i] = IF i = j THEN e ELSE es[i]
    BY <1>1, <1>11
  <2> DEFINE heap == Listed(nodes)
             heap2 == Listed(nodes')
  <2>5. /\ Linked(DictEntry, s, heap, listhead, listtail, es)
        /\ DOMAIN heap2 = DOMAIN heap
        /\ heap2[s[j]] = [prev |-> NodeAt(s, j - 1), next |-> NodeAt(s, j + 1), value |-> e]
        /\ \A m \in DOMAIN heap : m # s[j] => heap2[m] = heap[m]
    BY <1>1, <2>1, <2>2, <2>3
  <2> HIDE DEF heap, heap2
  <2>6. Linked(DictEntry, s, heap2, listhead, listtail, ms)
    BY <1>10, <1>12, <2>4, <2>5, ValueKeeps
  <2> QED
    BY <1>3, <2>6 DEF heap2
<1>14. \E c : TableOK(buckets', nodes', c) /\ Sparse(c, count')
  <2>1. PICK c : TableOK(buckets, nodes, c) /\ Sparse(c, count)
    BY DEF DictIs
  <2>2. \A m \in DOMAIN nodes : nodes'[m].next = nodes[m].next /\ nodes'[m].key = nodes[m].key
    BY <1>2, <1>5, <1>7
  <2>3. TableOK(buckets', nodes', c)
    BY <1>3, <1>5, <2>1, <2>2, TableSame
  <2> QED
    BY <1>3, <2>1, <2>3
<1>15. MapStep(es, ms)
  BY DEF MapStep, ms
<1>16. DictIs(buckets', nodes', listhead', listtail', count', s, ms)
  BY <1>1, <1>3, <1>8, <1>13, <1>14 DEF DictIs
<1> QED
  BY <1>15, <1>16 DEF DictGoes

\* A new key is given an entry after the others, in a table that may have been resized.
LEMMA SetNewGoes ==
  ASSUME NEW s, NEW es, DictIs(buckets, nodes, listhead, listtail, count, s, es),
         NEW k \in Key, NEW v \in Val, codict_set_new(k, v)
  PROVE  DictGoes(es)
<1> DEFINE n == Min(Node \ DOMAIN nodes)
           bs == _check_and_resize.buckets
           heap == _check_and_resize.nodes
           b == Hash[k] % Cardinality(DOMAIN bs)
           e == [key |-> k, value |-> v]
           K == Len(s) + 1
           p == listtail
           q == NULL
           s2 == With(s, K, n)
           es2 == With(es, K, e)
<1>1. /\ NodesOK(nodes) /\ Linked(DictEntry, s, Listed(nodes), listhead, listtail, es)
      /\ es \in Seq(DictEntry) /\ Len(es) = Len(s) /\ Len(s) \in Nat
      /\ s \in Seq(Node) /\ count = Len(s) /\ listtail = NodeAt(s, Len(s))
      /\ DOMAIN nodes \in SUBSET Node /\ NULL \notin DOMAIN nodes
  BY DictFacts
<1>2. DOMAIN nodes # Node /\ \A m \in DOMAIN nodes : nodes[m].key # k
  BY <1>1, Found DEF codict_set_new
<1>3. n \in Node /\ n \notin DOMAIN nodes
  BY <1>1, <1>2, NewNode
<1>4. /\ nodes' = [m \in DOMAIN nodes \cup {n} |->
                     IF m = n
                     THEN [key |-> k, value |-> v, next |-> bs[b],
                           listprev |-> listtail, listnext |-> NULL]
                     ELSE IF m = listtail THEN [heap[m] EXCEPT !.listnext = n]
                     ELSE heap[m]]
      /\ buckets' = [bs EXCEPT ![b] = n]
      /\ listhead' = IF listhead = NULL THEN n ELSE listhead
      /\ listtail' = n
      /\ count' = count + 1
  BY DEF codict_set_new
<1>5. /\ NodesOK(heap) /\ Listed(heap) = Listed(nodes) /\ DOMAIN heap = DOMAIN nodes
      /\ \A m \in DOMAIN nodes : heap[m].key = nodes[m].key
      /\ \E c : TableOK(bs, heap, c) /\ Sparse(c, count + 1)
  <2> HIDE DEF bs, heap
  <2>1. bs = _check_and_resize.buckets /\ heap = _check_and_resize.nodes
    BY DEF bs, heap
  <2> QED
    BY <2>1, Resized
<1> HIDE DEF n, bs, heap, b
<1>6. PICK c : TableOK(bs, heap, c) /\ Sparse(c, count + 1)
  BY <1>5
<1>7. b = Hash[k] % c /\ b \in 0 .. c - 1
  <2>1. c \in Nat \ {0} /\ DOMAIN bs = 0 .. c - 1
    BY <1>6 DEF TableOK
  <2>2. Cardinality(DOMAIN bs) = c
    BY <2>1, ZeroTo
  <2> QED
    BY <2>1, <2>2, HashIn DEF b
<1>8. bs[b] \in Node \cup {NULL} /\ listtail \in Node \cup {NULL}
  BY <1>1, <1>6, <1>7, NodeAtType DEF TableOK
<1>9. /\ DOMAIN nodes' = DOMAIN heap \cup {n} /\ n \notin DOMAIN heap
      /\ nodes'[n] = [key |-> k, value |-> v, next |-> bs[b],
                      listprev |-> listtail, listnext |-> NULL]
      /\ \A m \in DOMAIN heap :
           nodes'[m] = IF m = listtail THEN [heap[m] EXCEPT !.listnext = n] ELSE heap[m]
  BY <1>3, <1>4, <1>5
<1>10. /\ nodes'[n] \in DictNode /\ nodes'[n].key = k /\ nodes'[n].value = v
       /\ nodes'[n].next = bs[b] /\ nodes'[n].listprev = p /\ nodes'[n].listnext = q
  BY <1>8, <1>9 DEF DictNode
<1>11. ASSUME NEW m \in DOMAIN heap
       PROVE  /\ nodes'[m] \in DictNode
              /\ nodes'[m].key = heap[m].key /\ nodes'[m].value = heap[m].value
              /\ nodes'[m].next = heap[m].next
              /\ nodes'[m].listnext = IF m = p THEN n ELSE heap[m].listnext
              /\ nodes'[m].listprev = IF m = q THEN n ELSE heap[m].listprev
  <2> DEFINE r == heap[m]
  <2>1. r \in DictNode /\ m # q
    BY <1>1, <1>5 DEF NodesOK
  <2>2. nodes'[m] = IF m = p THEN [r EXCEPT !.listnext = n] ELSE r
    BY <1>9
  <2> HIDE DEF r
  <2>3. /\ [r EXCEPT !.listnext = n] \in DictNode
        /\ [r EXCEPT !.listnext = n].key = r.key /\ [r EXCEPT !.listnext = n].value = r.value
        /\ [r EXCEPT !.listnext = n].next = r.next
        /\ [r EXCEPT !.listnext = n].listnext = n
        /\ [r EXCEPT !.listnext = n].listprev = r.listprev
    BY <1>3, <2>1 DEF DictNode
  <2>4. CASE m = p
    BY <2>1, <2>2, <2>3, <2>4 DEF r
  <2>5. CASE m # p
    BY <2>1, <2>2, <2>5 DEF r
  <2> QED
    BY <2>4, <2>5
<1>12. NodesOK(nodes')
  <2>1. nodes' = [m \in DOMAIN nodes' |-> nodes'[m]]
    BY <1>4
  <2>2. \A m \in DOMAIN nodes' : nodes'[m] \in DictNode
    BY <1>9, <1>10, <1>11
  <2>3. nodes' \in [DOMAIN nodes' -> DictNode]
    BY <2>1, <2>2
  <2>4. DOMAIN nodes' \subseteq Node
    BY <1>1, <1>3, <1>5, <1>9
  <2>5. ASSUME NEW m \in DOMAIN nodes', NEW l \in DOMAIN nodes', nodes'[m].key = nodes'[l].key
        PROVE  m = l
    <3>1. \A i \in DOMAIN heap : nodes'[i].key = heap[i].key /\ heap[i].key # k
      BY <1>2, <1>5, <1>11
    <3> QED
      BY <1>5, <1>9, <1>10, <2>5, <3>1 DEF NodesOK
  <2> QED
    BY <2>3, <2>4, <2>5 DEF NodesOK
<1>13. Listed(nodes') = Inserted(Listed(nodes), n, p, q, e)
  <2>1. [key |-> nodes'[n].key, value |-> nodes'[n].value] = e
    BY <1>10
  <2>2. NULL \notin DOMAIN heap /\ (p # q \/ p = NULL)
    BY <1>1, <1>5
  <2> DEFINE heap2 == nodes'
  <2>3. LinkedBetween(heap2, heap, n, p, q, e)
    BY <1>9, <1>10, <1>11, <2>1 DEF LinkedBetween
  <2> HIDE DEF heap2, p, q, e
  <2>4. Listed(heap2) = Inserted(Listed(heap), n, p, q, e)
    BY <1>9, <2>2, <2>3, ListedWith
  <2> QED
    BY <1>5, <2>4 DEF heap2
<1>14. e \in DictEntry
  BY DEF DictEntry
<1>15. /\ K \in 1 .. Len(s) + 1 /\ p = NodeAt(s, K - 1) /\ q = NodeAt(s, K)
       /\ K = Len(es) + 1
  BY <1>1 DEF NodeAt
<1> HIDE DEF K, e
<1>16. Linked(DictEntry, s2, Listed(nodes'), listhead', listtail', es2)
  <2>1. n \notin DOMAIN Listed(nodes)
    BY <1>3 DEF Listed
  <2> DEFINE v0 == Listed(nodes)
  <2> HIDE DEF v0
  <2>2. Linked(DictEntry, s, v0, listhead, listtail, es) /\ n \notin DOMAIN v0
    BY <1>1, <2>1 DEF v0
  <2>3. Linked(DictEntry, With(s, K, n), Inserted(v0, n, p, q, e),
               IF listhead = q THEN n ELSE listhead, IF listtail = p THEN n ELSE listtail,
               With(es, K, e))
    BY <1>3, <1>14, <1>15, <2>2, InsertKeeps
  <2>4. /\ listhead' = IF listhead = q THEN n ELSE listhead
        /\ listtail' = IF listtail = p THEN n ELSE listtail
    BY <1>4
  <2> QED
    BY <1>13, <2>3, <2>4 DEF v0
<1>17. count' = Len(s2)
  BY <1>1, <1>3, <1>4, <1>15, WithIs
<1>18. TableOK(buckets', nodes', c) /\ Sparse(c, count')
  <2>1. \A m \in DOMAIN heap : nodes'[m].next = heap[m].next /\ nodes'[m].key = heap[m].key
    BY <1>11
  <2>2. Hash[nodes'[n].key] % c = b /\ nodes'[n].next = bs[b]
    BY <1>7, <1>10
  <2>3. TableOK(buckets', nodes', c)
    BY <1>3, <1>4, <1>6, <1>7, <1>9, <2>1, <2>2, TableWith
  <2> QED
    BY <1>4, <1>6, <2>3
<1>19. MapStep(es, es2)
  <2>1. es2 = Append(es, e)
    BY <1>1, <1>14, <1>15, EndsAreWith
  <2>2. ~ \E i \in DOMAIN es : es[i].key = k
    <3> SUFFICES ASSUME NEW i \in DOMAIN es, es[i].key = k PROVE FALSE
      OBVIOUS
    <3>1. i \in 1 .. Len(s)
      BY <1>1
    <3>2. s[i] \in DOMAIN nodes /\ es[i] = [key |-> nodes[s[i]].key, value |-> nodes[s[i]].value]
      <4>1. \A j \in 1 .. Len(s) :
              /\ s[j] \in DOMAIN nodes
              /\ es[j] = [key |-> nodes[s[j]].key, value |-> nodes[s[j]].value]
        BY <1>1, LinkedFacts
      <4> QED
        BY <3>1, <4>1
    <3>3. nodes[s[i]].key = k
      BY <3>2
    <3> QED
      BY <1>2, <3>2, <3>3
  <2>3. Map!With(es, k, v) = es2
    BY <2>1, <2>2 DEF Map!With, e
  <2> QED
    BY <2>3 DEF MapStep
<1>20. DictIs(buckets', nodes', listhead', listtail', count', s2, es2)
  BY <1>12, <1>16, <1>17, <1>18 DEF DictIs
<1> QED
  BY <1>19, <1>20 DEF DictGoes

\* A key that is there is deleted, wherever it is in its bucket and in the list.
LEMMA DelGoes ==
  ASSUME NEW s, NEW es, DictIs(buckets, nodes, listhead, listtail, count, s, es),
         NEW k \in Key, codict_del(k)
  PROVE  DictGoes(es)
<1> DEFINE n == codict_get(k)
           b == Bucket(k)
           p == nodes[n].listprev
           q == nodes[n].listnext
<1>1. /\ NodesOK(nodes) /\ Linked(DictEntry, s, Listed(nodes), listhead, listtail, es)
      /\ es \in Seq(DictEntry) /\ Len(es) = Len(s) /\ Len(s) \in Nat
      /\ s \in Seq(Node) /\ count = Len(s)
  BY DictFacts
<1>2. n # NULL /\ n \in DOMAIN nodes /\ nodes[n].key = k
  BY Found DEF codict_del
<1>3. PICK c : TableOK(buckets, nodes, c) /\ Sparse(c, count)
  BY DEF DictIs
<1>4. (Hash[k] % c) \in 0 .. c - 1 /\ c \in Nat \ {0}
  BY <1>3, HashIn DEF TableOK
<1>5. PICK ch : InChain(ch, buckets, nodes, c, Hash[k] % c)
  BY <1>3, <1>4 DEF TableOK
<1>6. /\ b = Hash[k] % c /\ Chain(b) = ch
      /\ \E i \in 1 .. Len(ch) : Position(k) = i /\ n = ch[i]
  <2>1. /\ Bucket(k) = Hash[k] % c
        /\ Chain(Bucket(k)) = ch
        /\ \/ /\ \A m \in DOMAIN nodes : nodes[m].key # k
              /\ Position(k) = 0 /\ codict_get(k) = NULL
           \/ \E i \in 1 .. Len(ch) : /\ ch[i] \in DOMAIN nodes /\ nodes[ch[i]].key = k
                                      /\ Position(k) = i /\ codict_get(k) = ch[i]
    BY <1>1, <1>3, <1>5, LookUp
  <2> QED
    BY <1>2, <2>1
<1>7. PICK i \in 1 .. Len(ch) : Position(k) = i /\ n = ch[i]
  BY <1>6
<1>8. /\ buckets' = IF i = 1 THEN [buckets EXCEPT ![b] = nodes[n].next] ELSE buckets
      /\ nodes' = [m \in DOMAIN nodes \ {n} |->
                     IF i > 1 /\ m = ch[i - 1]
                     THEN [Bypassed(n)[m] EXCEPT !.next = nodes[n].next]
                     ELSE Bypassed(n)[m]]
      /\ listhead' = IF listhead = n THEN q ELSE listhead
      /\ listtail' = IF listtail = n THEN p ELSE listtail
      /\ count' = count - 1
  BY <1>6, <1>7 DEF codict_del
<1> HIDE DEF n, b
<1>9. PICK j \in 1 .. Len(s) :
        /\ s[j] = n /\ j \in DOMAIN es /\ es[j] \in DictEntry
        /\ es[j] = [key |-> nodes[n].key, value |-> nodes[n].value]
        /\ nodes[n].listprev = NodeAt(s, j - 1) /\ nodes[n].listnext = NodeAt(s, j + 1)
        /\ \A l \in DOMAIN es : es[l].key = nodes[n].key <=> l = j
  BY <1>2, EntryOf
<1>10. DOMAIN nodes' = DOMAIN nodes \ {n}
  BY <1>8
<1>11. nodes[n].next \in Node \cup {NULL}
  BY <1>1, <1>2 DEF NodesOK, DictNode
<1>12. ASSUME NEW m \in DOMAIN nodes'
       PROVE  /\ nodes'[m] \in DictNode
              /\ nodes'[m].key = nodes[m].key /\ nodes'[m].value = nodes[m].value
              /\ nodes'[m].next = IF i > 1 /\ m = ch[i - 1] THEN nodes[n].next
                                  ELSE nodes[m].next
              /\ nodes'[m].listnext = IF m = p THEN q ELSE nodes[m].listnext
              /\ nodes'[m].listprev = IF m = q THEN p ELSE nodes[m].listprev
  <2> DEFINE r == Bypassed(n)[m]
             x == nodes[n].next
  <2>0. m \in DOMAIN nodes
    BY <1>10
  <2>1. /\ r \in DictNode /\ r.key = nodes[m].key /\ r.value = nodes[m].value
        /\ r.next = nodes[m].next
        /\ r.listnext = IF m = p THEN q ELSE nodes[m].listnext
        /\ r.listprev = IF m = q THEN p ELSE nodes[m].listprev
    BY <1>1, <1>2, <2>0, BypassedIs
  <2>2. nodes'[m] = IF i > 1 /\ m = ch[i - 1] THEN [r EXCEPT !.next = x] ELSE r
    BY <1>8, <1>10
  <2>3. x \in Node \cup {NULL}
    BY <1>11
  <2> HIDE DEF r, x, p, q
  <2>4. /\ [r EXCEPT !.next = x] \in DictNode
        /\ [r EXCEPT !.next = x].key = r.key /\ [r EXCEPT !.next = x].value = r.value
        /\ [r EXCEPT !.next = x].next = x
        /\ [r EXCEPT !.next = x].listnext = r.listnext
        /\ [r EXCEPT !.next = x].listprev = r.listprev
    BY <2>1, <2>3 DEF DictNode
  <2>5. CASE i > 1 /\ m = ch[i - 1]
    BY <2>1, <2>2, <2>4, <2>5 DEF x
  <2>6. CASE ~(i > 1 /\ m = ch[i - 1])
    BY <2>1, <2>2, <2>6
  <2> QED
    BY <2>5, <2>6
<1>13. NodesOK(nodes')
  <2>1. nodes' = [m \in DOMAIN nodes' |-> nodes'[m]]
    BY <1>8
  <2>2. nodes' \in [DOMAIN nodes' -> DictNode]
    BY <1>12, <2>1
  <2>3. \A m \in DOMAIN nodes' : nodes'[m].key = nodes[m].key
    BY <1>12
  <2> QED
    BY <1>1, <1>10, <2>2, <2>3 DEF NodesOK
<1>14. Listed(nodes') = Removed(Listed(nodes), n, p, q)
  <2> DEFINE heap == nodes
             heap2 == nodes'
  <2>1. LinkedPast(heap2, heap, n, p, q)
    BY <1>10, <1>12 DEF LinkedPast
  <2> HIDE DEF heap, heap2, p, q
  <2>2. Listed(heap2) = Removed(Listed(heap), n, p, q)
    BY <2>1, ListedWithout
  <2> QED
    BY <2>2 DEF heap, heap2
<1> HIDE DEF p, q
<1>15. Linked(DictEntry, Without(s, j), Listed(nodes'), listhead', listtail', Without(es, j))
  <2> DEFINE v0 == Listed(nodes)
  <2> HIDE DEF v0
  <2>1. Linked(DictEntry, s, v0, listhead, listtail, es)
    BY <1>1 DEF v0
  <2>2. p = NodeAt(s, j - 1) /\ q = NodeAt(s, j + 1) /\ n = s[j]
    BY <1>9 DEF p, q
  <2>3. Linked(DictEntry, Without(s, j), Removed(v0, n, p, q),
               IF listhead = n THEN q ELSE listhead, IF listtail = n THEN p ELSE listtail,
               Without(es, j))
    BY <2>1, <2>2, RemoveKeeps
  <2>4. /\ listhead' = IF listhead = n THEN q ELSE listhead
        /\ listtail' = IF listtail = n THEN p ELSE listtail
    BY <1>8
  <2> QED
    BY <1>14, <2>3, <2>4 DEF v0
<1>16. count' = Len(Without(s, j))
  BY <1>1, <1>8, WithoutIs
<1>17. TableOK(buckets', nodes', c)
  <2>1. b \in 0 .. c - 1 /\ InChain(ch, buckets, nodes, c, b)
    BY <1>4, <1>5, <1>6
  <2> DEFINE heap == nodes
             heap2 == nodes'
             bs == buckets
             bs2 == buckets'
  <2>3. /\ TableOK(bs, heap, c) /\ InChain(ch, bs, heap, c, b)
        /\ bs2 = IF i = 1 THEN [bs EXCEPT ![b] = heap[n].next] ELSE bs
    BY <1>3, <1>8, <2>1
  <2>2. ChainedPast(heap2, heap, ch, i, n)
    BY <1>10, <1>12 DEF ChainedPast
  <2> HIDE DEF heap, heap2, bs, bs2
  <2>4. TableOK(bs2, heap2, c)
    BY <1>7, <2>1, <2>2, <2>3, TableWithout
  <2> QED
    BY <2>4 DEF heap2, bs2
<1>18. Sparse(c, count')
  <2>1. PICK l \in DOMAIN BucketSizes :
          c = BucketSizes[l] /\ (l < Len(BucketSizes) => 4 * (count - 1) < 3 * c)
    BY <1>3 DEF Sparse
  <2>2. 4 * (count - 1) < 3 * c => 4 * (count' - 1) < 3 * c
    BY <1>1, <1>4, <1>8
  <2> QED
    BY <2>1, <2>2 DEF Sparse
<1>19. MapStep(es, Without(es, j))
  <2>1. j \in 1 .. Len(es)
    BY <1>1
  <2>2. RemoveAt(es, j) = Without(es, j)
    BY <1>1, <2>1, RemoveAtIsWithout
  <2> QED
    BY <1>9, <2>2 DEF MapStep
<1>20. DictIs(buckets', nodes', listhead', listtail', count', Without(s, j), Without(es, j))
  BY <1>13, <1>15, <1>16, <1>17, <1>18 DEF DictIs
<1> QED
  BY <1>19, <1>20 DEF DictGoes

\* Every node is in the chain of its bucket, so that none is left.
LEMMA ClearGoes ==
  ASSUME NEW s, NEW es, DictIs(buckets, nodes, listhead, listtail, count, s, es), codict_clear
  PROVE  DictGoes(es)
<1>1. NodesOK(nodes) /\ count \in Nat
  BY DictFacts
<1>2. PICK c : TableOK(buckets, nodes, c) /\ Sparse(c, count)
  BY DEF DictIs
<1>3. c \in Nat \ {0} /\ DOMAIN buckets = 0 .. c - 1
  BY <1>2 DEF TableOK
<1>4. /\ nodes' = [n \in DOMAIN nodes \ UNION {Range(Chain(b)) : b \in DOMAIN buckets} |->
                     nodes[n]]
      /\ buckets' = [b \in DOMAIN buckets |-> NULL]
      /\ listhead' = NULL /\ listtail' = NULL /\ count' = 0
  BY DEF codict_clear
<1>5. ASSUME NEW n \in DOMAIN nodes PROVE \E b \in DOMAIN buckets : n \in Range(Chain(b))
  <2> DEFINE b == Hash[nodes[n].key] % c
  <2>1. nodes[n].key \in Key
    BY <1>1 DEF NodesOK, DictNode
  <2>2. b \in 0 .. c - 1
    BY <1>3, <2>1, HashIn
  <2>3. n \in OfBucket(nodes, c, b)
    BY DEF OfBucket
  <2> HIDE DEF b
  <2>4. PICK ch : InChain(ch, buckets, nodes, c, b)
    BY <1>2, <2>2 DEF TableOK
  <2>5. Chain(b) = ch
    BY <2>4, ChainIs
  <2>6. n \in Range(Chain(b))
    BY <2>3, <2>4, <2>5 DEF InChain
  <2> QED
    BY <1>3, <2>2, <2>6
<1>6. DOMAIN nodes' = {}
  BY <1>4, <1>5
<1>7. NodesOK(nodes')
  <2>1. nodes' = [n \in {} |-> nodes[n]]
    BY <1>4, <1>6
  <2> QED
    BY <1>6, <2>1 DEF NodesOK
<1>8. Linked(DictEntry, <<>>, Listed(nodes'), listhead', listtail', <<>>)
  <2>1. DOMAIN Listed(nodes') = {}
    BY <1>6 DEF Listed
  <2> QED
    BY <1>4, <2>1 DEF Linked, OnceEach, NodeAt
<1>9. TableOK(buckets', nodes', c)
  <2>1. buckets' \in [0 .. c - 1 -> Node \cup {NULL}] /\ \A b \in 0 .. c - 1 : buckets'[b] = NULL
    BY <1>3, <1>4
  <2>2. ASSUME NEW b \in 0 .. c - 1 PROVE InChain(<<>>, buckets', nodes', c, b)
    <3>1. OfBucket(nodes', c, b) = {}
      BY <1>6 DEF OfBucket
    <3>2. Range(<<>>) = {}
      BY DEF Range
    <3> QED
      BY <2>1, <3>1, <3>2 DEF InChain, Path, OnceEach, NodeAt
  <2> QED
    BY <1>3, <2>1, <2>2 DEF TableOK
<1>10. Sparse(c, count')
  <2>1. PICK l \in DOMAIN BucketSizes : c = BucketSizes[l]
    BY <1>2 DEF Sparse
  <2>2. 4 * (count' - 1) < 3 * c
    BY <1>3, <1>4
  <2> QED
    BY <2>1, <2>2 DEF Sparse
<1>11. MapStep(es, <<>>)
  BY DEF MapStep
<1>12. DictIs(buckets', nodes', listhead', listtail', count', <<>>, <<>>)
  BY <1>4, <1>7, <1>8, <1>9, <1>10 DEF DictIs
<1> QED
  BY <1>11, <1>12 DEF DictGoes

\* The nodes after n is moved to between a and b.
LinkedIn(heap2, n, a, b) ==
  /\ heap2 \in [DOMAIN nodes -> DictNode]
  /\ \A m \in DOMAIN nodes : /\ heap2[m].key = nodes[m].key
                             /\ heap2[m].value = nodes[m].value
                             /\ heap2[m].next = nodes[m].next
  /\ heap2[n].listprev = a /\ heap2[n].listnext = b
  /\ \A m \in DOMAIN nodes \ {n} :
       /\ heap2[m].listnext = IF m = a THEN n ELSE Bypassed(n)[m].listnext
       /\ heap2[m].listprev = IF m = b THEN n ELSE Bypassed(n)[m].listprev

\* The i-th node n is taken out, which leaves the ends h1 and t1, and put in again as the
\* k-th, between a and b.
Moved(s, es, n, i, k, a, b, h1, t1) ==
  /\ n \in DOMAIN nodes /\ i \in 1 .. Len(s) /\ n = s[i] /\ k \in 1 .. Len(s)
  /\ a = NodeAt(Without(s, i), k - 1) /\ b = NodeAt(Without(s, i), k) /\ (a # b \/ a = NULL)
  /\ LinkedIn(nodes', n, a, b) /\ UNCHANGED <<buckets, count>>
  /\ h1 = IF listhead = n THEN nodes[n].listnext ELSE listhead
  /\ t1 = IF listtail = n THEN nodes[n].listprev ELSE listtail
  /\ listhead' = IF h1 = b THEN n ELSE h1
  /\ listtail' = IF t1 = a THEN n ELSE t1
  /\ MapStep(es, With(Without(es, i), k, es[i]))

LEMMA MoveGoes ==
  ASSUME NEW s, NEW es, DictIs(buckets, nodes, listhead, listtail, count, s, es),
         NEW n, NEW i, NEW k, NEW a, NEW b, NEW h1, NEW t1,
         Moved(s, es, n, i, k, a, b, h1, t1)
  PROVE  DictGoes(es)
<1>0. /\ n \in DOMAIN nodes /\ i \in 1 .. Len(s) /\ n = s[i] /\ k \in 1 .. Len(s)
      /\ a = NodeAt(Without(s, i), k - 1) /\ b = NodeAt(Without(s, i), k)
      /\ (a # b \/ a = NULL)
      /\ LinkedIn(nodes', n, a, b) /\ UNCHANGED <<buckets, count>>
      /\ h1 = IF listhead = n THEN nodes[n].listnext ELSE listhead
      /\ t1 = IF listtail = n THEN nodes[n].listprev ELSE listtail
      /\ listhead' = IF h1 = b THEN n ELSE h1
      /\ listtail' = IF t1 = a THEN n ELSE t1
      /\ MapStep(es, With(Without(es, i), k, es[i]))
  BY DEF Moved
<1> USE <1>0
<1> DEFINE p == nodes[n].listprev
           q == nodes[n].listnext
           v == Listed(nodes)
           heap1 == [m \in DOMAIN nodes \ {n} |-> Bypassed(n)[m]]
           heap2 == nodes'
           s1 == Without(s, i)
           es1 == Without(es, i)
           e == es[i]
<1>1. /\ NodesOK(nodes) /\ Linked(DictEntry, s, v, listhead, listtail, es)
      /\ es \in Seq(DictEntry) /\ Len(es) = Len(s) /\ Len(s) \in Nat
      /\ s \in Seq(Node) /\ count = Len(s)
      /\ DOMAIN nodes \in SUBSET Node /\ NULL \notin DOMAIN nodes
  BY DictFacts
<1>2. /\ p = NodeAt(s, i - 1) /\ q = NodeAt(s, i + 1)
      /\ e = [key |-> nodes[n].key, value |-> nodes[n].value] /\ e \in DictEntry
  <2>1. \A j \in 1 .. Len(s) :
          /\ nodes[s[j]].listprev = NodeAt(s, j - 1)
          /\ nodes[s[j]].listnext = NodeAt(s, j + 1)
          /\ es[j] = [key |-> nodes[s[j]].key, value |-> nodes[s[j]].value]
    BY <1>1, LinkedFacts
  <2>2. e = [key |-> nodes[n].key, value |-> nodes[n].value]
    BY <2>1
  <2>3. e \in DictEntry
    BY <1>1
  <2> QED
    BY <2>1, <2>2, <2>3
<1>3. DOMAIN heap1 = DOMAIN nodes \ {n} /\ \A m \in DOMAIN heap1 : heap1[m] = Bypassed(n)[m]
  OBVIOUS
<1>4. /\ heap2 \in [DOMAIN nodes -> DictNode]
      /\ \A m \in DOMAIN nodes : /\ heap2[m].key = nodes[m].key
                                 /\ heap2[m].value = nodes[m].value
                                 /\ heap2[m].next = nodes[m].next
      /\ heap2[n].listprev = a /\ heap2[n].listnext = b
      /\ \A m \in DOMAIN nodes \ {n} :
           /\ heap2[m].listnext = IF m = a THEN n ELSE Bypassed(n)[m].listnext
           /\ heap2[m].listprev = IF m = b THEN n ELSE Bypassed(n)[m].listprev
  BY DEF LinkedIn
<1>5. ASSUME NEW m \in DOMAIN nodes \ {n}
      PROVE  /\ heap1[m].key = nodes[m].key /\ heap1[m].value = nodes[m].value
             /\ heap1[m].listnext = IF m = p THEN q ELSE nodes[m].listnext
             /\ heap1[m].listprev = IF m = q THEN p ELSE nodes[m].listprev
  <2> HIDE DEF heap1
  <2>1. heap1[m] = Bypassed(n)[m] /\ m \in DOMAIN nodes
    BY <1>3
  <2> QED
    BY <1>1, <2>1, BypassedIs
<1> HIDE DEF heap1, heap2, p, q
<1>6. Listed(heap1) = Removed(v, n, p, q)
  <2>1. LinkedPast(heap1, nodes, n, p, q)
    BY <1>3, <1>5 DEF LinkedPast
  <2> QED
    BY <2>1, ListedWithout
<1>7. Listed(heap2) = Inserted(Listed(heap1), n, a, b, e)
  <2>1. n \notin DOMAIN heap1 /\ NULL \notin DOMAIN heap1 /\ DOMAIN heap2 = DOMAIN heap1 \cup {n}
    BY <1>1, <1>3, <1>4
  <2>2. [key |-> heap2[n].key, value |-> heap2[n].value] = e
    BY <1>2, <1>4
  <2>3. LinkedBetween(heap2, heap1, n, a, b, e)
    BY <1>3, <1>4, <1>5, <2>1, <2>2 DEF LinkedBetween
  <2> HIDE DEF e
  <2> QED
    BY <2>1, <2>3, ListedWith
<1> HIDE DEF e, v
<1>8. Linked(DictEntry, s1, Listed(heap1), h1, t1, es1)
  <2>1. Linked(DictEntry, s1, Removed(v, n, p, q), IF listhead = n THEN q ELSE listhead,
               IF listtail = n THEN p ELSE listtail, es1)
    BY <1>1, <1>2, RemoveKeeps
  <2> QED
    BY <1>6, <2>1 DEF p, q
<1>9. k \in 1 .. Len(s1) + 1 /\ s1 \in Seq(Node)
  <2>1. s1 \in Seq(Node) /\ Len(s1) = Len(s) - 1
    BY <1>1, WithoutIs
  <2> QED
    BY <1>1, <2>1
<1> HIDE DEF s1, es1
<1>10. Linked(DictEntry, With(s1, k, n), Listed(heap2), listhead', listtail', With(es1, k, e))
  <2> DEFINE w == Listed(heap1)
  <2>1. n \in Node /\ n \notin DOMAIN w
    BY <1>1, <1>3 DEF Listed
  <2>2. a = NodeAt(s1, k - 1) /\ b = NodeAt(s1, k)
    BY DEF s1
  <2>3. Linked(DictEntry, s1, w, h1, t1, es1)
    BY <1>8
  <2> HIDE DEF w
  <2>4. Linked(DictEntry, With(s1, k, n), Inserted(w, n, a, b, e),
               IF h1 = b THEN n ELSE h1, IF t1 = a THEN n ELSE t1, With(es1, k, e))
    BY <1>2, <1>9, <2>1, <2>2, <2>3, InsertKeeps
  <2> QED
    BY <1>7, <2>4 DEF w
<1>11. count' = Len(With(s1, k, n))
  <2>1. n \in Node /\ Len(s1) = Len(s) - 1
    BY <1>1, WithoutIs DEF s1
  <2> QED
    BY <1>1, <1>9, <2>1, WithIs
<1>12. NodesOK(heap2) /\ DOMAIN heap2 = DOMAIN nodes
  BY <1>1, <1>4 DEF NodesOK
<1>13. \E c : TableOK(buckets', heap2, c) /\ Sparse(c, count')
  <2>1. PICK c : TableOK(buckets, nodes, c) /\ Sparse(c, count)
    BY DEF DictIs
  <2>2. TableOK(buckets, heap2, c)
    BY <1>4, <1>12, <2>1, TableSame
  <2> QED
    BY <2>1, <2>2
<1>14. DictIs(buckets', nodes', listhead', listtail', count', With(s1, k, n), With(es1, k, e))
  BY <1>10, <1>11, <1>12, <1>13 DEF DictIs, heap2
<1>15. MapStep(es, With(es1, k, e))
  BY DEF es1, e
<1> QED
  BY <1>14, <1>15 DEF DictGoes

\* A node that is not the first is made the first.
LEMMA MoveHeadGoes ==
  ASSUME NEW s, NEW es, DictIs(buckets, nodes, listhead, listtail, count, s, es),
         NEW n \in DOMAIN nodes, codict_move_head(n)
  PROVE  DictGoes(es)
<1>1. /\ NodesOK(nodes) /\ es \in Seq(DictEntry) /\ Len(es) = Len(s) /\ Len(s) \in Nat
      /\ s \in Seq(Node) /\ count = Len(s)
      /\ listhead = NodeAt(s, 1) /\ listtail = NodeAt(s, Len(s))
      /\ DOMAIN nodes \in SUBSET Node /\ NULL \notin DOMAIN nodes
  BY DictFacts
<1>2. /\ listhead # n
      /\ nodes' = [m \in DOMAIN nodes |->
                     IF m = n THEN [nodes[m] EXCEPT !.listprev = NULL, !.listnext = listhead]
                     ELSE IF m = listhead THEN [Bypassed(n)[m] EXCEPT !.listprev = n]
                     ELSE Bypassed(n)[m]]
      /\ listhead' = n
      /\ listtail' = IF listtail = n THEN nodes[n].listprev ELSE listtail
      /\ UNCHANGED <<buckets, count>>
  BY DEF codict_move_head
<1>3. PICK i \in 1 .. Len(s) :
        /\ s[i] = n /\ i \in DOMAIN es /\ es[i] \in DictEntry
        /\ es[i] = [key |-> nodes[n].key, value |-> nodes[n].value]
        /\ nodes[n].listprev = NodeAt(s, i - 1) /\ nodes[n].listnext = NodeAt(s, i + 1)
        /\ \A l \in DOMAIN es : es[l].key = nodes[n].key <=> l = i
  BY EntryOf
<1>4. i # 1 /\ i > 1 /\ 1 \in 1 .. Len(s)
  <2>1. 1 \in 1 .. Len(s)
    BY <1>1
  <2>2. NodeAt(s, 1) = s[1]
    BY <2>1 DEF NodeAt
  <2>3. i # 1
    BY <1>1, <1>2, <1>3, <2>2
  <2> QED
    BY <2>1, <2>3
<1> DEFINE a == NULL
           b == listhead
           h1 == listhead
           k == 1
           t1 == IF listtail = n THEN nodes[n].listprev ELSE listtail
<1>5. /\ a = NodeAt(Without(s, i), 1 - 1) /\ b = NodeAt(Without(s, i), 1)
      /\ b \in Node \cup {NULL}
  <2>1. \A j \in Int : NodeAt(Without(s, i), j) = NodeAt(s, IF j < i THEN j ELSE j + 1)
    BY <1>1, NodeOfWithout
  <2>2. NodeAt(Without(s, i), 1) = NodeAt(s, 1)
    BY <1>4, <2>1
  <2>3. NodeAt(Without(s, i), 1 - 1) = NULL
    BY DEF NodeAt
  <2> QED
    BY <1>1, <2>2, <2>3, NodeAtType
<1>6. t1 # a /\ b # NULL
  <2>1. \A j \in 1 .. Len(s) : NodeAt(s, j) # NULL
    BY <1>1, NodesAreNodes DEF NodeAt
  <2>2. i - 1 \in 1 .. Len(s) /\ Len(s) \in 1 .. Len(s)
    BY <1>1, <1>4
  <2> QED
    BY <1>1, <1>3, <1>4, <2>1, <2>2
<1>7. LinkedIn(nodes', n, a, b)
  <2>1. n \in Node /\ \A m \in DOMAIN nodes : nodes[m] \in DictNode
    BY <1>1, DictFacts
  <2>2. /\ nodes'[n] \in DictNode /\ nodes'[n].key = nodes[n].key
        /\ nodes'[n].value = nodes[n].value /\ nodes'[n].next = nodes[n].next
        /\ nodes'[n].listprev = a /\ nodes'[n].listnext = b
    <3> DEFINE r == nodes[n]
               x == nodes'[n]
               once == [r EXCEPT !.listprev = a]
    <3>1. x = [r EXCEPT !.listprev = a, !.listnext = b] /\ r \in DictNode
      BY <1>2, <2>1
    <3>2. x = [once EXCEPT !.listnext = b]
      BY <3>1
    <3>3. a \in Node \cup {NULL} /\ b \in Node \cup {NULL}
      BY <1>5
    <3> HIDE DEF r, x, a, b
    <3>4. /\ once \in DictNode /\ once.key = r.key /\ once.value = r.value
          /\ once.next = r.next /\ once.listprev = a
      BY <3>1, <3>3 DEF DictNode
    <3> HIDE DEF once
    <3>5. /\ x \in DictNode /\ x.key = r.key /\ x.value = r.value /\ x.next = r.next
          /\ x.listprev = a /\ x.listnext = b
      BY <3>2, <3>3, <3>4 DEF DictNode
    <3> QED
      BY <3>5 DEF r, x
  <2>3. ASSUME NEW m \in DOMAIN nodes \ {n}
        PROVE  /\ nodes'[m] \in DictNode /\ nodes'[m].key = nodes[m].key
               /\ nodes'[m].value = nodes[m].value /\ nodes'[m].next = nodes[m].next
               /\ nodes'[m].listnext = IF m = a THEN n ELSE Bypassed(n)[m].listnext
               /\ nodes'[m].listprev = IF m = b THEN n ELSE Bypassed(n)[m].listprev
    <3> DEFINE r == Bypassed(n)[m]
               x == [r EXCEPT !.listprev = n]
    <3>1. m \in DOMAIN nodes /\ m # a
      BY <1>1
    <3>2. /\ r \in DictNode /\ r.key = nodes[m].key /\ r.value = nodes[m].value
          /\ r.next = nodes[m].next
      BY <1>1, <3>1, BypassedIs
    <3>3. nodes'[m] = IF m = b THEN [r EXCEPT !.listprev = n] ELSE r
      BY <1>2, <3>1
    <3> HIDE DEF r
    <3>4. /\ x \in DictNode /\ x.key = r.key /\ x.value = r.value /\ x.next = r.next
          /\ x.listprev = n /\ x.listnext = r.listnext
      BY <2>1, <3>2 DEF DictNode
    <3>5. CASE m = b
      BY <3>1, <3>2, <3>3, <3>4, <3>5 DEF r
    <3>6. CASE m # b
      BY <3>1, <3>2, <3>3, <3>6 DEF r
    <3> QED
      BY <3>5, <3>6
  <2>4. nodes' = [m \in DOMAIN nodes |-> nodes'[m]]
    BY <1>2
  <2>5. nodes' \in [DOMAIN nodes -> DictNode]
    BY <2>2, <2>3, <2>4
  <2> QED
    BY <2>2, <2>3, <2>5 DEF LinkedIn
<1>8. MapStep(es, With(Without(es, i), 1, es[i]))
  <2>1. i \in 1 .. Len(es) /\ Without(es, i) \in Seq(DictEntry)
    BY <1>1, WithoutIs
  <2>2. RemoveAt(es, i) = Without(es, i)
    BY <1>1, <2>1, RemoveAtIsWithout
  <2>3. <<es[i]>> \o RemoveAt(es, i) = With(Without(es, i), 1, es[i])
    BY <1>3, <2>1, <2>2, EndsAreWith
  <2>4. With(Without(es, i), 1, es[i]) \in {<<es[j]>> \o RemoveAt(es, j) : j \in DOMAIN es}
    BY <1>3, <2>3
  <2> QED
    BY <2>4 DEF MapStep
<1>9. /\ h1 = IF listhead = n THEN nodes[n].listnext ELSE listhead
      /\ t1 = IF listtail = n THEN nodes[n].listprev ELSE listtail
      /\ listhead' = IF h1 = b THEN n ELSE h1
      /\ listtail' = IF t1 = a THEN n ELSE t1
  BY <1>2, <1>6
<1>10. a # b \/ a = NULL
  OBVIOUS
<1>11. /\ k \in 1 .. Len(s) /\ a = NodeAt(Without(s, i), k - 1) /\ b = NodeAt(Without(s, i), k)
       /\ MapStep(es, With(Without(es, i), k, es[i]))
  BY <1>4, <1>5, <1>8
<1> HIDE DEF a, b, h1, t1, k
<1>12. Moved(s, es, n, i, k, a, b, h1, t1)
  BY <1>2, <1>3, <1>7, <1>9, <1>10, <1>11 DEF Moved
<1> QED
  BY <1>12, MoveGoes

\* A node that is not the last is made the last.
LEMMA MoveTailGoes ==
  ASSUME NEW s, NEW es, DictIs(buckets, nodes, listhead, listtail, count, s, es),
         NEW n \in DOMAIN nodes, codict_move_tail(n)
  PROVE  DictGoes(es)
<1> DEFINE L == Len(s)
<1>1. /\ NodesOK(nodes) /\ es \in Seq(DictEntry) /\ Len(es) = L /\ L \in Nat
      /\ s \in Seq(Node) /\ count = L
      /\ listhead = NodeAt(s, 1) /\ listtail = NodeAt(s, L)
      /\ DOMAIN nodes \in SUBSET Node /\ NULL \notin DOMAIN nodes
  BY DictFacts
<1>2. /\ listtail # n
      /\ nodes' = [m \in DOMAIN nodes |->
                     IF m = n THEN [nodes[m] EXCEPT !.listnext = NULL, !.listprev = listtail]
                     ELSE IF m = listtail THEN [Bypassed(n)[m] EXCEPT !.listnext = n]
                     ELSE Bypassed(n)[m]]
      /\ listhead' = IF listhead = n THEN nodes[n].listnext ELSE listhead
      /\ listtail' = n
      /\ UNCHANGED <<buckets, count>>
  BY DEF codict_move_tail
<1>3. PICK i \in 1 .. Len(s) :
        /\ s[i] = n /\ i \in DOMAIN es /\ es[i] \in DictEntry
        /\ es[i] = [key |-> nodes[n].key, value |-> nodes[n].value]
        /\ nodes[n].listprev = NodeAt(s, i - 1) /\ nodes[n].listnext = NodeAt(s, i + 1)
        /\ \A l \in DOMAIN es : es[l].key = nodes[n].key <=> l = i
  BY EntryOf
<1>4. i # L /\ i < L /\ L \in 1 .. L
  <2>1. L \in 1 .. L
    BY <1>1
  <2>2. NodeAt(s, L) = s[L]
    BY <2>1 DEF NodeAt
  <2>3. i # L
    BY <1>1, <1>2, <1>3, <2>2
  <2> QED
    BY <1>1, <2>1, <2>3
<1> DEFINE a == listtail
           b == NULL
           t1 == listtail
           h1 == IF listhead = n THEN nodes[n].listnext ELSE listhead
<1>5. /\ a = NodeAt(Without(s, i), L - 1) /\ b = NodeAt(Without(s, i), L)
      /\ a \in Node \cup {NULL}
  <2>1. \A j \in Int : NodeAt(Without(s, i), j) = NodeAt(s, IF j < i THEN j ELSE j + 1)
    BY <1>1, NodeOfWithout
  <2>2. NodeAt(Without(s, i), L - 1) = NodeAt(s, L)
    BY <1>1, <1>4, <2>1
  <2>3. NodeAt(Without(s, i), L) = NULL
    <3>1. NodeAt(Without(s, i), L) = NodeAt(s, L + 1) /\ ~(L + 1 \in 1 .. Len(s))
      BY <1>1, <1>4, <2>1
    <3> QED
      BY <3>1 DEF NodeAt
  <2> QED
    BY <1>1, <2>2, <2>3, NodeAtType
<1>6. h1 # b /\ a # NULL
  <2>1. \A j \in 1 .. Len(s) : NodeAt(s, j) # NULL
    BY <1>1, NodesAreNodes DEF NodeAt
  <2>2. i + 1 \in 1 .. Len(s) /\ 1 \in 1 .. Len(s)
    BY <1>1, <1>4
  <2> QED
    BY <1>1, <1>3, <1>4, <2>1, <2>2
<1>7. LinkedIn(nodes', n, a, b)
  <2>1. n \in Node /\ \A m \in DOMAIN nodes : nodes[m] \in DictNode
    BY <1>1, DictFacts
  <2>2. /\ nodes'[n] \in DictNode /\ nodes'[n].key = nodes[n].key
        /\ nodes'[n].value = nodes[n].value /\ nodes'[n].next = nodes[n].next
        /\ nodes'[n].listprev = a /\ nodes'[n].listnext = b
    <3> DEFINE r == nodes[n]
               x == nodes'[n]
               once == [r EXCEPT !.listnext = b]
    <3>1. x = [r EXCEPT !.listnext = b, !.listprev = a] /\ r \in DictNode
      BY <1>2, <2>1
    <3>2. x = [once EXCEPT !.listprev = a]
      BY <3>1
    <3>3. a \in Node \cup {NULL} /\ b \in Node \cup {NULL}
      BY <1>5
    <3> HIDE DEF r, x, a, b
    <3>4. /\ once \in DictNode /\ once.key = r.key /\ once.value = r.value
          /\ once.next = r.next /\ once.listnext = b
      BY <3>1, <3>3 DEF DictNode
    <3> HIDE DEF once
    <3>5. /\ x \in DictNode /\ x.key = r.key /\ x.value = r.value /\ x.next = r.next
          /\ x.listprev = a /\ x.listnext = b
      BY <3>2, <3>3, <3>4 DEF DictNode
    <3> QED
      BY <3>5 DEF r, x
  <2>3. ASSUME NEW m \in DOMAIN nodes \ {n}
        PROVE  /\ nodes'[m] \in DictNode /\ nodes'[m].key = nodes[m].key
               /\ nodes'[m].value = nodes[m].value /\ nodes'[m].next = nodes[m].next
               /\ nodes'[m].listnext = IF m = a THEN n ELSE Bypassed(n)[m].listnext
               /\ nodes'[m].listprev = IF m = b THEN n ELSE Bypassed(n)[m].listprev
    <3> DEFINE r == Bypassed(n)[m]
               x == [r EXCEPT !.listnext = n]
    <3>1. m \in DOMAIN nodes /\ m # b
      BY <1>1
    <3>2. /\ r \in DictNode /\ r.key = nodes[m].key /\ r.value = nodes[m].value
          /\ r.next = nodes[m].next
      BY <1>1, <3>1, BypassedIs
    <3>3. nodes'[m] = IF m = a THEN [r EXCEPT !.listnext = n] ELSE r
      BY <1>2, <3>1
    <3> HIDE DEF r
    <3>4. /\ x \in DictNode /\ x.key = r.key /\ x.value = r.value /\ x.next = r.next
          /\ x.listnext = n /\ x.listprev = r.listprev
      BY <2>1, <3>2 DEF DictNode
    <3>5. CASE m = a
      BY <3>1, <3>2, <3>3, <3>4, <3>5 DEF r
    <3>6. CASE m # a
      BY <3>1, <3>2, <3>3, <3>6 DEF r
    <3> QED
      BY <3>5, <3>6
  <2>4. nodes' = [m \in DOMAIN nodes |-> nodes'[m]]
    BY <1>2
  <2>5. nodes' \in [DOMAIN nodes -> DictNode]
    BY <2>2, <2>3, <2>4
  <2> QED
    BY <2>2, <2>3, <2>5 DEF LinkedIn
<1>8. MapStep(es, With(Without(es, i), L, es[i]))
  <2>1. /\ i \in 1 .. Len(es) /\ Without(es, i) \in Seq(DictEntry)
        /\ Len(Without(es, i)) + 1 = L
    BY <1>1, WithoutIs
  <2>2. RemoveAt(es, i) = Without(es, i)
    BY <1>1, <2>1, RemoveAtIsWithout
  <2>3. Append(RemoveAt(es, i), es[i]) = With(Without(es, i), Len(Without(es, i)) + 1, es[i])
    BY <1>3, <2>1, <2>2, EndsAreWith
  <2>4. With(Without(es, i), L, es[i]) \in {Append(RemoveAt(es, j), es[j]) : j \in DOMAIN es}
    BY <1>3, <2>1, <2>3
  <2> QED
    BY <2>4 DEF MapStep
<1>9. /\ t1 = IF listtail = n THEN nodes[n].listprev ELSE listtail
      /\ listhead' = IF h1 = b THEN n ELSE h1
      /\ h1 = IF listhead = n THEN nodes[n].listnext ELSE listhead
      /\ listtail' = IF t1 = a THEN n ELSE t1
  BY <1>2, <1>6
<1>10. a # b \/ a = NULL
  OBVIOUS
<1> HIDE DEF a, b, h1, t1, L
<1>11. L \in 1 .. Len(s)
  BY <1>4 DEF L
<1>12. Moved(s, es, n, i, L, a, b, h1, t1)
  BY <1>2, <1>3, <1>5, <1>7, <1>8, <1>9, <1>10, <1>11 DEF Moved
<1> QED
  BY <1>12, MoveGoes

-----------------------------------------------------------------------------
(* The dictionary from its first state on. *)

LEMMA NextGoes ==
  ASSUME NEW s, NEW es, DictIs(buckets, nodes, listhead, listtail, count, s, es), DictNext
  PROVE  DictGoes(es)
<1>1. ASSUME NEW k \in Key, NEW v \in Val, codict_set(k, v) PROVE DictGoes(es)
  <2>1. CASE codict_set_existing(k, v)
    BY <2>1, SetExistingGoes
  <2>2. CASE codict_set_new(k, v)
    BY <2>2, SetNewGoes
  <2> QED
    BY <1>1, <2>1, <2>2 DEF codict_set
<1>2. ASSUME NEW k \in Key, codict_del(k) PROVE DictGoes(es)
  BY <1>2, DelGoes
<1>3. CASE codict_clear
  BY <1>3, ClearGoes
<1>4. ASSUME NEW n \in DOMAIN nodes, codict_move_head(n) \/ codict_move_tail(n)
      PROVE  DictGoes(es)
  BY <1>4, MoveHeadGoes, MoveTailGoes
<1> QED
  BY <1>1, <1>2, <1>3, <1>4 DEF DictNext

LEMMA DictStarts ==
  ASSUME DictInit
  PROVE  DictIs(buckets, nodes, listhead, listtail, count, <<>>, <<>>)
<1> DEFINE c == BucketSizes[1]
<1>1. /\ buckets = [b \in 0 .. c - 1 |-> NULL] /\ DOMAIN nodes = {}
      /\ nodes = [n \in {} |-> NULL] /\ listhead = NULL /\ listtail = NULL /\ count = 0
  BY DEF DictInit
<1>2. 1 \in DOMAIN BucketSizes /\ c \in Nat \ {0}
  BY DictAssumption
<1>3. NodesOK(nodes)
  BY <1>1 DEF NodesOK
<1>4. Linked(DictEntry, <<>>, Listed(nodes), listhead, listtail, <<>>)
  <2>1. DOMAIN Listed(nodes) = {}
    BY <1>1 DEF Listed
  <2> QED
    BY <1>1, <2>1 DEF Linked, OnceEach, NodeAt
<1> HIDE DEF c
<1>5. TableOK(buckets, nodes, c)
  <2>1. buckets \in [0 .. c - 1 -> Node \cup {NULL}] /\ \A b \in 0 .. c - 1 : buckets[b] = NULL
    BY <1>1, <1>2
  <2>2. ASSUME NEW b \in 0 .. c - 1 PROVE InChain(<<>>, buckets, nodes, c, b)
    <3>1. OfBucket(nodes, c, b) = {}
      BY <1>1 DEF OfBucket
    <3>2. Range(<<>>) = {}
      BY DEF Range
    <3> QED
      BY <2>1, <3>1, <3>2 DEF InChain, Path, OnceEach, NodeAt
  <2> QED
    BY <1>2, <2>1, <2>2 DEF TableOK
<1>6. Sparse(c, count)
  <2>1. 4 * (count - 1) < 3 * c
    BY <1>1, <1>2
  <2> QED
    BY <1>2, <2>1 DEF Sparse, c
<1> QED
  BY <1>1, <1>3, <1>4, <1>5, <1>6 DEF DictIs

LEMMA DictInvAlways == DictSpec => []DictInv
<1>1. DictInit => DictInv
  BY DictStarts DEF DictInv
<1>2. DictInv /\ [DictNext]_dvars => DictInv'
  <2> SUFFICES ASSUME DictInv, [DictNext]_dvars PROVE DictInv'
    OBVIOUS
  <2>1. PICK s, es : DictIs(buckets, nodes, listhead, listtail, count, s, es)
    BY DEF DictInv
  <2>2. CASE DictNext
    BY <2>1, <2>2, NextGoes DEF DictGoes, DictInv
  <2>3. CASE UNCHANGED dvars
    BY <2>1, <2>3 DEF dvars, DictInv
  <2> QED
    BY <2>2, <2>3
<1> QED
  BY <1>1, <1>2, PTL DEF DictSpec

LEMMA ReverseTwice ==
  ASSUME NEW S, NEW s \in Seq(S)
  PROVE  Reverse(Reverse(s)) = s
<1> DEFINE L == Len(s)
           r == [i \in 1 .. L |-> s[(L - i) + 1]]
           w == [i \in 1 .. L |-> r[(L - i) + 1]]
<1>1. L \in Nat /\ \A i \in 1 .. L : s[i] \in S
  OBVIOUS
<1>2. Reverse(s) = r /\ r \in Seq(S) /\ Len(r) = L
  BY <1>1 DEF Reverse
<1> HIDE DEF L
<1>3. ASSUME NEW i \in 1 .. L PROVE w[i] = s[i]
  <2>1. (L - i) + 1 \in 1 .. L /\ (L - ((L - i) + 1)) + 1 = i
    BY <1>1
  <2> QED
    BY <2>1
<1>4. Reverse(r) = w
  BY <1>2 DEF Reverse
<1>5. s = [i \in 1 .. L |-> s[i]]
  BY DEF L
<1>6. w = s
  BY <1>3, <1>5
<1> QED
  BY <1>2, <1>4, <1>6

LEMMA DictInvHolds == DictInv => DictSound
<1> SUFFICES ASSUME DictInv PROVE DictSound
  OBVIOUS
<1>1. PICK s, es : DictIs(buckets, nodes, listhead, listtail, count, s, es)
  BY DEF DictInv
<1>2. /\ NodesOK(nodes) /\ Linked(DictEntry, s, Listed(nodes), listhead, listtail, es)
      /\ s \in Seq(Node) /\ Len(s) \in Nat /\ count = Len(s) /\ OnceEach(s)
      /\ \A m \in DOMAIN nodes : nodes[m] \in DictNode
  BY <1>1, DictFacts
<1>3. PICK c : TableOK(buckets, nodes, c) /\ Sparse(c, count)
  BY <1>1 DEF DictIs
<1>4. cap = c /\ c \in Nat \ {0} /\ DOMAIN buckets = 0 .. c - 1
  BY <1>3, CapIs DEF TableOK
<1>5. Forward = s /\ Backward = Reverse(s) /\ Range(s) = DOMAIN nodes
  <2>1. /\ ForwardOf(nodes, listhead) = s /\ BackwardOf(nodes, listtail) = Reverse(s)
        /\ Range(s) = DOMAIN nodes
    BY <1>2, EntriesAreRead
  <2>2. Forward = ForwardOf(nodes, listhead)
    BY Zenon DEF Forward, ForwardOf
  <2>3. Backward = BackwardOf(nodes, listtail)
    BY Zenon DEF Backward, BackwardOf
  <2> QED
    BY <2>1, <2>2, <2>3
<1>6. Cardinality(DOMAIN nodes) = count
  <2>1. s \in [1 .. Len(s) -> DOMAIN nodes]
    <3>1. \A i \in 1 .. Len(s) : s[i] \in DOMAIN nodes
      BY <1>2, <1>5, RangeIs
    <3>2. s = [i \in 1 .. Len(s) |-> s[i]]
      BY <1>2
    <3> QED
      BY <3>1, <3>2
  <2>2. \A m \in DOMAIN nodes : \E i \in 1 .. Len(s) : s[i] = m
    BY <1>2, <1>5, RangeIs
  <2>3. s \in Bijection(1 .. Len(s), DOMAIN nodes)
    BY <1>2, <2>1, <2>2 DEF Bijection, Injection, IsInjective, Surjection, OnceEach
  <2>4. ExistsBijection(1 .. Len(s), DOMAIN nodes)
    BY <2>3 DEF ExistsBijection
  <2> QED
    BY <1>2, <2>4, FS_CountingElements
<1>7. ASSUME NEW n \in DOMAIN nodes PROVE codict_get(nodes[n].key) = n
  <2>1. nodes[n].key \in Key
    BY <1>2 DEF DictNode
  <2> DEFINE k == nodes[n].key
             m == codict_get(k)
  <2>2. \/ m = NULL /\ \A l \in DOMAIN nodes : nodes[l].key # k
        \/ m \in DOMAIN nodes /\ nodes[m].key = k
    BY <1>1, <2>1, Found
  <2> QED
    BY <1>2, <2>2 DEF NodesOK
<1>8. ASSUME NEW b \in DOMAIN buckets
      PROVE  /\ Len(Chain(b)) <= MaxNodes
             /\ \A n \in Range(Chain(b)) : Bucket(nodes[n].key) = b
  <2>1. PICK ch : InChain(ch, buckets, nodes, c, b)
    BY <1>3, <1>4 DEF TableOK
  <2>2. Chain(b) = ch /\ ch \in Seq(Node) /\ OnceEach(ch) /\ Range(ch) = OfBucket(nodes, c, b)
    BY <2>1, ChainIs DEF InChain, Path
  <2>3. Len(ch) <= MaxNodes
    BY <2>2, NodesSuffice
  <2> QED
    BY <1>4, <2>2, <2>3 DEF OfBucket, Bucket
<1>9. cap < BucketSizes[Len(BucketSizes)] => 4 * (count - 1) < 3 * cap
  <2>1. PICK j \in DOMAIN BucketSizes :
          c = BucketSizes[j] /\ (j < Len(BucketSizes) => 4 * (count - 1) < 3 * c)
    BY <1>3 DEF Sparse
  <2>2. Len(BucketSizes) \in Nat /\ j \in 1 .. Len(BucketSizes)
    BY DictAssumption
  <2>3. j = Len(BucketSizes) => ~(c < BucketSizes[Len(BucketSizes)])
    BY <1>4, <2>1
  <2> QED
    BY <1>4, <2>1, <2>2, <2>3
<1>10. Reverse(Backward) = Forward
  BY <1>2, <1>5, ReverseTwice
<1> QED
  BY <1>2, <1>5, <1>6, <1>7, <1>8, <1>9, <1>10 DEF DictSound

\* Whatever was set, deleted, cleared and moved in whatever order, and however often
\* codict_set (co_dict.c) resized the table on the way, for every hash function and every
\* table of increasing sizes: the list holds every node once in both directions, every
\* node is found by its key, the chains of the buckets stay apart, and the table is sparse
\* unless it is of the last size.
THEOREM DictSoundAlways == DictSpec => []DictSound
<1>1. DictInv => DictSound
  BY DictInvHolds
<1> QED
  BY <1>1, DictInvAlways, PTL

\* The entries of the list are those of the abstract map.
LEMMA EntriesAre ==
  ASSUME NEW heap, NEW h, NEW s, NEW t, NEW es, Linked(DictEntry, s, Listed(heap), h, t, es)
  PROVE  EntriesOf(heap, ForwardOf(heap, h)) = es
<1>1. ForwardOf(heap, h) = s /\ es = EntriesOf(heap, s)
  BY EntriesAreRead
<1> QED
  BY <1>1

LEMMA EntriesUnfold ==
  /\ Entries = EntriesOf(nodes, ForwardOf(nodes, listhead))
  /\ Entries' = EntriesOf(nodes', ForwardOf(nodes', listhead'))
<1>1. Forward = ForwardOf(nodes, listhead)
  BY Zenon DEF Forward, ForwardOf
<1>2. Forward' = ForwardOf(nodes', listhead')
  BY Zenon DEF Forward, ForwardOf
<1>3. Entries = EntriesOf(nodes, Forward)
  BY Zenon DEF Entries, EntriesOf
<1>4. Entries' = EntriesOf(nodes', Forward')
  BY Zenon DEF Entries, EntriesOf
<1> QED
  BY <1>1, <1>2, <1>3, <1>4

\* Seen through its list alone, the dictionary (co_dict.c) is a map with an order: a set
\* appends an entry or replaces its value, a delete takes out one, a move puts one at an
\* end, codict_clear takes out all, and a resize is not seen.
THEOREM DictKeepsMap == DictSpec => KeepsMap
<1>1. DictInit => Map!Init
  <2> SUFFICES ASSUME DictInit PROVE Map!Init
    OBVIOUS
  <2>1. Linked(DictEntry, <<>>, Listed(nodes), listhead, listtail, <<>>)
    BY DictStarts DEF DictIs
  <2>2. Entries = <<>>
    BY <2>1, EntriesAre, EntriesUnfold
  <2> QED
    BY <2>2 DEF Map!Init
<1>2. DictInv /\ [DictNext]_dvars => [Map!Next]_Entries
  <2> SUFFICES ASSUME DictInv, [DictNext]_dvars PROVE [Map!Next]_Entries
    OBVIOUS
  <2>1. PICK s, es : DictIs(buckets, nodes, listhead, listtail, count, s, es)
    BY DEF DictInv
  <2>2. Entries = es
    BY <2>1, EntriesAre, EntriesUnfold DEF DictIs
  <2>3. CASE DictNext
    <3>1. PICK s2, es2 : /\ DictIs(buckets', nodes', listhead', listtail', count', s2, es2)
                         /\ MapStep(es, es2)
      BY <2>1, <2>3, NextGoes DEF DictGoes
    <3>2. Linked(DictEntry, s2, Listed(nodes'), listhead', listtail', es2)
      BY <3>1 DEF DictIs
    <3>3. Entries' = es2
      BY <3>2, EntriesAre, EntriesUnfold
    <3>4. MapStep(Entries, Entries')
      BY <2>2, <3>1, <3>3
    <3>5. \A xs, i : Map!RemoveAt(xs, i) = RemoveAt(xs, i)
      BY DEF RemoveAt, Map!RemoveAt
    <3>6. Map!Next
      BY <3>4, <3>5 DEF MapStep, Map!Next
    <3> QED
      BY <3>6
  <2>4. CASE UNCHANGED dvars
    <3>1. UNCHANGED <<nodes, listhead>>
      BY <2>4 DEF dvars
    <3>2. Entries' = Entries
      BY <3>1, EntriesUnfold
    <3> QED
      BY <3>2
  <2> QED
    BY <2>3, <2>4
<1> QED
  BY <1>1, <1>2, DictInvAlways, PTL DEF DictSpec, KeepsMap, Map!Spec

-----------------------------------------------------------------------------
(* Recursion over numbers. *)

\* A function defined by recursion on its argument takes its i-th value in ok[i], when
\* each step leads from one of these sets to the next.
LEMMA Preserved ==
  ASSUME NEW n \in Nat, NEW ok, NEW f, f[0] \in ok[0],
         \A i \in 1 .. n : f[i - 1] \in ok[i - 1] => f[i] \in ok[i]
  PROVE  \A i \in 0 .. n : f[i] \in ok[i]
<1> DEFINE S == {i \in 0 .. n : f[i] \notin ok[i]}
<1> SUFFICES ASSUME S # {} PROVE FALSE
  OBVIOUS
<1>1. S \in SUBSET Nat
  OBVIOUS
<1> HIDE DEF S
<1>2. PICK i \in S : \A j \in S : i <= j
  BY <1>1, LeastElement
<1>3. i \in 0 .. n /\ f[i] \notin ok[i]
  BY DEF S
<1>4. i # 0
  BY <1>3
<1>5. i - 1 \in 0 .. n /\ i - 1 \notin S
  BY <1>2, <1>3, <1>4
<1>6. f[i - 1] \in ok[i - 1]
  BY <1>5 DEF S
<1> QED
  BY <1>3, <1>4, <1>6

\* There is such a function.
Leads(n, ok, base, step) ==
  base \in ok[0] /\ \A i \in 1 .. n : \A x \in ok[i - 1] : step[i][x] \in ok[i]

Unfolds(g, n, ok, base, step) ==
  /\ g = [i \in 0 .. n |-> IF i = 0 THEN base ELSE step[i][g[i - 1]]]
  /\ \A i \in 0 .. n : g[i] \in ok[i]

LEMMA Recursion ==
  ASSUME NEW n \in Nat, NEW ok, NEW base, NEW step, Leads(n, ok, base, step)
  PROVE  \E g : Unfolds(g, n, ok, base, step)
<1> DEFINE Is(g, m) == Unfolds(g, m, ok, base, step)
           S == {m \in 0 .. n : ~ \E g : Is(g, m)}
<1> SUFFICES ASSUME S # {} PROVE FALSE
  OBVIOUS
<1>0. base \in ok[0] /\ \A i \in 1 .. n : \A x \in ok[i - 1] : step[i][x] \in ok[i]
  BY DEF Leads
<1>1. S \in SUBSET Nat
  OBVIOUS
<1> HIDE DEF S
<1>2. PICK m \in S : \A j \in S : m <= j
  BY <1>1, LeastElement
<1>3. m \in 0 .. n /\ ~ \E g : Is(g, m)
  BY DEF S
<1>4. m # 0
  <2> SUFFICES ASSUME m = 0 PROVE FALSE
    OBVIOUS
  <2> DEFINE g == [i \in 0 .. 0 |-> base]
  <2>1. Is(g, 0)
    BY <1>0 DEF Unfolds
  <2> QED
    BY <2>1, <1>3
<1>5. m - 1 \in 0 .. n /\ m - 1 \notin S
  BY <1>2, <1>3, <1>4
<1>6. PICK g : Is(g, m - 1)
  BY <1>5 DEF S
<1> DEFINE h == [i \in 0 .. m |-> IF i = m THEN step[m][g[m - 1]] ELSE g[i]]
<1>7. \A i \in 0 .. m - 1 : h[i] = g[i]
  BY <1>3
<1>8. h[m] = step[m][g[m - 1]] /\ DOMAIN h = 0 .. m
  BY <1>3
<1>9. \A i \in 0 .. m : h[i] = IF i = 0 THEN base ELSE step[i][h[i - 1]]
  <2> SUFFICES ASSUME NEW i \in 0 .. m PROVE h[i] = IF i = 0 THEN base ELSE step[i][h[i - 1]]
    OBVIOUS
  <2>1. CASE i = m
    <3>1. m - 1 \in 0 .. m - 1
      BY <1>3, <1>4
    <3> QED
      BY <2>1, <3>1, <1>7, <1>8, <1>4
  <2>2. CASE i # m
    <3>1. i \in 0 .. m - 1 /\ (i # 0 => i - 1 \in 0 .. m - 1)
      BY <2>2, <1>3
    <3>2. g[i] = IF i = 0 THEN base ELSE step[i][g[i - 1]]
      BY <1>6, <3>1 DEF Unfolds
    <3> QED
      BY <3>1, <3>2, <1>7
  <2> QED
    BY <2>1, <2>2
<1>10. \A i \in 0 .. m : h[i] \in ok[i]
  <2>1. \A i \in 0 .. m - 1 : h[i] \in ok[i]
    BY <1>6, <1>7 DEF Unfolds
  <2>2. g[m - 1] \in ok[m - 1] /\ m \in 1 .. n
    BY <1>6, <1>3, <1>4 DEF Unfolds
  <2>3. h[m] \in ok[m]
    BY <2>2, <1>0, <1>8
  <2> HIDE DEF h
  <2> QED
    BY <2>1, <2>3, <1>3
<1>11. h = [i \in DOMAIN h |-> h[i]]
  OBVIOUS
<1> HIDE DEF h
<1>12. h = [i \in 0 .. m |-> IF i = 0 THEN base ELSE step[i][h[i - 1]]]
  BY <1>8, <1>9, <1>11
<1>13. Is(h, m)
  BY <1>10, <1>12 DEF Unfolds
<1> QED
  BY <1>13, <1>3

-----------------------------------------------------------------------------
(* The search by halves. *)

Sorted(codes) == /\ codes \in Seq(Nat)
                 /\ \A i, j \in 1 .. Len(codes) : i < j => codes[i] < codes[j]

\* What is left to search, of a vector with n elements, after i turns.
Search == [low : Int, high : Int, mid : Int, found : BOOLEAN]

Narrowed(codes, code, i) ==
  {s \in Search :
     \/ s.found /\ s.mid \in 0 .. Len(codes) - 1 /\ codes[s.mid + 1] = code
     \/ /\ ~ s.found /\ 0 <= s.mid /\ (s.mid < Len(codes) \/ Len(codes) = 0)
        /\ 0 <= s.low /\ s.low <= s.high + 1 /\ s.high < Len(codes)
        /\ s.high + 1 - s.low <= Len(codes) - i \/ s.high + 1 = s.low
        /\ \A j \in 1 .. s.low : codes[j] < code
        /\ \A j \in s.high + 2 .. Len(codes) : codes[j] > code
        /\ \/ s.mid = s.low - 1 \/ s.mid = s.high + 1
           \/ s.low = 0 /\ s.high = Len(codes) - 1 /\ s.mid = 0}

LEMMA TurnNarrows ==
  ASSUME NEW codes, Sorted(codes), NEW code \in Int, NEW i \in 1 .. Len(codes),
         NEW s \in Narrowed(codes, code, i - 1)
  PROVE  Turn(codes, code, s) \in Narrowed(codes, code, i)
<1> DEFINE n == Len(codes)
           mid == (s.high + s.low) \div 2
           node == codes[mid + 1]
           t == Turn(codes, code, s)
<1> SUFFICES t \in Narrowed(codes, code, i)
  OBVIOUS
<1>1. n \in Nat /\ (\A j \in 1 .. n : codes[j] \in Nat) /\ s \in Search
  BY DEF Sorted, Narrowed
<1>2. s.low \in Int /\ s.high \in Int /\ s.mid \in Int /\ s.found \in BOOLEAN
  BY <1>1 DEF Search
<1>3. CASE s.found \/ s.low > s.high
  <2>1. t = s
    BY <1>3 DEF Turn
  <2> HIDE DEF t
  <2> QED
    BY <2>1, <1>1, <1>2, <1>3 DEF Narrowed
<1>4. CASE ~ (s.found \/ s.low > s.high)
  <2>1. /\ ~ s.found /\ s.low <= s.high
        /\ 0 <= s.low /\ s.high < n /\ s.high + 1 - s.low <= n - (i - 1)
        /\ \A j \in 1 .. s.low : codes[j] < code
        /\ \A j \in s.high + 2 .. n : codes[j] > code
    BY <1>2, <1>4 DEF Narrowed
  <2>2. mid \in Int /\ s.low <= mid /\ mid <= s.high
    BY <2>1, <1>2
  <2> HIDE DEF mid
  <2>3. mid + 1 \in 1 .. n /\ node \in Nat
    BY <2>1, <2>2, <1>1, <1>2
  <2>4. t = [low   |-> IF code > node THEN mid + 1 ELSE s.low,
             high  |-> IF code < node THEN mid - 1 ELSE s.high,
             mid   |-> mid,
             found |-> code = node]
    BY <1>4 DEF Turn, mid
  <2>5. /\ t.low = (IF code > node THEN mid + 1 ELSE s.low)
        /\ t.high = (IF code < node THEN mid - 1 ELSE s.high)
        /\ t.mid = mid /\ (t.found <=> code = node)
        /\ t \in Search
    <3> DEFINE lo == IF code > node THEN mid + 1 ELSE s.low
               hi == IF code < node THEN mid - 1 ELSE s.high
               eq == code = node
    <3>1. lo \in Int /\ hi \in Int /\ eq \in BOOLEAN /\ mid \in Int
      BY <2>2, <1>2
    <3>2. t = [low |-> lo, high |-> hi, mid |-> mid, found |-> eq]
      BY <2>4
    <3> SUFFICES t.low = lo /\ t.high = hi /\ t.mid = mid /\ t.found = eq /\ t \in Search
      OBVIOUS
    <3> HIDE DEF lo, hi, eq, t
    <3> QED
      BY <3>1, <3>2 DEF Search
  <2> HIDE DEF t, node
  <2>6. CASE code = node
    <3>1. t.found /\ t.mid \in 0 .. n - 1 /\ codes[t.mid + 1] = code
      BY <2>2, <2>3, <2>5, <2>6, <1>1 DEF node
    <3> QED
      BY <3>1, <2>5 DEF Narrowed
  <2>7. CASE code > node
    <3>1. ~ t.found /\ t.low = mid + 1 /\ t.high = s.high
      BY <2>3, <2>5, <2>7
    <3>2. \A j \in 1 .. t.low : codes[j] < code
      <4> SUFFICES ASSUME NEW j \in 1 .. mid + 1 PROVE codes[j] < code
        BY <3>1
      <4>1. j \in 1 .. n /\ (j < mid + 1 => codes[j] < node)
        BY <2>2, <2>3 DEF Sorted, node
      <4> QED
        BY <4>1, <2>3, <2>7, <1>1, <2>2 DEF node
    <3>3. /\ 0 <= t.low /\ t.low <= t.high + 1 /\ t.high < n
          /\ t.high + 1 - t.low <= n - i
          /\ t.mid = t.low - 1 /\ 0 <= t.mid /\ t.mid < n
      BY <3>1, <2>5, <2>1, <2>2, <1>1, <1>2
    <3>4. \A j \in t.high + 2 .. n : codes[j] > code
      BY <3>1, <2>1
    <3> HIDE DEF n
    <3> QED
      BY <3>1, <3>2, <3>3, <3>4, <2>5 DEF Narrowed, n
  <2>8. CASE code < node
    <3>1. ~ t.found /\ t.low = s.low /\ t.high = mid - 1
      BY <2>3, <2>5, <2>8
    <3>2. t.high + 2 = mid + 1
      BY <3>1, <2>2
    <3>3. \A j \in t.high + 2 .. n : codes[j] > code
      <4> SUFFICES ASSUME NEW j \in mid + 1 .. n PROVE codes[j] > code
        BY <3>2
      <4>1. j \in 1 .. n /\ (mid + 1 < j => node < codes[j])
        BY <2>1, <2>2, <2>3, <1>2 DEF Sorted, node
      <4> QED
        BY <4>1, <2>3, <2>8, <1>1, <2>2 DEF node
    <3>4. /\ 0 <= t.low /\ t.low <= t.high + 1 /\ t.high < n
          /\ t.high + 1 - t.low <= n - i
          /\ t.mid = t.high + 1 /\ 0 <= t.mid /\ t.mid < n
      BY <3>1, <2>5, <2>1, <2>2, <1>1, <1>2
    <3>5. \A j \in 1 .. t.low : codes[j] < code
      BY <3>1, <2>1
    <3> HIDE DEF n
    <3> QED
      BY <3>1, <3>3, <3>4, <3>5, <2>5 DEF Narrowed, n
  <2> QED
    BY <2>3, <2>6, <2>7, <2>8
<1> QED
  BY <1>3, <1>4

\* The search finds a character where it is, and otherwise the place between the smaller
\* and the greater ones.
PlaceOf(at, codes, code) ==
  /\ at.found <=> \E j \in 1 .. Len(codes) : codes[j] = code
  /\ ~ at.found => /\ at.index \in 0 .. Len(codes)
                   /\ \A j \in 1 .. Len(codes) : /\ (j <= at.index => codes[j] < code)
                                                /\ (j > at.index => codes[j] > code)

LEMMA SearchFinds ==
  ASSUME NEW codes, Sorted(codes), NEW code \in Int
  PROVE  PlaceOf(_cowf_find_child(codes, code), codes, code)
<1> DEFINE n == Len(codes)
           base == [low |-> 0, high |-> n - 1, mid |-> 0, found |-> FALSE]
           ok == [i \in 0 .. n |-> Narrowed(codes, code, i)]
           step == [i \in 1 .. n |->
                      [s \in Narrowed(codes, code, i - 1) |-> Turn(codes, code, s)]]
           Is(g) == g = [i \in 0 .. n |-> IF i = 0 THEN base ELSE Turn(codes, code, g[i - 1])]
<1>1. n \in Nat /\ (\A j \in 1 .. n : codes[j] \in Nat)
  BY DEF Sorted
<1>2. base \in ok[0]
  <2>1. base \in Search /\ ok[0] = Narrowed(codes, code, 0)
    BY <1>1 DEF Search
  <2>2. base.low = 0 /\ base.high = n - 1 /\ base.mid = 0 /\ base.found = FALSE
    OBVIOUS
  <2> HIDE DEF base, ok
  <2> QED
    BY <2>1, <2>2, <1>1 DEF Narrowed
<1>3. \A i \in 1 .. n : i - 1 \in 0 .. n /\ ok[i - 1] = Narrowed(codes, code, i - 1)
                        /\ ok[i] = Narrowed(codes, code, i)
  BY <1>1
<1>4. \A i \in 1 .. n : \A s \in ok[i - 1] : Turn(codes, code, s) \in ok[i]
                                             /\ step[i][s] = Turn(codes, code, s)
  <2> SUFFICES ASSUME NEW i \in 1 .. n, NEW s \in ok[i - 1]
               PROVE  Turn(codes, code, s) \in ok[i] /\ step[i][s] = Turn(codes, code, s)
    OBVIOUS
  <2>1. s \in Narrowed(codes, code, i - 1)
    BY <1>3
  <2>2. Turn(codes, code, s) \in Narrowed(codes, code, i)
    BY <2>1, TurnNarrows
  <2> HIDE DEF ok
  <2> QED
    BY <2>1, <2>2, <1>3
<1> HIDE DEF ok, step, base
<1>5. \E g : Is(g)
  <2>1. PICK g : Unfolds(g, n, ok, base, step)
    <3>1. Leads(n, ok, base, step)
      BY <1>2, <1>4 DEF Leads
    <3> HIDE DEF n
    <3> QED
      BY <3>1, <1>1, Recursion
  <2>2. \A i \in 0 .. n : i # 0 => step[i][g[i - 1]] = Turn(codes, code, g[i - 1])
    <3> SUFFICES ASSUME NEW i \in 0 .. n, i # 0
                 PROVE  step[i][g[i - 1]] = Turn(codes, code, g[i - 1])
      OBVIOUS
    <3>1. i \in 1 .. n /\ i - 1 \in 0 .. n
      BY <1>1
    <3> QED
      BY <3>1, <2>1, <1>4 DEF Unfolds
  <2>3. Is(g)
    BY <2>1, <2>2 DEF Unfolds
  <2> QED
    BY <2>3
<1> DEFINE f == CHOOSE g : Is(g)
           end == f[n]
           here == end.found \/ codes = <<>> \/ code < codes[end.mid + 1]
           at == [found |-> end.found, index |-> IF here THEN end.mid ELSE end.mid + 1]
<1>6. _cowf_find_child(codes, code) = at
  BY DEF _cowf_find_child, base
<1>7. Is(f)
  BY <1>5
<1> HIDE DEF f
<1>8. end \in Narrowed(codes, code, n)
  <2>1. f[0] = base /\ \A i \in 1 .. n : f[i] = Turn(codes, code, f[i - 1])
    BY <1>1, <1>7
  <2>2. \A i \in 1 .. n : f[i - 1] \in ok[i - 1] => f[i] \in ok[i]
    BY <2>1, <1>4
  <2>3. \A i \in 0 .. n : f[i] \in ok[i]
    <3> HIDE DEF n
    <3> QED
      BY <2>1, <2>2, <1>1, <1>2, Preserved
  <2> QED
    BY <2>3, <1>1 DEF ok
<1> HIDE DEF end
<1>9. end.low \in Int /\ end.high \in Int /\ end.mid \in Int /\ end.found \in BOOLEAN
  BY <1>8 DEF Narrowed, Search
<1> SUFFICES PlaceOf(at, codes, code)
  BY <1>6
<1>10. CASE end.found
  <2>1. at.found = TRUE
    BY <1>9, <1>10
  <2>2. end.mid + 1 \in 1 .. n /\ codes[end.mid + 1] = code
    BY <1>8, <1>9, <1>10, <1>1 DEF Narrowed
  <2> HIDE DEF at
  <2> QED
    BY <2>1, <2>2 DEF PlaceOf
<1>11. CASE ~ end.found
  <2>1. /\ end.low = end.high + 1 /\ 0 <= end.low /\ end.high < n
        /\ \A j \in 1 .. end.low : codes[j] < code
        /\ \A j \in end.low + 1 .. n : codes[j] > code
        /\ 0 <= end.mid /\ (end.mid < n \/ n = 0)
        /\ end.mid = end.low - 1 \/ end.mid = end.low \/ (n = 0 /\ end.mid = 0 /\ end.low = 0)
    BY <1>8, <1>9, <1>11, <1>1 DEF Narrowed
  <2>2. codes = <<>> <=> n = 0
    BY DEF Sorted
  <2>3. at.found = FALSE /\ at.index = end.low
    <3>1. at.found = FALSE /\ at.index = IF here THEN end.mid ELSE end.mid + 1
      BY <1>11, <1>9
    <3>0. here <=> n = 0 \/ code < codes[end.mid + 1]
      BY <2>2, <1>11
    <3> HIDE DEF at, here
    <3>2. CASE n = 0
      BY <3>0, <3>1, <3>2, <2>1, <1>9
    <3>3. CASE n # 0 /\ end.mid = end.low - 1
      <4>1. end.low # 0 => end.low \in 1 .. n /\ codes[end.mid + 1] < code
        BY <3>3, <2>1, <1>9, <1>1
      <4> QED
        BY <4>1, <3>0, <3>1, <3>3, <2>1, <1>1, <1>9
    <3>4. CASE n # 0 /\ end.mid = end.low
      BY <3>0, <3>1, <3>4, <2>1, <1>1, <1>9
    <3> QED
      BY <3>2, <3>3, <3>4, <2>1
  <2> HIDE DEF at
  <2> QED
    BY <2>1, <2>3, <1>1, <1>9 DEF PlaceOf
<1> QED
  BY <1>9, <1>10, <1>11

-----------------------------------------------------------------------------
(* The trie. *)

\* The characters of words; Bad is none.
Code == DOMAIN Width \ {Bad}

HasChild(codes, c) == \E j \in 1 .. Len(codes) : codes[j] = c

\* Children are sorted, and they and the nodes are each other's: a node other than the
\* root is the child of a node.
TrieOK(ch) ==
  /\ ch \in [DOMAIN ch -> Seq(Code)] /\ DOMAIN ch \subseteq Seq(Code)
  /\ <<>> \in DOMAIN ch
  /\ \A p \in DOMAIN ch : Sorted(ch[p])
  /\ \A p \in DOMAIN ch : \A c \in Code : Append(p, c) \in DOMAIN ch <=> HasChild(ch[p], c)
  /\ \A q \in DOMAIN ch : q = <<>> \/ \E p \in DOMAIN ch : \E c \in Code : q = Append(p, c)

LEMMA CodeIs == Code \subseteq Nat /\ \A c \in Code : c > 0
<1>1. DOMAIN Width \subseteq Nat
  BY WordFilterAssumption
<1> QED
  BY <1>1 DEF Code, Bad

LEMMA AppendOnce ==
  ASSUME NEW p \in Seq(Code), NEW q \in Seq(Code), NEW c \in Code, NEW d \in Code,
         Append(p, c) = Append(q, d)
  PROVE  p = q /\ c = d
<1>1. Len(Append(p, c)) = Len(p) + 1 /\ Len(Append(q, d)) = Len(q) + 1
  OBVIOUS
<1>2. Len(p) = Len(q) /\ Len(p) \in Nat
  BY <1>1
<1>3. c = Append(p, c)[Len(p) + 1] /\ d = Append(q, d)[Len(q) + 1]
  OBVIOUS
<1>4. \A i \in 1 .. Len(p) : p[i] = Append(p, c)[i] /\ q[i] = Append(q, d)[i]
  BY <1>2
<1>5. \A i \in 1 .. Len(p) : p[i] = q[i]
  BY <1>4
<1> QED
  BY <1>2, <1>3, <1>5

LEMMA Grown ==
  ASSUME NEW ch, TrieOK(ch), NEW parent \in DOMAIN ch, NEW code \in Code
  PROVE  /\ TrieOK(_cowf_insert_child(ch, parent, code))
         /\ DOMAIN ch \subseteq DOMAIN _cowf_insert_child(ch, parent, code)
         /\ Append(parent, code) \in DOMAIN _cowf_insert_child(ch, parent, code)
<1> DEFINE codes == ch[parent]
           at == _cowf_find_child(codes, code)
           child == Append(parent, code)
           i == at.index + 1
           wider == InsertAt(codes, i, code)
           D == DOMAIN ch \cup {child}
           new == [n \in D |-> IF n = child THEN <<>> ELSE IF n = parent THEN wider ELSE ch[n]]
<1>1. /\ parent \in Seq(Code) /\ child \in Seq(Code) /\ Sorted(codes) /\ codes \in Seq(Nat)
      /\ codes \in Seq(Code) /\ code \in Nat /\ code > 0
  BY CodeIs DEF TrieOK
<1>2. PlaceOf(at, codes, code)
  BY <1>1, SearchFinds
<1> HIDE DEF at
<1>3. child \in DOMAIN ch <=> HasChild(codes, code)
  BY DEF TrieOK
<1>4. CASE at.found
  <2>1. child \in DOMAIN ch
    BY <1>2, <1>3, <1>4 DEF PlaceOf, HasChild
  <2>2. _cowf_insert_child(ch, parent, code) = ch
    BY <1>4 DEF _cowf_insert_child, at
  <2> QED
    BY <2>1, <2>2
<1>5. CASE ~ at.found
  <2>1. _cowf_insert_child(ch, parent, code) = new
    BY <1>5 DEF _cowf_insert_child, at
  <2>2. i \in 1 .. Len(codes) + 1 /\ i \in Nat
    BY <1>1, <1>2, <1>5 DEF PlaceOf
  <2>3. \A j \in 1 .. Len(codes) : (j < i => codes[j] < code) /\ (j >= i => codes[j] > code)
    <3>1. at.index \in Nat
      BY <1>1, <1>2, <1>5 DEF PlaceOf
    <3> QED
      BY <3>1, <1>1, <1>2, <1>5 DEF PlaceOf
  <2> HIDE DEF i
  <2>4. /\ wider = With(codes, i, code) /\ wider \in Seq(Nat)
        /\ wider \in Seq(Code) /\ Len(wider) = Len(codes) + 1
    BY <1>1, <2>2, InsertAtIsWith, WithIs
  <2>5. \A j \in 1 .. Len(codes) + 1 :
          wider[j] = IF j < i THEN codes[j] ELSE IF j = i THEN code ELSE codes[j - 1]
    BY <2>4 DEF With
  <2> HIDE DEF wider
  <2>6. Sorted(wider)
    <3> SUFFICES ASSUME NEW j \in 1 .. Len(codes) + 1, NEW k \in 1 .. Len(codes) + 1, j < k
                 PROVE  wider[j] < wider[k]
      BY <2>4 DEF Sorted
    <3>1. Len(codes) \in Nat /\ \A m \in 1 .. Len(codes) : codes[m] \in Nat
      BY <1>1
    <3>2. \A m, n \in 1 .. Len(codes) : m < n => codes[m] < codes[n]
      BY <1>1 DEF Sorted
    <3> HIDE DEF codes
    <3>3. CASE k < i
      BY <2>5, <2>2, <3>1, <3>2, <3>3
    <3>4. CASE k = i
      BY <2>5, <2>2, <2>3, <3>1, <3>4
    <3>5. CASE k > i
      <4>1. k - 1 \in 1 .. Len(codes) /\ wider[k] = codes[k - 1] /\ codes[k - 1] > code
        BY <2>5, <2>2, <2>3, <3>1, <3>5
      <4>2. CASE j < i
        <5>1. wider[j] = codes[j] /\ j \in 1 .. Len(codes) /\ codes[j] < code
          BY <2>5, <2>2, <2>3, <3>1, <4>2
        <5> QED
          BY <5>1, <4>1, <3>1, <1>1
      <4>3. CASE j = i
        BY <2>5, <4>1, <4>3
      <4>4. CASE j > i
        <5>1. wider[j] = codes[j - 1] /\ j - 1 \in 1 .. Len(codes) /\ j - 1 < k - 1
          BY <2>5, <2>2, <3>1, <4>4
        <5> QED
          BY <5>1, <4>1, <3>2
      <4> QED
        BY <4>2, <4>3, <4>4, <2>2
    <3> QED
      BY <3>3, <3>4, <3>5, <2>2
  <2>7. \A c : HasChild(wider, c) <=> (HasChild(codes, c) \/ c = code)
    <3> SUFFICES ASSUME NEW c
                 PROVE  HasChild(wider, c) <=> (HasChild(codes, c) \/ c = code)
      OBVIOUS
    <3>1. Len(codes) \in Nat
      BY <1>1
    <3>2. ASSUME NEW j \in 1 .. Len(codes) + 1, wider[j] = c
          PROVE  HasChild(codes, c) \/ c = code
      <4>1. CASE j < i
        <5>1. j \in 1 .. Len(codes) /\ codes[j] = c
          BY <2>5, <2>2, <3>1, <3>2, <4>1
        <5> QED
          BY <5>1 DEF HasChild
      <4>2. CASE j = i
        BY <2>5, <3>2, <4>2
      <4>3. CASE j > i
        <5>1. j - 1 \in 1 .. Len(codes) /\ codes[j - 1] = c
          BY <2>5, <2>2, <3>1, <3>2, <4>3
        <5> QED
          BY <5>1 DEF HasChild
      <4> QED
        BY <4>1, <4>2, <4>3, <2>2
    <3>3. ASSUME NEW j \in 1 .. Len(codes), codes[j] = c
          PROVE  HasChild(wider, c)
      <4>1. CASE j < i
        <5>1. j \in 1 .. Len(wider) /\ wider[j] = c
          BY <2>4, <2>5, <2>2, <3>1, <3>3, <4>1
        <5> QED
          BY <5>1 DEF HasChild
      <4>2. CASE j >= i
        <5>1. j + 1 \in 1 .. Len(wider) /\ wider[j + 1] = c
          <6>1. j + 1 \in 1 .. Len(codes) + 1 /\ ~ (j + 1 < i) /\ j + 1 # i /\ (j + 1) - 1 = j
            BY <2>2, <3>1, <4>2
          <6> QED
            BY <6>1, <2>4, <2>5, <3>3
        <5> QED
          BY <5>1 DEF HasChild
      <4> QED
        BY <4>1, <4>2, <2>2
    <3>4. HasChild(wider, code)
      BY <2>2, <2>4, <2>5 DEF HasChild
    <3> QED
      BY <3>2, <3>3, <3>4, <2>4 DEF HasChild
  <2>8. ~ HasChild(codes, code) /\ child \notin DOMAIN ch /\ child # parent
    <3>1. ~ HasChild(codes, code)
      BY <1>2, <1>5 DEF PlaceOf, HasChild
    <3> QED
      BY <3>1, <1>3
  <2> HIDE DEF child
  <2>9. /\ new[child] = <<>> /\ new[parent] = wider /\ DOMAIN new = D
        /\ \A p \in DOMAIN ch : p # parent => new[p] = ch[p]
    BY <2>8
  <2>10. new \in [D -> Seq(Code)]
    BY <2>4 DEF TrieOK
  <2> HIDE DEF new
  <2>11. D \subseteq Seq(Code) /\ <<>> \in D
    BY <1>1 DEF TrieOK
  <2>12. \A p \in D : Sorted(new[p])
    <3>1. Sorted(<<>>)
      BY DEF Sorted
    <3> QED
      BY <3>1, <2>6, <2>9 DEF TrieOK
  <2>13. ASSUME NEW p \in D, NEW c \in Code
         PROVE  Append(p, c) \in D <=> HasChild(new[p], c)
    <3>1. p \in Seq(Code)
      BY <2>11
    <3>2. Append(p, c) = child => p = parent /\ c = code
      BY <3>1, <1>1, AppendOnce DEF child
    <3>3. CASE p = child
      <4>1. ~ HasChild(new[p], c)
        BY <2>9, <3>3 DEF HasChild
      <4>2. Append(p, c) # child
        BY <3>2, <3>3, <2>8
      <4>3. Append(p, c) \notin DOMAIN ch
        <5> SUFFICES ASSUME Append(p, c) \in DOMAIN ch PROVE FALSE
          OBVIOUS
        <5>1. Append(p, c) # <<>>
          BY <3>1
        <5>2. PICK q \in DOMAIN ch, d \in Code : Append(p, c) = Append(q, d)
          BY <5>1 DEF TrieOK
        <5>3. p = q
          <6>1. q \in Seq(Code)
            BY DEF TrieOK
          <6> QED
            BY <6>1, <5>2, <3>1, AppendOnce
        <5> QED
          BY <5>3, <3>3, <2>8
      <4> QED
        BY <4>1, <4>2, <4>3
    <3>4. CASE p = parent
      <4>1. Append(p, c) \in DOMAIN ch <=> HasChild(codes, c)
        BY <3>4 DEF TrieOK
      <4>2. Append(p, c) = child <=> c = code
        BY <3>2, <3>4 DEF child
      <4> QED
        BY <4>1, <4>2, <3>4, <2>7, <2>9
    <3>5. CASE p # child /\ p # parent
      <4>1. p \in DOMAIN ch /\ new[p] = ch[p]
        BY <3>5, <2>9
      <4> QED
        BY <4>1, <3>2, <3>5 DEF TrieOK
    <3> QED
      BY <3>3, <3>4, <3>5
  <2>14. ASSUME NEW q \in D
         PROVE  q = <<>> \/ \E p \in D : \E c \in Code : q = Append(p, c)
    <3>1. CASE q = child
      BY <3>1 DEF child
    <3>2. CASE q \in DOMAIN ch
      BY <3>2 DEF TrieOK
    <3> QED
      BY <3>1, <3>2
  <2>15. TrieOK(new)
    <3> HIDE DEF D
    <3> QED
      BY <2>9, <2>10, <2>11, <2>12, <2>13, <2>14 DEF TrieOK
  <2> QED
    BY <2>1, <2>9, <2>15 DEF child
<1> QED
  BY <1>4, <1>5

LEMMA Prefix ==
  ASSUME NEW S, NEW s \in Seq(S), NEW i \in 0 .. Len(s)
  PROVE  /\ SubSeq(s, 1, i) \in Seq(S) /\ Len(SubSeq(s, 1, i)) = i
         /\ \A j \in 1 .. i : SubSeq(s, 1, i)[j] = s[j]
<1>1. i \in Nat /\ Len(s) \in Nat /\ i <= Len(s)
  OBVIOUS
<1>2. \A j \in 1 .. i : s[j] \in S /\ 1 + j - 1 = j
  BY <1>1
<1>3. /\ SubSeq(s, 1, i) \in Seq(S) /\ Len(SubSeq(s, 1, i)) = IF 1 <= i THEN i - 1 + 1 ELSE 0
      /\ \A j \in 1 .. i - 1 + 1 : SubSeq(s, 1, i)[j] = s[1 + j - 1]
  BY <1>1, <1>2, SubSeqProperties
<1> QED
  BY <1>1, <1>2, <1>3

\* A character more.
LEMMA PrefixNext ==
  ASSUME NEW S, NEW s \in Seq(S), NEW i \in 1 .. Len(s)
  PROVE  /\ s[i] \in S /\ SubSeq(s, 1, i - 1) \in Seq(S)
         /\ SubSeq(s, 1, i) = Append(SubSeq(s, 1, i - 1), s[i])
<1> DEFINE p == SubSeq(s, 1, i - 1)
           q == SubSeq(s, 1, i)
<1>1. i - 1 \in 0 .. Len(s) /\ i \in 0 .. Len(s) /\ s[i] \in S /\ i \in Nat
  OBVIOUS
<1>2. p \in Seq(S) /\ Len(p) = i - 1 /\ \A j \in 1 .. i - 1 : p[j] = s[j]
  BY <1>1, Prefix
<1>3. q \in Seq(S) /\ Len(q) = i /\ \A j \in 1 .. i : q[j] = s[j]
  BY <1>1, Prefix
<1> HIDE DEF p, q
<1>4. /\ Append(p, s[i]) \in Seq(S) /\ Len(Append(p, s[i])) = i
      /\ \A j \in 1 .. i - 1 : Append(p, s[i])[j] = p[j]
      /\ Append(p, s[i])[i] = s[i]
  BY <1>1, <1>2
<1>5. \A j \in 1 .. i : q[j] = Append(p, s[i])[j]
  <2> SUFFICES ASSUME NEW j \in 1 .. i PROVE q[j] = Append(p, s[i])[j]
    OBVIOUS
  <2>1. j = i \/ j \in 1 .. i - 1
    BY <1>1
  <2> QED
    BY <2>1, <1>2, <1>3, <1>4
<1>6. q = Append(p, s[i])
  BY <1>3, <1>4, <1>5, SeqEqual
<1> QED
  BY <1>1, <1>2, <1>6 DEF p, q

LEMMA PrefixEnds ==
  ASSUME NEW S, NEW s \in Seq(S)
  PROVE  SubSeq(s, 1, 0) = <<>> /\ SubSeq(s, 1, Len(s)) = s
<1>1. 0 \in 0 .. Len(s) /\ Len(s) \in 0 .. Len(s) /\ Len(s) \in Nat
  OBVIOUS
<1>2. SubSeq(s, 1, 0) \in Seq(S) /\ Len(SubSeq(s, 1, 0)) = 0
  BY <1>1, Prefix
<1>3. /\ SubSeq(s, 1, Len(s)) \in Seq(S) /\ Len(SubSeq(s, 1, Len(s))) = Len(s)
      /\ \A j \in 1 .. Len(s) : SubSeq(s, 1, Len(s))[j] = s[j]
  BY <1>1, Prefix
<1>4. SubSeq(s, 1, 0) = <<>>
  BY <1>2
<1>5. SubSeq(s, 1, Len(s)) = s
  BY <1>3, SeqEqual
<1> QED
  BY <1>4, <1>5

\* The path to a node leads through nodes.
LEMMA PrefixesAreNodes ==
  ASSUME NEW ch, TrieOK(ch), NEW q \in DOMAIN ch, NEW i \in 0 .. Len(q)
  PROVE  SubSeq(q, 1, i) \in DOMAIN ch
<1> DEFINE n == Len(q)
           f == [k \in 0 .. n |-> SubSeq(q, 1, n - k)]
           ok == [k \in 0 .. n |-> DOMAIN ch]
<1>1. q \in Seq(Code) /\ n \in Nat
  BY DEF TrieOK
<1>2. f[0] \in ok[0]
  <2>1. n - 0 = n /\ 0 \in 0 .. n /\ SubSeq(q, 1, n) = q
    BY <1>1, PrefixEnds
  <2> QED
    BY <2>1
<1>3. ASSUME NEW k \in 1 .. n, f[k - 1] \in ok[k - 1]
      PROVE  f[k] \in ok[k]
  <2>1. /\ k - 1 \in 0 .. n /\ k \in 0 .. n /\ n - (k - 1) \in 1 .. n
        /\ n - k = (n - (k - 1)) - 1
    BY <1>1
  <2> DEFINE m == n - (k - 1)
  <2>2. SubSeq(q, 1, m) \in DOMAIN ch
    BY <1>3, <2>1
  <2>3. /\ SubSeq(q, 1, m) = Append(SubSeq(q, 1, m - 1), q[m])
        /\ q[m] \in Code /\ SubSeq(q, 1, m - 1) \in Seq(Code)
    BY <1>1, <2>1, PrefixNext
  <2> DEFINE x == SubSeq(q, 1, m)
             y == SubSeq(q, 1, m - 1)
             d == q[m]
  <2> HIDE DEF x, y, d
  <2>4. x \in DOMAIN ch /\ x = Append(y, d) /\ y \in Seq(Code) /\ d \in Code
    BY <2>2, <2>3 DEF x, y, d
  <2>5. x # <<>>
    BY <2>4
  <2>6. PICK p \in DOMAIN ch, c \in Code : x = Append(p, c)
    BY <2>4, <2>5 DEF TrieOK
  <2>7. p = y
    <3>1. p \in Seq(Code)
      BY DEF TrieOK
    <3> QED
      BY <3>1, <2>4, <2>6, AppendOnce
  <2> QED
    BY <2>7, <2>1 DEF y
<1> HIDE DEF f, ok, n
<1>4. \A k \in 0 .. n : f[k] \in ok[k]
  BY <1>1, <1>2, <1>3, Preserved
<1>5. n - i \in 0 .. n /\ n - (n - i) = i
  BY <1>1 DEF n
<1> QED
  BY <1>4, <1>5 DEF f, ok

\* A walk from the root finds the nodes.
LEMMA ReachedIs ==
  ASSUME TrieOK(chvec), NEW path \in Seq(Int)
  PROVE  Reached(path) <=> path \in DOMAIN chvec
<1> DEFINE n == Len(path)
           Before(i) == SubSeq(path, 1, i - 1)
<1>1. n \in Nat /\ DOMAIN path = 1 .. n /\ \A i \in 1 .. n : path[i] \in Int
  OBVIOUS
<1>2. \A i \in 1 .. n : /\ SubSeq(path, 1, i) = Append(Before(i), path[i])
                        /\ Before(i) \in Seq(Int)
  BY PrefixNext
<1>3. ASSUME NEW i \in 1 .. n, Before(i) \in DOMAIN chvec
      PROVE  _cowf_find_child(chvec[Before(i)], path[i]).found
               <=> SubSeq(path, 1, i) \in DOMAIN chvec
  <2> DEFINE codes == chvec[Before(i)]
  <2>1. Sorted(codes)
    BY <1>3 DEF TrieOK
  <2>2. PlaceOf(_cowf_find_child(codes, path[i]), codes, path[i])
    BY <2>1, <1>1, SearchFinds
  <2>3. Append(Before(i), path[i]) \in DOMAIN chvec <=> HasChild(codes, path[i])
    <3>1. HasChild(codes, path[i]) => path[i] \in Code
      BY <1>3 DEF TrieOK, HasChild
    <3>2. Append(Before(i), path[i]) \in DOMAIN chvec => path[i] \in Code
      <4> DEFINE p == Before(i)
                 q == Append(p, path[i])
      <4>1. Len(q) = Len(p) + 1 /\ q[Len(p) + 1] = path[i] /\ Len(p) \in Nat
        BY <1>1, <1>2
      <4>2. q \in DOMAIN chvec => q \in Seq(Code)
        BY DEF TrieOK
      <4> HIDE DEF q, p
      <4>3. q \in Seq(Code) => q[Len(p) + 1] \in Code
        BY <4>1
      <4> QED
        BY <4>1, <4>2, <4>3 DEF q, p
    <3> QED
      BY <3>1, <3>2, <1>3 DEF TrieOK
  <2> QED
    BY <2>2, <2>3, <1>2 DEF PlaceOf, HasChild
<1>4. ASSUME Reached(path) PROVE path \in DOMAIN chvec
  <2> DEFINE f == [k \in 0 .. n |-> SubSeq(path, 1, k)]
             ok == [k \in 0 .. n |-> DOMAIN chvec]
  <2>1. f[0] \in ok[0]
    <3>1. 0 \in 0 .. n /\ SubSeq(path, 1, 0) = <<>>
      BY <1>1, PrefixEnds
    <3> QED
      BY <3>1 DEF TrieOK
  <2>2. ASSUME NEW k \in 1 .. n, f[k - 1] \in ok[k - 1]
        PROVE  f[k] \in ok[k]
    <3>1. k - 1 \in 0 .. n /\ k \in 0 .. n
      BY <1>1
    <3>2. Before(k) \in DOMAIN chvec
      BY <2>2, <3>1
    <3>3. _cowf_find_child(chvec[Before(k)], path[k]).found
      BY <1>1, <1>4 DEF Reached
    <3> QED
      BY <3>1, <3>2, <3>3, <1>3
  <2> HIDE DEF f, ok, n
  <2>3. \A k \in 0 .. n : f[k] \in ok[k]
    BY <2>1, <2>2, <1>1, Preserved
  <2>4. SubSeq(path, 1, n) \in DOMAIN chvec
    BY <2>3, <1>1 DEF f, ok
  <2> QED
    BY <2>4, PrefixEnds DEF n
<1>5. ASSUME path \in DOMAIN chvec PROVE Reached(path)
  <2> SUFFICES ASSUME NEW i \in 1 .. n
               PROVE  _cowf_find_child(chvec[Before(i)], path[i]).found
    BY <1>1 DEF Reached
  <2>1. i - 1 \in 0 .. n /\ i \in 0 .. n
    BY <1>1
  <2>2. Before(i) \in DOMAIN chvec /\ SubSeq(path, 1, i) \in DOMAIN chvec
    BY <2>1, <1>5, PrefixesAreNodes
  <2> QED
    BY <2>2, <1>3
<1> QED
  BY <1>4, <1>5

-----------------------------------------------------------------------------
(* Adding words. *)

\* The least of some numbers.
LEMMA MinIs ==
  ASSUME NEW S \in SUBSET Nat, S # {}
  PROVE  Min(S) \in S /\ \A x \in S : Min(S) <= x
<1>1. \E x \in S : \A y \in S : x <= y
  BY LeastElement
<1> QED
  BY <1>1 DEF Min

\* The greatest of some numbers up to n.
LEMMA MaxIs ==
  ASSUME NEW n \in Nat, NEW S \in SUBSET (1 .. n), S # {}
  PROVE  Max(S) \in S /\ \A x \in S : x <= Max(S)
<1> DEFINE T == {n - x : x \in S}
<1>0. \A x \in S : x \in Nat /\ x <= n /\ n - x \in Nat
  <2> TAKE x \in S
  <2>1. x \in 1 .. n
    OBVIOUS
  <2> QED
    BY <2>1
<1>1. T \in SUBSET Nat /\ T # {}
  BY <1>0
<1>2. PICK t \in T : \A u \in T : t <= u
  BY <1>1, LeastElement
<1>3. PICK x \in S : t = n - x
  OBVIOUS
<1>4. \A y \in S : y <= x
  <2> TAKE y \in S
  <2>1. n - y \in T
    OBVIOUS
  <2>2. n - x <= n - y
    BY <1>2, <1>3, <2>1
  <2> QED
    BY <2>2, <1>0
<1> QED
  BY <1>4 DEF Max

\* What is decoded is the text before its first Bad.
IsDecoded(d, text) ==
  /\ Len(d) \in 0 .. Len(text) /\ d = SubSeq(text, 1, Len(d))
  /\ \A i \in 1 .. Len(d) : d[i] = text[i] /\ text[i] # Bad
  /\ Len(d) < Len(text) => text[Len(d) + 1] = Bad

LEMMA DecodedIs ==
  ASSUME NEW S, NEW text \in Seq(S)
  PROVE  Decoded(text) \in Seq(S \ {Bad}) /\ IsDecoded(Decoded(text), text)
<1> DEFINE bad == {i \in DOMAIN text : text[i] = Bad}
           n == Len(text)
           d == Decoded(text)
<1>1. n \in Nat /\ DOMAIN text = 1 .. n /\ \A i \in 1 .. n : text[i] \in S
  OBVIOUS
<1>2. PICK m \in 0 .. n : /\ d = SubSeq(text, 1, m) /\ (m < n => text[m + 1] = Bad)
                          /\ \A i \in 1 .. m : text[i] # Bad
  <2>1. CASE bad = {}
    <3>1. d = SubSeq(text, 1, n)
      BY <2>1, PrefixEnds DEF Decoded
    <3>2. \A i \in 1 .. n : text[i] # Bad
      BY <2>1, <1>1
    <3>3. n \in 0 .. n /\ ~ (n < n)
      BY <1>1
    <3> HIDE DEF d, n
    <3> QED
      BY <3>1, <3>2, <3>3
  <2>2. CASE bad # {}
    <3>1. bad \in SUBSET Nat
      BY <1>1
    <3>2. Min(bad) \in bad /\ \A x \in bad : Min(bad) <= x
      BY <2>2, <3>1, MinIs
    <3>3. d = SubSeq(text, 1, Min(bad) - 1)
      BY <2>2 DEF Decoded
    <3> DEFINE m == Min(bad) - 1
    <3>4. Min(bad) \in 1 .. n /\ text[Min(bad)] = Bad
      BY <3>2, <1>1
    <3>5. m \in 0 .. n /\ m + 1 = Min(bad)
      BY <3>4, <1>1
    <3>6. \A i \in 1 .. m : text[i] # Bad
      <4> SUFFICES ASSUME NEW i \in 1 .. m, text[i] = Bad PROVE FALSE
        OBVIOUS
      <4> DEFINE b == Min(bad)
      <4>1. i \in bad
        BY <3>4, <1>1
      <4>2. b <= i /\ b \in Int /\ i \in 1 .. b - 1
        BY <4>1, <3>2, <3>4
      <4> HIDE DEF b
      <4> QED
        BY <4>2
    <3> QED
      BY <3>3, <3>4, <3>5, <3>6
  <2> QED
    BY <2>1, <2>2
<1>3. /\ d \in Seq(S) /\ Len(d) = m /\ \A j \in 1 .. m : d[j] = text[j]
  BY <1>2, Prefix
<1>4. d \in Seq(S \ {Bad})
  <2>1. \A j \in 1 .. m : d[j] \in S \ {Bad}
    BY <1>1, <1>2, <1>3
  <2> HIDE DEF d
  <2>2. d \in [1 .. Len(d) -> S \ {Bad}] /\ Len(d) \in Nat
    BY <2>1, <1>3
  <2> QED
    BY <2>2
<1> HIDE DEF d
<1>5. IsDecoded(d, text)
  BY <1>2, <1>3 DEF IsDecoded
<1> QED
  BY <1>4, <1>5 DEF d

LEMMA WordDecoded ==
  ASSUME NEW word \in Seq(DOMAIN Width)
  PROVE  Decoded(word) \in Seq(Code)
BY DecodedIs DEF Code

\* A sequence of characters of words is decoded as a whole.
LEMMA AllDecoded ==
  ASSUME NEW word \in Seq(Code)
  PROVE  Decoded(word) = word
<1> DEFINE d == Decoded(word)
<1>1. IsDecoded(d, word) /\ \A i \in 1 .. Len(word) : word[i] # Bad
  BY DecodedIs DEF Code
<1> HIDE DEF d
<1>2. Len(d) = Len(word)
  <2>1. Len(d) \in 0 .. Len(word) /\ Len(word) \in Nat
    BY <1>1 DEF IsDecoded
  <2>2. Len(d) < Len(word) => Len(d) + 1 \in 1 .. Len(word) /\ word[Len(d) + 1] = Bad
    BY <1>1, <2>1 DEF IsDecoded
  <2> QED
    BY <1>1, <2>1, <2>2
<1>3. d = SubSeq(word, 1, Len(word))
  BY <1>1, <1>2 DEF IsDecoded
<1> QED
  BY <1>3, PrefixEnds DEF d

Tries == UNION {[D -> Seq(Code)] : D \in SUBSET Seq(Code)}

LEMMA TrieIn ==
  ASSUME NEW ch, TrieOK(ch)
  PROVE  ch \in Tries
<1>1. ch \in [DOMAIN ch -> Seq(Code)] /\ DOMAIN ch \in SUBSET Seq(Code)
  BY DEF TrieOK
<1> QED
  BY <1>1 DEF Tries

\* The filter has no nodes yet, or a trie.
Nodes(ch) == ch = <<>> \/ TrieOK(ch)

LEMMA RootedIs ==
  ASSUME NEW ch, Nodes(ch)
  PROVE  LET rooted == IF ch = << >> THEN [n \in {<<>>} |-> <<>>] ELSE ch
         IN  TrieOK(rooted) /\ DOMAIN ch \subseteq DOMAIN rooted
<1>1. CASE ch = <<>>
  <2> DEFINE root == [n \in {<<>>} |-> <<>>]
  <2>1. DOMAIN ch = {}
    BY <1>1
  <2>2. DOMAIN root = {<<>>} /\ root[<<>>] = <<>> /\ root \in [{<<>>} -> Seq(Code)]
    OBVIOUS
  <2> HIDE DEF root
  <2>3. Sorted(<<>>) /\ \A c : ~ HasChild(<<>>, c)
    BY DEF Sorted, HasChild
  <2>4. \A c \in Code : Append(<<>>, c) \notin {<<>>}
    <3> TAKE c \in Code
    <3>1. <<>> \in Seq(Code)
      OBVIOUS
    <3>2. Len(Append(<<>>, c)) = Len(<<>>) + 1
      BY <3>1
    <3> QED
      BY <3>2
  <2>5. TrieOK(root)
    BY <2>2, <2>3, <2>4 DEF TrieOK
  <2> QED
    BY <2>1, <2>5, <1>1 DEF root
<1>2. CASE ch # <<>>
  BY <1>2 DEF Nodes
<1> QED
  BY <1>1, <1>2

\* Adding a word keeps the trie, and the nodes it has, and makes a node for the word.
LEMMA WithWordGrows ==
  ASSUME NEW ch, Nodes(ch), NEW word \in Seq(DOMAIN Width)
  PROVE  /\ TrieOK(WithWord(ch, word)) /\ DOMAIN ch \subseteq DOMAIN WithWord(ch, word)
         /\ Decoded(word) \in DOMAIN WithWord(ch, word)
<1> DEFINE rooted == IF ch = << >> THEN [m \in {<<>>} |-> <<>>] ELSE ch
           path == Decoded(word)
           n == Len(path)
           Step(c, i) == _cowf_insert_child(c, SubSeq(path, 1, i - 1), path[i])
           After(i) == {c \in Tries : /\ TrieOK(c) /\ DOMAIN ch \subseteq DOMAIN c
                                      /\ SubSeq(path, 1, i) \in DOMAIN c}
           ok == [i \in 0 .. n |-> After(i)]
           step == [i \in 1 .. n |-> [c \in After(i - 1) |-> Step(c, i)]]
           Is(g) == g = [i \in 0 .. n |-> IF i = 0 THEN rooted ELSE Step(g[i - 1], i)]
<1>1. path \in Seq(Code) /\ n \in Nat
  BY WordDecoded
<1>2. TrieOK(rooted) /\ DOMAIN ch \subseteq DOMAIN rooted
  BY RootedIs
<1> HIDE DEF rooted
<1>3. rooted \in ok[0]
  <2>1. 0 \in 0 .. n /\ SubSeq(path, 1, 0) = <<>>
    BY <1>1, PrefixEnds
  <2>2. rooted \in Tries /\ <<>> \in DOMAIN rooted
    BY <1>2, TrieIn DEF TrieOK
  <2> QED
    BY <2>1, <2>2, <1>2
<1>4. ASSUME NEW i \in 1 .. n, NEW c \in After(i - 1)
      PROVE  Step(c, i) \in After(i)
  <2>1. TrieOK(c) /\ DOMAIN ch \subseteq DOMAIN c /\ SubSeq(path, 1, i - 1) \in DOMAIN c
    OBVIOUS
  <2>2. path[i] \in Code /\ SubSeq(path, 1, i) = Append(SubSeq(path, 1, i - 1), path[i])
    BY <1>1, PrefixNext
  <2>3. /\ TrieOK(Step(c, i)) /\ DOMAIN c \subseteq DOMAIN Step(c, i)
        /\ SubSeq(path, 1, i) \in DOMAIN Step(c, i)
    BY <2>1, <2>2, Grown
  <2>4. Step(c, i) \in Tries
    BY <2>3, TrieIn
  <2> QED
    BY <2>1, <2>3, <2>4
<1> HIDE DEF n, path, Step, After
<1>5. \A i \in 1 .. n : /\ i - 1 \in 0 .. n /\ ok[i - 1] = After(i - 1) /\ ok[i] = After(i)
                        /\ \A c \in After(i - 1) : step[i][c] = Step(c, i)
  BY <1>1
<1> HIDE DEF ok, step
<1>6. \E g : Is(g)
  <2>1. Leads(n, ok, rooted, step)
    BY <1>3, <1>4, <1>5 DEF Leads
  <2>2. PICK g : Unfolds(g, n, ok, rooted, step)
    BY <2>1, <1>1, Recursion
  <2>3. \A i \in 0 .. n : i # 0 => step[i][g[i - 1]] = Step(g[i - 1], i)
    <3> SUFFICES ASSUME NEW i \in 0 .. n, i # 0
                 PROVE  step[i][g[i - 1]] = Step(g[i - 1], i)
      OBVIOUS
    <3>1. i \in 1 .. n /\ i - 1 \in 0 .. n
      BY <1>1
    <3> QED
      BY <3>1, <2>2, <1>5 DEF Unfolds
  <2>4. Is(g)
    BY <2>2, <2>3 DEF Unfolds
  <2> QED
    BY <2>4
<1> DEFINE f == CHOOSE g : Is(g)
<1>7. WithWord(ch, word) = f[n]
  BY DEF WithWord, rooted, path, n, Step
<1>8. Is(f)
  BY <1>6
<1> HIDE DEF f
<1>9. f[n] \in After(n)
  <2>1. f[0] = rooted /\ \A i \in 1 .. n : f[i] = Step(f[i - 1], i)
    BY <1>1, <1>8
  <2>2. \A i \in 1 .. n : f[i - 1] \in ok[i - 1] => f[i] \in ok[i]
    BY <2>1, <1>4, <1>5
  <2>3. \A i \in 0 .. n : f[i] \in ok[i]
    BY <2>1, <2>2, <1>1, <1>3, Preserved
  <2> QED
    BY <2>3, <1>1 DEF ok
<1>10. SubSeq(path, 1, n) = path
  BY <1>1, PrefixEnds DEF n
<1> QED
  BY <1>7, <1>9, <1>10 DEF After, path

\* The same of some words, one after the other.
LEMMA WithWordsGrows ==
  ASSUME NEW ch, Nodes(ch), NEW words \in Seq(Seq(DOMAIN Width))
  PROVE  /\ Nodes(WithWords(ch, words)) /\ DOMAIN ch \subseteq DOMAIN WithWords(ch, words)
         /\ \A k \in DOMAIN words : Decoded(words[k]) \in DOMAIN WithWords(ch, words)
<1> DEFINE n == Len(words)
           Step(c, i) == WithWord(c, words[i])
           After(i) == {c \in Tries \cup {<<>>} :
                          /\ Nodes(c) /\ DOMAIN ch \subseteq DOMAIN c
                          /\ \A j \in 1 .. i : Decoded(words[j]) \in DOMAIN c}
           ok == [i \in 0 .. n |-> After(i)]
           step == [i \in 1 .. n |-> [c \in After(i - 1) |-> Step(c, i)]]
           Is(g) == g = [i \in 0 .. n |-> IF i = 0 THEN ch ELSE Step(g[i - 1], i)]
<1>1. n \in Nat /\ DOMAIN words = 1 .. n /\ \A i \in 1 .. n : words[i] \in Seq(DOMAIN Width)
  OBVIOUS
<1>2. \A c : Nodes(c) => c \in Tries \cup {<<>>}
  BY TrieIn DEF Nodes
<1>3. ch \in ok[0]
  BY <1>1, <1>2
<1>4. ASSUME NEW i \in 1 .. n, NEW c \in After(i - 1)
      PROVE  Step(c, i) \in After(i)
  <2> DEFINE d == WithWord(c, words[i])
  <2>1. /\ Nodes(c) /\ DOMAIN ch \subseteq DOMAIN c
        /\ \A j \in 1 .. i - 1 : Decoded(words[j]) \in DOMAIN c
    OBVIOUS
  <2>2. \A j \in 1 .. i : j \in 1 .. i - 1 \/ j = i
    BY <1>1
  <2>3. /\ TrieOK(d) /\ DOMAIN c \subseteq DOMAIN d /\ Decoded(words[i]) \in DOMAIN d
    BY <2>1, <1>1, WithWordGrows
  <2> HIDE DEF d
  <2>4. Nodes(d) /\ d \in Tries \cup {<<>>}
    BY <2>3, <1>2 DEF Nodes
  <2>5. d \in After(i)
    BY <2>1, <2>2, <2>3, <2>4
  <2> QED
    BY <2>5 DEF d
<1> HIDE DEF n, Step, After
<1>5. \A i \in 1 .. n : /\ i - 1 \in 0 .. n /\ ok[i - 1] = After(i - 1) /\ ok[i] = After(i)
                        /\ \A c \in After(i - 1) : step[i][c] = Step(c, i)
  BY <1>1
<1> HIDE DEF ok, step
<1>6. \E g : Is(g)
  <2>1. Leads(n, ok, ch, step)
    BY <1>3, <1>4, <1>5 DEF Leads
  <2>2. PICK g : Unfolds(g, n, ok, ch, step)
    BY <2>1, <1>1, Recursion
  <2>3. \A i \in 0 .. n : i # 0 => step[i][g[i - 1]] = Step(g[i - 1], i)
    <3> SUFFICES ASSUME NEW i \in 0 .. n, i # 0
                 PROVE  step[i][g[i - 1]] = Step(g[i - 1], i)
      OBVIOUS
    <3>1. i \in 1 .. n /\ i - 1 \in 0 .. n
      BY <1>1
    <3> QED
      BY <3>1, <2>2, <1>5 DEF Unfolds
  <2>4. Is(g)
    BY <2>2, <2>3 DEF Unfolds
  <2> QED
    BY <2>4
<1> DEFINE f == CHOOSE g : Is(g)
<1>7. WithWords(ch, words) = f[n]
  BY DEF WithWords, n, Step
<1>8. Is(f)
  BY <1>6
<1> HIDE DEF f
<1>9. f[n] \in After(n)
  <2>1. f[0] = ch /\ \A i \in 1 .. n : f[i] = Step(f[i - 1], i)
    BY <1>1, <1>8
  <2>2. \A i \in 1 .. n : f[i - 1] \in ok[i - 1] => f[i] \in ok[i]
    BY <2>1, <1>4, <1>5
  <2>3. \A i \in 0 .. n : f[i] \in ok[i]
    BY <2>1, <2>2, <1>1, <1>3, Preserved
  <2> QED
    BY <2>3, <1>1 DEF ok
<1> QED
  BY <1>1, <1>7, <1>9 DEF After

-----------------------------------------------------------------------------
(* Reading a file. *)

\* The bytes of the first characters of a text, one after the other.
LEMMA BytesOfFirstIs ==
  ASSUME NEW text \in Seq(DOMAIN Width)
  PROVE  LET f == BytesOfFirst(text)
         IN  /\ f[0] = 0 /\ \A i \in 0 .. Len(text) : f[i] \in Nat /\ f[i] >= i
             /\ \A i \in 1 .. Len(text) : f[i] = f[i - 1] + Width[text[i]] /\ f[i] > f[i - 1]
<1> DEFINE n == Len(text)
           After(i) == {x \in Nat : x >= i}
           Step(x, i) == x + Width[text[i]]
           ok == [i \in 0 .. n |-> After(i)]
           step == [i \in 1 .. n |-> [x \in After(i - 1) |-> Step(x, i)]]
           Is(g) == g = [i \in 0 .. n |-> IF i = 0 THEN 0 ELSE Step(g[i - 1], i)]
<1>1. n \in Nat /\ \A i \in 1 .. n : Width[text[i]] \in Nat \ {0}
  BY WordFilterAssumption
<1>2. 0 \in ok[0]
  BY <1>1
<1>3. ASSUME NEW i \in 1 .. n, NEW x \in After(i - 1)
      PROVE  Step(x, i) \in After(i)
  BY <1>1
<1> HIDE DEF n, Step, After
<1>4. \A i \in 1 .. n : /\ i - 1 \in 0 .. n /\ ok[i - 1] = After(i - 1) /\ ok[i] = After(i)
                        /\ \A x \in After(i - 1) : step[i][x] = Step(x, i)
  BY <1>1
<1> HIDE DEF ok, step
<1>5. \E g : Is(g)
  <2>1. Leads(n, ok, 0, step)
    BY <1>2, <1>3, <1>4 DEF Leads
  <2>2. PICK g : Unfolds(g, n, ok, 0, step)
    BY <2>1, <1>1, Recursion
  <2>3. \A i \in 0 .. n : i # 0 => step[i][g[i - 1]] = Step(g[i - 1], i)
    <3> SUFFICES ASSUME NEW i \in 0 .. n, i # 0
                 PROVE  step[i][g[i - 1]] = Step(g[i - 1], i)
      OBVIOUS
    <3>1. i \in 1 .. n /\ i - 1 \in 0 .. n
      BY <1>1
    <3> QED
      BY <3>1, <2>2, <1>4 DEF Unfolds
  <2>4. Is(g)
    BY <2>2, <2>3 DEF Unfolds
  <2> QED
    BY <2>4
<1> DEFINE f == CHOOSE g : Is(g)
<1>6. BytesOfFirst(text) = f
  BY DEF BytesOfFirst, n, Step
<1>7. Is(f)
  BY <1>5
<1> HIDE DEF f
<1>8. f[0] = 0 /\ \A i \in 1 .. n : f[i] = Step(f[i - 1], i)
  BY <1>1, <1>7
<1>9. \A i \in 0 .. n : f[i] \in After(i)
  <2>1. \A i \in 1 .. n : f[i - 1] \in ok[i - 1] => f[i] \in ok[i]
    BY <1>8, <1>3, <1>4
  <2>2. \A i \in 0 .. n : f[i] \in ok[i]
    BY <2>1, <1>1, <1>2, <1>8, Preserved
  <2> QED
    BY <2>2 DEF ok
<1>10. \A i \in 1 .. n : f[i] = f[i - 1] + Width[text[i]] /\ f[i] > f[i - 1]
  <2> TAKE i \in 1 .. n
  <2>1. i - 1 \in 0 .. n /\ f[i] = f[i - 1] + Width[text[i]]
    BY <1>1, <1>8 DEF Step
  <2>2. f[i - 1] \in Nat
    BY <2>1, <1>9 DEF After
  <2> QED
    BY <2>1, <2>2, <1>1
<1>11. \A i \in 0 .. n : f[i] \in Nat /\ f[i] >= i
  BY <1>9 DEF After
<1> QED
  BY <1>6, <1>8, <1>10, <1>11 DEF n

\* A word has at least as many bytes as characters, and no more in its first characters.
LEMMA BytesIs ==
  ASSUME NEW text \in Seq(DOMAIN Width)
  PROVE  /\ Bytes(text) \in Nat /\ Bytes(text) >= Len(text)
         /\ \A i \in 0 .. Len(text) : BytesOfFirst(text)[i] <= Bytes(text)
<1> DEFINE f == BytesOfFirst(text)
           n == Len(text)
           b == [k \in 0 .. n |-> f[n - k]]
           ok == [k \in 0 .. n |-> {x \in Nat : x <= f[n]}]
<1>1. /\ n \in Nat /\ f[0] = 0 /\ \A i \in 0 .. n : f[i] \in Nat /\ f[i] >= i
      /\ \A i \in 1 .. n : f[i] > f[i - 1]
  BY BytesOfFirstIs
<1> HIDE DEF f, n
<1>2. b[0] \in ok[0]
  BY <1>1
<1>3. ASSUME NEW k \in 1 .. n, b[k - 1] \in ok[k - 1]
      PROVE  b[k] \in ok[k]
  <2> DEFINE i == n - (k - 1)
  <2>1. /\ k \in 0 .. n /\ k - 1 \in 0 .. n /\ i \in 1 .. n /\ i - 1 \in 0 .. n /\ i \in 0 .. n
        /\ n - k = i - 1 /\ n \in 0 .. n
    BY <1>1
  <2>2. f[i] <= f[n]
    BY <2>1, <1>3
  <2>3. b[k] = f[i - 1] /\ ok[k] = {x \in Nat : x <= f[n]}
    BY <2>1
  <2> HIDE DEF i, b, ok
  <2> QED
    BY <2>1, <2>2, <2>3, <1>1
<1> HIDE DEF b, ok
<1>4. \A k \in 0 .. n : b[k] \in ok[k]
  BY <1>1, <1>2, <1>3, Preserved
<1>5. \A i \in 0 .. n : f[i] <= f[n]
  <2> TAKE i \in 0 .. n
  <2>1. n - i \in 0 .. n /\ n - (n - i) = i
    BY <1>1
  <2>2. b[n - i] \in ok[n - i]
    BY <1>4, <2>1
  <2> QED
    BY <2>1, <2>2 DEF b, ok
<1>6. Bytes(text) = f[n] /\ n \in 0 .. n
  BY <1>1 DEF Bytes, f, n
<1> QED
  BY <1>1, <1>5, <1>6 DEF f, n

\* What is decoded of a read is characters.
LEMMA ReadIs ==
  ASSUME NEW line \in Seq(DOMAIN Width), NEW k \in Nat
  PROVE  Read(line, k) \in Seq(DOMAIN Width)
<1> DEFINE bytes == BytesOfFirst(line)
           from == (k - 1) * Room
           inside == {j \in DOMAIN line : from <= bytes[j - 1] /\ bytes[j] <= from + Room}
           cut == \E j \in DOMAIN line : bytes[j - 1] < from /\ from < bytes[j]
           read == SubSeq(line, Min(inside), Max(inside))
<1>1. inside # {} => read \in Seq(DOMAIN Width)
  <2> SUFFICES ASSUME inside # {} PROVE read \in Seq(DOMAIN Width)
    OBVIOUS
  <2>1. inside \subseteq 1 .. Len(line) /\ Len(line) \in Nat
    OBVIOUS
  <2> HIDE DEF inside
  <2>2. Min(inside) \in inside
    <3>1. inside \in SUBSET Nat
      BY <2>1
    <3> QED
      BY <3>1, MinIs
  <2>3. Max(inside) \in inside
    BY <2>1, MaxIs
  <2>4. Min(inside) \in 1 .. Len(line) /\ Max(inside) \in 1 .. Len(line)
    BY <2>1, <2>2, <2>3
  <2> QED
    BY <2>4
<1>2. Read(line, k) = IF cut \/ inside = {} THEN <<>> ELSE read
  BY DEF Read
<1> HIDE DEF inside, cut, read
<1>3. <<>> \in Seq(DOMAIN Width)
  OBVIOUS
<1>4. CASE cut \/ inside = {}
  BY <1>2, <1>3, <1>4
<1>5. CASE ~ (cut \/ inside = {})
  BY <1>1, <1>2, <1>5
<1> QED
  BY <1>4, <1>5

\* A line that fits into the buffer is read as it is.
LEMMA WholeRead ==
  ASSUME NEW line \in Seq(DOMAIN Width), Len(line) # 0, Bytes(line) <= Room
  PROVE  Read(line, 1) = line
<1> DEFINE bytes == BytesOfFirst(line)
           n == Len(line)
           from == (1 - 1) * Room
           inside == {j \in DOMAIN line : from <= bytes[j - 1] /\ bytes[j] <= from + Room}
           cut == \E j \in DOMAIN line : bytes[j - 1] < from /\ from < bytes[j]
<1>1. n \in Nat \ {0} /\ DOMAIN line = 1 .. n
  OBVIOUS
<1>2. \A j \in 0 .. n : bytes[j] \in Nat /\ bytes[j] <= Room
  <2>1. Bytes(line) \in Nat /\ \A j \in 0 .. n : bytes[j] \in Nat /\ bytes[j] <= Bytes(line)
    BY BytesIs, BytesOfFirstIs
  <2>2. Room \in Nat
    BY WordFilterAssumption DEF Room
  <2> HIDE DEF bytes, n
  <2> QED
    BY <2>1, <2>2
<1>3. from = 0 /\ from + Room = Room
  BY WordFilterAssumption DEF Room
<1>4. Read(line, 1) = IF cut \/ inside = {} THEN <<>> ELSE SubSeq(line, Min(inside), Max(inside))
  BY DEF Read
<1> HIDE DEF bytes, n, from
<1>5. \A j \in 1 .. n : j \in 0 .. n /\ j - 1 \in 0 .. n
  BY <1>1
<1>6. inside = 1 .. n /\ ~ cut
  BY <1>1, <1>2, <1>3, <1>5
<1> HIDE DEF inside, cut
<1>7. Min(inside) = 1
  <2>1. inside \in SUBSET Nat /\ 1 \in inside
    BY <1>1, <1>6
  <2>2. Min(inside) \in inside /\ Min(inside) <= 1
    BY <2>1, MinIs
  <2> QED
    BY <2>2, <1>6
<1>8. Max(inside) = n
  <2>1. inside \in SUBSET (1 .. n) /\ n \in inside /\ n \in Nat
    BY <1>1, <1>6
  <2>2. Max(inside) \in inside /\ n <= Max(inside)
    BY <2>1, MaxIs
  <2> QED
    BY <2>2, <1>1, <1>6
<1>9. 1 \in inside
  BY <1>1, <1>6
<1>10. Read(line, 1) = SubSeq(line, 1, n)
  BY <1>4, <1>6, <1>7, <1>8, <1>9
<1> QED
  BY <1>10, PrefixEnds DEF n

\* Of a line that is read whole exactly what it is, is added.
LEMMA ReadsAre ==
  ASSUME NEW file \in Files, NEW i \in DOMAIN file.lines
  PROVE  /\ Reads(file, i) \in Seq(Seq(DOMAIN Width))
         /\ ReadWhole(file) =>
              UNION {Marked(Reads(file, i)[k]) : k \in DOMAIN Reads(file, i)}
                = Marked(file.lines[i])
<1> DEFINE line == file.lines[i]
           b == Bytes(line)
           n == Len(line)
           m == LineLength(file, i)
           K == (m + Room - 2) \div Room
           reads == Reads(file, i)
<1>1. line \in Seq(DOMAIN Width) /\ n \in Nat
  <2>1. file.lines \in Seq(Seq(DOMAIN Width))
    BY WordFilterAssumption
  <2> QED
    BY <2>1
<1>2. Room \in Nat /\ Room >= 2
  BY WordFilterAssumption DEF Room
<1>3. b \in Nat /\ b >= n /\ (m = b \/ m = b + 1)
  BY <1>1, BytesIs DEF LineLength
<1>4. reads = [k \in 1 .. K |-> Read(line, k)]
  BY DEF Reads
<1> HIDE DEF b, m, line, n, reads
<1>5. K \in Nat
  BY <1>2, <1>3
<1>6. /\ m < 2 => K = 0
      /\ m >= 2 /\ m <= Room + 1 => K = 1
  BY <1>2, <1>3
<1> HIDE DEF K
<1>7. reads \in Seq(Seq(DOMAIN Width)) /\ DOMAIN reads = 1 .. K
  <2>1. \A k \in 1 .. K : Read(line, k) \in Seq(DOMAIN Width)
    BY <1>1, ReadIs
  <2> QED
    BY <2>1, <1>4, <1>5
<1>8. ASSUME ReadWhole(file)
      PROVE  UNION {Marked(reads[k]) : k \in DOMAIN reads} = Marked(line)
  <2>1. b <= Room /\ (b = 1 => m = 2)
    BY <1>8 DEF ReadWhole, b, m, line
  <2>2. CASE n = 0
    <3>1. line = <<>> /\ b = 0
      <4>1. line = <<>>
        BY <2>2, <1>1 DEF n
      <4>2. BytesOfFirst(line)[0] = 0
        BY <1>1, BytesOfFirstIs
      <4> QED
        BY <4>1, <4>2, <2>2 DEF b, Bytes, n
    <3>2. DOMAIN reads = {}
      BY <3>1, <1>3, <1>6, <1>7
    <3>3. Decoded(<<>>) = <<>>
      <4>1. <<>> \in Seq(Code)
        OBVIOUS
      <4> QED
        BY <4>1, AllDecoded
    <3> QED
      BY <3>1, <3>2, <3>3 DEF Marked
  <2>3. CASE n # 0
    <3>1. m >= 2 /\ m <= Room + 1
      BY <2>1, <2>3, <1>1, <1>2, <1>3
    <3>2. DOMAIN reads = {1} /\ reads[1] = Read(line, 1)
      BY <3>1, <1>4, <1>6, <1>7
    <3>3. Read(line, 1) = line
      BY <2>1, <2>3, <1>1, <1>2, WholeRead DEF b, n
    <3> QED
      BY <3>2, <3>3
  <2> QED
    BY <2>2, <2>3
<1> QED
  BY <1>7, <1>8 DEF reads, line

\* The same of the lines of a file.
LEMMA WithLinesGrows ==
  ASSUME NEW ch, Nodes(ch), NEW file \in Files
  PROVE  LET new == WithLines(ch, file)
         IN  /\ Nodes(new) /\ DOMAIN ch \subseteq DOMAIN new
             /\ \A i \in DOMAIN file.lines : \A k \in DOMAIN Reads(file, i) :
                  Decoded(Reads(file, i)[k]) \in DOMAIN new
<1> DEFINE n == Len(file.lines)
           Step(c, i) == WithWords(c, Reads(file, i))
           ReadIn(c, i) == \A k \in DOMAIN Reads(file, i) : Decoded(Reads(file, i)[k]) \in DOMAIN c
           After(i) == {c \in Tries \cup {<<>>} :
                          /\ Nodes(c) /\ DOMAIN ch \subseteq DOMAIN c
                          /\ \A j \in 1 .. i : ReadIn(c, j)}
           ok == [i \in 0 .. n |-> After(i)]
           step == [i \in 1 .. n |-> [c \in After(i - 1) |-> Step(c, i)]]
           Is(g) == g = [i \in 0 .. n |-> IF i = 0 THEN ch ELSE Step(g[i - 1], i)]
<1>1. /\ n \in Nat /\ DOMAIN file.lines = 1 .. n
      /\ \A i \in 1 .. n : Reads(file, i) \in Seq(Seq(DOMAIN Width))
  <2>1. file.lines \in Seq(Seq(DOMAIN Width))
    BY WordFilterAssumption
  <2>2. n \in Nat /\ DOMAIN file.lines = 1 .. n
    BY <2>1
  <2> QED
    BY <2>2, ReadsAre
<1>2. \A c : Nodes(c) => c \in Tries \cup {<<>>}
  BY TrieIn DEF Nodes
<1>3. ch \in ok[0]
  BY <1>1, <1>2
<1>4. ASSUME NEW i \in 1 .. n, NEW c \in After(i - 1)
      PROVE  Step(c, i) \in After(i)
  <2> DEFINE d == Step(c, i)
  <2>1. /\ Nodes(c) /\ DOMAIN ch \subseteq DOMAIN c
        /\ \A j \in 1 .. i - 1 : ReadIn(c, j)
    OBVIOUS
  <2>2. \A j \in 1 .. i : j \in 1 .. i - 1 \/ j = i
    BY <1>1
  <2>3. Nodes(d) /\ DOMAIN c \subseteq DOMAIN d /\ ReadIn(d, i)
    BY <2>1, <1>1, WithWordsGrows
  <2> HIDE DEF d
  <2>4. d \in Tries \cup {<<>>}
    BY <2>3, <1>2
  <2>5. d \in After(i)
    BY <2>1, <2>2, <2>3, <2>4
  <2> QED
    BY <2>5 DEF d
<1> HIDE DEF n, Step, After
<1>5. \A i \in 1 .. n : /\ i - 1 \in 0 .. n /\ ok[i - 1] = After(i - 1) /\ ok[i] = After(i)
                        /\ \A c \in After(i - 1) : step[i][c] = Step(c, i)
  BY <1>1
<1> HIDE DEF ok, step
<1>6. \E g : Is(g)
  <2>1. Leads(n, ok, ch, step)
    BY <1>3, <1>4, <1>5 DEF Leads
  <2>2. PICK g : Unfolds(g, n, ok, ch, step)
    BY <2>1, <1>1, Recursion
  <2>3. \A i \in 0 .. n : i # 0 => step[i][g[i - 1]] = Step(g[i - 1], i)
    <3> SUFFICES ASSUME NEW i \in 0 .. n, i # 0
                 PROVE  step[i][g[i - 1]] = Step(g[i - 1], i)
      OBVIOUS
    <3>1. i \in 1 .. n /\ i - 1 \in 0 .. n
      BY <1>1
    <3> QED
      BY <3>1, <2>2, <1>5 DEF Unfolds
  <2>4. Is(g)
    BY <2>2, <2>3 DEF Unfolds
  <2> QED
    BY <2>4
<1> DEFINE f == CHOOSE g : Is(g)
<1>7. WithLines(ch, file) = f[n]
  BY DEF WithLines, n, Step
<1>8. Is(f)
  BY <1>6
<1> HIDE DEF f
<1>9. f[n] \in After(n)
  <2>1. f[0] = ch /\ \A i \in 1 .. n : f[i] = Step(f[i - 1], i)
    BY <1>1, <1>8
  <2>2. \A i \in 1 .. n : f[i - 1] \in ok[i - 1] => f[i] \in ok[i]
    BY <2>1, <1>4, <1>5
  <2>3. \A i \in 0 .. n : f[i] \in ok[i]
    BY <2>1, <2>2, <1>1, <1>3, Preserved
  <2> QED
    BY <2>3, <1>1 DEF ok
<1> QED
  BY <1>1, <1>7, <1>9 DEF After

-----------------------------------------------------------------------------
\* What is marked are nodes.
NodesMarked == /\ Nodes(chvec)
               /\ isend \subseteq (DOMAIN chvec \cap Seq(Code)) \ {<<>>}

\* The marked nodes are the words of the filter, when every line was read whole.
WFInv == NodesMarked /\ whole \in BOOLEAN /\ (whole => isend = added)

WordsMarked == NodesMarked /\ isend = added

LEMMA EndsAreKept ==
  ASSUME NEW ch, NEW ends, NEW words, NEW new, NEW d,
         ends \subseteq (DOMAIN ch \cap Seq(Code)) \ {<<>>}, DOMAIN ch \subseteq DOMAIN new,
         words \subseteq (DOMAIN new \cap Seq(Code)) \ {<<>>}
  PROVE  ends \cup words \subseteq (DOMAIN new \cap Seq(Code)) \ {<<>>}
OBVIOUS

\* A filter with nodes has its root.
LEMMA RootIs ==
  ASSUME Nodes(chvec)
  PROVE  /\ HasRoot <=> TrieOK(chvec)
         /\ ~ HasRoot => DOMAIN chvec = {}
<1>1. chvec = <<>> => DOMAIN chvec = {}
  OBVIOUS
<1>2. TrieOK(chvec) => DOMAIN chvec # {}
  BY DEF TrieOK
<1> QED
  BY <1>1, <1>2 DEF HasRoot, Nodes

LEMMA LastChildIs ==
  ASSUME Nodes(chvec), NEW word \in Seq(Int)
  PROVE  _cowf_get_lastchild(word) <=>
           word \in DOMAIN chvec \ {<<>>} /\ Decoded(word) = word
<1>1. HasRoot => (Reached(word) <=> word \in DOMAIN chvec)
  BY RootIs, ReachedIs
<1> QED
  BY <1>1, RootIs DEF _cowf_get_lastchild

LEMMA WordsAre ==
  ASSUME NEW word \in Words
  PROVE  word \in Seq(DOMAIN Width) /\ word \in Seq(Int)
<1>1. word \in Seq(DOMAIN Width) /\ DOMAIN Width \subseteq Int
  BY WordFilterAssumption
<1> QED
  BY <1>1

LEMMA InitWFInv == WFInit => WFInv
BY DEF WFInit, WFInv, NodesMarked, Nodes

LEMMA AddKeeps ==
  ASSUME WFInv, NEW word \in Words, cowf_addword(word)
  PROVE  WFInv'
<1> DEFINE new == WithWord(chvec, word)
           d == Decoded(word)
<1>1. word \in Seq(DOMAIN Width) /\ d \in Seq(Code) /\ Nodes(chvec)
  BY WordsAre, WordDecoded DEF WFInv, NodesMarked
<1>2. TrieOK(new) /\ DOMAIN chvec \subseteq DOMAIN new /\ d \in DOMAIN new
  BY <1>1, WithWordGrows
<1>3. chvec' = new /\ isend' = isend \cup ({d} \ {<<>>}) /\ added' = added \cup ({d} \ {<<>>})
      /\ whole' = whole
  BY DEF cowf_addword, Marked
<1> HIDE DEF new, d
<1> QED
  BY <1>1, <1>2, <1>3 DEF WFInv, NodesMarked, Nodes

LEMMA LoadKeeps ==
  ASSUME WFInv, NEW file \in Files, cowf_loadwords(file)
  PROVE  WFInv'
<1> DEFINE new == WithLines(chvec, file)
           lines == DOMAIN file.lines
           Read1(i) == UNION {Marked(Reads(file, i)[k]) : k \in DOMAIN Reads(file, i)}
           read == UNION {Read1(i) : i \in lines}
           marked == UNION {Marked(file.lines[i]) : i \in lines}
<1>1. /\ Nodes(new) /\ DOMAIN chvec \subseteq DOMAIN new
      /\ \A i \in lines : \A k \in DOMAIN Reads(file, i) :
           Decoded(Reads(file, i)[k]) \in DOMAIN new
  BY WithLinesGrows DEF WFInv, NodesMarked
<1>2. read \subseteq (DOMAIN new \cap Seq(Code)) \ {<<>>}
  <2> SUFFICES ASSUME NEW i \in lines, NEW k \in DOMAIN Reads(file, i),
                      NEW w \in Marked(Reads(file, i)[k])
               PROVE  w \in (DOMAIN new \cap Seq(Code)) \ {<<>>}
    OBVIOUS
  <2>1. w = Decoded(Reads(file, i)[k]) /\ w # <<>>
    BY DEF Marked
  <2>2. Reads(file, i)[k] \in Seq(DOMAIN Width)
    <3>1. Reads(file, i) \in Seq(Seq(DOMAIN Width))
      BY ReadsAre
    <3> QED
      BY <3>1
  <2>3. w \in Seq(Code)
    BY <2>1, <2>2, WordDecoded
  <2> QED
    BY <2>1, <2>3, <1>1
<1>3. ReadWhole(file) => read = marked
  <2> SUFFICES ASSUME ReadWhole(file) PROVE \A i \in lines : Read1(i) = Marked(file.lines[i])
    OBVIOUS
  <2> QED
    BY ReadsAre
<1>4. /\ chvec' = new /\ isend' = isend \cup read /\ added' = added \cup marked
      /\ whole' = (whole /\ ReadWhole(file))
  BY DEF cowf_loadwords
<1>5. ReadWhole(file) \in BOOLEAN
  BY DEF ReadWhole
<1> HIDE DEF new, read, marked
<1>6. NodesMarked'
  BY <1>1, <1>2, <1>4 DEF WFInv, NodesMarked
<1>7. whole' \in BOOLEAN /\ (whole' => isend' = added')
  BY <1>3, <1>4, <1>5 DEF WFInv
<1> QED
  BY <1>6, <1>7 DEF WFInv

LEMMA DelKeepsWords ==
  ASSUME WFInv, NEW word \in Words, cowf_delword(word)
  PROVE  WFInv'
<1>1. _cowf_get_lastchild(word) <=>
        word \in DOMAIN chvec \ {<<>>} /\ Decoded(word) = word
  BY WordsAre, LastChildIs DEF WFInv, NodesMarked
<1>2. word \in isend => _cowf_get_lastchild(word)
  BY <1>1, AllDecoded DEF WFInv, NodesMarked
<1>3. isend' = isend \ {word} /\ added' = added \ {word} /\ chvec' = chvec /\ whole' = whole
  BY <1>2 DEF cowf_delword
<1> QED
  BY <1>3 DEF WFInv, NodesMarked, Nodes

LEMMA NextWFInv == WFInv /\ [WFNext]_wfvars => WFInv'
<1> SUFFICES ASSUME WFInv, [WFNext]_wfvars PROVE WFInv'
  OBVIOUS
<1>1. ASSUME NEW word \in Words, cowf_addword(word) PROVE WFInv'
  BY <1>1, AddKeeps
<1>2. ASSUME NEW word \in Words, cowf_delword(word) PROVE WFInv'
  BY <1>2, DelKeepsWords
<1>3. ASSUME NEW file \in Files, cowf_loadwords(file) PROVE WFInv'
  BY <1>3, LoadKeeps
<1>4. CASE cowf_clear
  BY <1>4 DEF cowf_clear, WFInv, NodesMarked, Nodes
<1>5. CASE UNCHANGED wfvars
  BY <1>5 DEF wfvars, WFInv, NodesMarked, Nodes, TrieOK
<1> QED
  BY <1>1, <1>2, <1>3, <1>4, <1>5 DEF WFNext

LEMMA WordExists ==
  ASSUME WordsMarked, NEW word \in Words
  PROVE  cowf_exist(word) <=> word \in added
<1>1. _cowf_get_lastchild(word) <=>
        word \in DOMAIN chvec \ {<<>>} /\ Decoded(word) = word
  BY WordsAre, LastChildIs DEF WordsMarked, NodesMarked
<1> QED
  BY <1>1, AllDecoded DEF WordsMarked, NodesMarked, cowf_exist

-----------------------------------------------------------------------------
(* Words in a text. *)

Occurs(word, text, p) == /\ p + Len(word) - 1 <= Len(text)
                         /\ \A k \in 1 .. Len(word) : text[p + k - 1] = word[k]

\* A word of the filter starts at p.
Starts(text, p) == \E word \in added : Occurs(word, text, p)

LEMMA Slice ==
  ASSUME NEW S, NEW s \in Seq(S), NEW p \in 1 .. Len(s) + 1, NEW i \in p - 1 .. Len(s)
  PROVE  /\ SubSeq(s, p, i) \in Seq(S) /\ Len(SubSeq(s, p, i)) = i - p + 1
         /\ \A k \in 1 .. i - p + 1 : SubSeq(s, p, i)[k] = s[p + k - 1]
<1>1. p \in Nat /\ i \in Nat /\ Len(s) \in Nat /\ 1 <= p /\ i <= Len(s) /\ p - 1 <= i
  OBVIOUS
<1>2. \A j \in p .. i : s[j] \in S
  BY <1>1
<1>3. /\ SubSeq(s, p, i) \in Seq(S)
      /\ Len(SubSeq(s, p, i)) = IF p <= i THEN i - p + 1 ELSE 0
      /\ \A j \in 1 .. i - p + 1 : SubSeq(s, p, i)[j] = s[p + j - 1]
  BY <1>1, <1>2, SubSeqProperties
<1> QED
  BY <1>1, <1>3

LEMMA SliceOccurs ==
  ASSUME NEW text \in Seq(Int), NEW p \in 1 .. Len(text), NEW i \in p .. Len(text),
         NEW word \in Seq(Code)
  PROVE  SubSeq(text, p, i) = word <=> i = p + Len(word) - 1 /\ Occurs(word, text, p)
<1> DEFINE s == SubSeq(text, p, i)
<1>1. /\ s \in Seq(Int) /\ Len(s) = i - p + 1
      /\ \A k \in 1 .. i - p + 1 : s[k] = text[p + k - 1]
  BY Slice
<1>2. p \in Nat /\ i \in Nat /\ Len(text) \in Nat /\ Len(word) \in Nat /\ word \in Seq(Int)
  <2>1. word \in Seq(Int)
    <3>1. \A c \in Code : c \in Int
      BY CodeIs
    <3> QED
      BY <3>1
  <2>2. p \in Nat /\ i \in Nat
    OBVIOUS
  <2>3. Len(text) \in Nat /\ Len(word) \in Nat
    OBVIOUS
  <2> QED
    BY <2>1, <2>2, <2>3
<1> HIDE DEF s
<1>3. s = word => i = p + Len(word) - 1 /\ Occurs(word, text, p)
  BY <1>1, <1>2 DEF Occurs
<1>4. ASSUME i = p + Len(word) - 1, Occurs(word, text, p) PROVE s = word
  <2>1. Len(s) = Len(word) /\ i - p + 1 = Len(word)
    BY <1>1, <1>2, <1>4
  <2>2. \A k \in 1 .. Len(word) : text[p + k - 1] = word[k]
    BY <1>4 DEF Occurs
  <2>3. \A k \in 1 .. Len(s) : s[k] = word[k]
    BY <2>1, <2>2, <1>1
  <2> QED
    BY <2>1, <2>3, <1>1, <1>2, SeqEqual
<1> QED
  BY <1>3, <1>4 DEF s

LEMMA AddedAre ==
  ASSUME WordsMarked, NEW word \in added
  PROVE  /\ word \in Seq(Code) /\ word \in Seq(Int) /\ Len(word) \in Nat \ {0}
         /\ \A k \in 1 .. Len(word) : word[k] \in Int /\ word[k] # Bad
<1>1. word \in Seq(Code) /\ word # <<>>
  BY DEF WordsMarked, NodesMarked
<1>2. Len(word) \in Nat \ {0} /\ \A k \in 1 .. Len(word) : word[k] \in Code
  BY <1>1
<1>3. \A c \in Code : c \in Int /\ c # Bad
  BY CodeIs DEF Bad
<1>4. word \in Seq(Int)
  BY <1>1, <1>3
<1> QED
  BY <1>1, <1>2, <1>3, <1>4

\* The walk of _cowf_check_word comes to the end of a word where one starts.
LEMMA CheckWordIs ==
  ASSUME WordsMarked, HasRoot, NEW text \in Seq(Int), NEW p \in 1 .. Len(text)
  PROVE  LET e == _cowf_check_word(text, p)
         IN  /\ e > 0 <=> Starts(text, p)
             /\ e = 0 \/ (e \in p .. Len(text) /\ SubSeq(text, p, e) \in added)
<1> DEFINE Good(path) == Decoded(path) = path /\ Reached(path) /\ path \in isend
           ends == {i \in p .. Len(text) : Good(SubSeq(text, p, i))}
           e == _cowf_check_word(text, p)
<1>1. p \in Nat /\ 1 <= p /\ Len(text) \in Nat
  OBVIOUS
<1>2. \A path : Good(path) <=> path \in added
  <2> SUFFICES ASSUME NEW path, path \in added PROVE Good(path)
    BY DEF WordsMarked, NodesMarked
  <2>1. path \in Seq(Code) /\ path \in Seq(Int) /\ path \in DOMAIN chvec /\ path \in isend
    BY AddedAre DEF WordsMarked, NodesMarked
  <2>2. Decoded(path) = path
    BY <2>1, AllDecoded
  <2>3. TrieOK(chvec)
    BY RootIs DEF WordsMarked, NodesMarked
  <2>4. Reached(path)
    BY <2>1, <2>3, ReachedIs
  <2> QED
    BY <2>1, <2>2, <2>4
<1>3. e = IF ends = {} THEN 0 ELSE Min(ends)
  BY DEF _cowf_check_word
<1> HIDE DEF Good, e
<1>4. \A i : i \in ends <=> i \in p .. Len(text) /\ SubSeq(text, p, i) \in added
  BY <1>2
<1>5. ends # {} <=> Starts(text, p)
  <2>1. ASSUME NEW i \in ends PROVE Starts(text, p)
    <3>1. i \in p .. Len(text) /\ SubSeq(text, p, i) \in added
      BY <1>4
    <3> DEFINE w == SubSeq(text, p, i)
    <3>2. w \in Seq(Code)
      BY <3>1, AddedAre
    <3>3. Occurs(w, text, p)
      BY <3>1, <3>2, SliceOccurs
    <3> QED
      BY <3>1, <3>3 DEF Starts
  <2>2. ASSUME NEW word \in added, Occurs(word, text, p) PROVE ends # {}
    <3> DEFINE i == p + Len(word) - 1
    <3>1. word \in Seq(Code) /\ Len(word) \in Nat \ {0}
      BY AddedAre
    <3>2. i \in p .. Len(text)
      BY <2>2, <3>1, <1>1 DEF Occurs
    <3>3. SubSeq(text, p, i) = word
      BY <2>2, <3>1, <3>2, SliceOccurs
    <3> QED
      BY <3>2, <3>3, <1>4
  <2> QED
    BY <2>1, <2>2 DEF Starts
<1>6. ends \in SUBSET Nat
  BY <1>1
<1> HIDE DEF ends
<1>7. ends # {} => e \in ends
  BY <1>3, <1>6, MinIs
<1> SUFFICES (e > 0 <=> Starts(text, p))
             /\ (e = 0 \/ (e \in p .. Len(text) /\ SubSeq(text, p, e) \in added))
  BY DEF e
<1>8. CASE ends = {}
  BY <1>3, <1>5, <1>8
<1>9. CASE ends # {}
  <2>1. e \in p .. Len(text) /\ SubSeq(text, p, e) \in added
    BY <1>4, <1>7, <1>9
  <2> QED
    BY <2>1, <1>1, <1>5, <1>9
<1> QED
  BY <1>8, <1>9

LEMMA HasIs ==
  ASSUME WordsMarked, NEW text \in Seq(Int)
  PROVE  Has(text) <=> \E p \in 1 .. Len(text) : Starts(text, p)
<1>1. Len(text) \in Nat
  OBVIOUS
<1>2. ASSUME NEW word \in added, NEW i \in 0 .. Len(text) - Len(word),
             SubSeq(text, i + 1, i + Len(word)) = word
      PROVE  \E p \in 1 .. Len(text) : Starts(text, p)
  <2> DEFINE p == i + 1
             j == i + Len(word)
  <2>1. word \in Seq(Code) /\ Len(word) \in Nat \ {0}
    BY AddedAre
  <2>2. p \in 1 .. Len(text) /\ j \in p .. Len(text) /\ SubSeq(text, p, j) = word
    BY <2>1, <1>1, <1>2
  <2> HIDE DEF p, j
  <2>3. Occurs(word, text, p)
    BY <2>1, <2>2, SliceOccurs
  <2> QED
    BY <2>2, <2>3 DEF Starts
<1>3. ASSUME NEW p \in 1 .. Len(text), NEW word \in added, Occurs(word, text, p)
      PROVE  Has(text)
  <2> DEFINE i == p - 1
             j == p + Len(word) - 1
  <2>1. word \in Seq(Code) /\ Len(word) \in Nat \ {0}
    BY AddedAre
  <2>2. /\ j \in p .. Len(text) /\ i \in 0 .. Len(text) - Len(word)
        /\ i + 1 = p /\ i + Len(word) = j
    BY <2>1, <1>1, <1>3 DEF Occurs
  <2>3. SubSeq(text, p, j) = word
    <3>1. j = p + Len(word) - 1 /\ j \in p .. Len(text)
      BY <2>2
    <3> HIDE DEF j
    <3>2. SubSeq(text, p, j) = word <=> j = p + Len(word) - 1 /\ Occurs(word, text, p)
      BY <3>1, <2>1, SliceOccurs
    <3> QED
      BY <3>1, <3>2, <1>3
  <2> HIDE DEF i, j
  <2>4. SubSeq(text, i + 1, i + Len(word)) = word
    BY <2>2, <2>3
  <2> QED
    BY <2>2, <2>4 DEF Has
<1> QED
  BY <1>2, <1>3 DEF Has, Starts

\* Words do not reach over a Bad.
LEMMA StartsDecoded ==
  ASSUME WordsMarked, NEW text \in Seq(Int), NEW p \in 1 .. Len(Decoded(text))
  PROVE  Starts(Decoded(text), p) <=> Starts(text, p)
<1> DEFINE d == Decoded(text)
           n == Len(d)
<1>1. d \in Seq(Int \ {Bad}) /\ IsDecoded(d, text)
  BY DecodedIs
<1> HIDE DEF d
<1>2. /\ n \in Nat /\ Len(text) \in Nat /\ n <= Len(text) /\ p \in 1 .. n
      /\ \A i \in 1 .. n : d[i] = text[i]
      /\ n < Len(text) => text[n + 1] = Bad
  BY <1>1 DEF IsDecoded, d
<1> HIDE DEF n
<1>3. ASSUME NEW word \in added
      PROVE  Occurs(word, d, p) <=> Occurs(word, text, p)
  <2> DEFINE w == Len(word)
  <2>1. w \in Nat \ {0} /\ \A k \in 1 .. w : word[k] # Bad
    BY AddedAre
  <2> HIDE DEF w
  <2>2. ASSUME Occurs(word, d, p) PROVE Occurs(word, text, p)
    <3>1. p + w - 1 <= n /\ \A k \in 1 .. w : d[p + k - 1] = word[k]
      BY <2>2 DEF Occurs, n, w
    <3>2. \A k \in 1 .. w : p + k - 1 \in 1 .. n
      BY <2>1, <1>2, <3>1
    <3> QED
      BY <3>1, <3>2, <2>1, <1>2 DEF Occurs, w
  <2>3. ASSUME Occurs(word, text, p) PROVE Occurs(word, d, p)
    <3>1. p + w - 1 <= Len(text) /\ \A k \in 1 .. w : text[p + k - 1] = word[k]
      BY <2>3 DEF Occurs, w
    <3>2. p + w - 1 <= n
      <4> SUFFICES ASSUME p + w - 1 > n PROVE FALSE
        BY <2>1, <1>2
      <4> DEFINE k == n + 2 - p
      <4>1. k \in 1 .. w /\ p + k - 1 = n + 1 /\ n < Len(text)
        <5>1. p \in Int /\ 1 <= p /\ p <= n /\ n \in Int /\ w \in Int /\ Len(text) \in Int
          BY <2>1, <1>2
        <5>2. p + w - 1 > n /\ p + w - 1 <= Len(text)
          BY <3>1
        <5> QED
          BY <5>1, <5>2
      <4> HIDE DEF k
      <4> QED
        BY <4>1, <3>1, <2>1, <1>2
    <3>3. \A k \in 1 .. w : p + k - 1 \in 1 .. n
      BY <2>1, <1>2, <3>2
    <3> QED
      BY <3>1, <3>2, <3>3, <1>2 DEF Occurs, n, w
  <2> QED
    BY <2>2, <2>3
<1> QED
  BY <1>3 DEF Starts, d

LEMMA CheckIs ==
  ASSUME WordsMarked, NEW text \in Seq(Int)
  PROVE  cowf_check(text) <=> Has(Decoded(text))
<1> DEFINE d == Decoded(text)
<1>1. d \in Seq(Int) /\ IsDecoded(d, text)
  <2>1. d \in Seq(Int \ {Bad}) /\ IsDecoded(d, text)
    BY DecodedIs
  <2> HIDE DEF d
  <2> QED
    BY <2>1
<1>2. Has(d) <=> \E p \in 1 .. Len(d) : Starts(text, p)
  BY <1>1, HasIs, StartsDecoded
<1>3. \A p \in 1 .. Len(d) : p \in 1 .. Len(text)
  BY <1>1 DEF IsDecoded
<1>4. HasRoot => \A p \in 1 .. Len(d) : _cowf_check_word(text, p) > 0 <=> Starts(text, p)
  BY <1>3, CheckWordIs
<1>5. ~ HasRoot => added = {}
  BY RootIs DEF WordsMarked, NodesMarked
<1> HIDE DEF d
<1> QED
  BY <1>2, <1>4, <1>5 DEF cowf_check, Starts, d

-----------------------------------------------------------------------------
(* Filtering a text. *)

\* Of out, the first m characters are decoded, and from j on none is ch.
Clear(out, j, m, ch) == /\ \A k \in 1 .. m : out[k] # Bad
                    /\ \A k \in j .. m : out[k] # ch

\* From j to m out is what the text has from q on, where no word starts.
Copied(text, out, j, m, q) == /\ q + m - j <= Len(text) /\ ~ Starts(text, q)
                              /\ \A k \in j .. m : text[q + k - j] = out[k]

\* The text from p on, filtered: what is neither masked nor behind a Bad is copied from
\* where no word starts; the first word leaves a difference, unless a word has ch; without
\* one nothing is changed.
FromOK(text, p, out, ch) ==
  /\ out \in Seq(Int)
  /\ \A m \in 1 .. Len(out) : Clear(out, 1, m, ch) => p <= Len(text) /\ Copied(text, out, 1, m, p)
  /\ \A m \in 1 .. Len(out) : \A j \in 1 .. m :
       Clear(out, j, m, ch) => \E q \in p .. Len(text) : Copied(text, out, j, m, q)
  /\ ~ InAWord(ch) /\ (\E q \in p .. Len(text) : Starts(text, q) /\ \A k \in p .. q : text[k] # Bad)
       => \E k \in 1 .. Len(out) : text[p + k - 1] # out[k] /\ p + k - 1 <= Len(text)
  /\ (\A q \in p .. Len(text) : Starts(text, q) => \E k \in p .. q : text[k] = Bad)
       => out = SubSeq(text, p, Len(text))

LEMMA NothingLeft ==
  ASSUME NEW text \in Seq(Int), NEW ch \in Int
  PROVE  FromOK(text, Len(text) + 1, <<>>, ch)
<1> DEFINE n == Len(text)
           s == SubSeq(text, n + 1, n)
<1>1. n \in Nat /\ n + 1 \in 1 .. n + 1 /\ n \in (n + 1) - 1 .. n
  OBVIOUS
<1>2. s \in Seq(Int) /\ Len(s) = n - (n + 1) + 1
  BY <1>1, Slice
<1>3. s = <<>>
  <2> HIDE DEF s, n
  <2>1. Len(s) = 0
    BY <1>1, <1>2
  <2> QED
    BY <2>1, <1>2
<1>4. <<>> \in Seq(Int) /\ Len(<<>>) = 0 /\ ~ \E q \in n + 1 .. n : TRUE
  BY <1>1
<1> HIDE DEF s
<1> QED
  BY <1>1, <1>3, <1>4 DEF FromOK, s

LEMMA NotDecoded ==
  ASSUME NEW text \in Seq(Int), NEW p \in 1 .. Len(text), text[p] = Bad, NEW ch \in Int
  PROVE  FromOK(text, p, SubSeq(text, p, Len(text)), ch)
<1> DEFINE n == Len(text)
           out == SubSeq(text, p, n)
<1>1. n \in Nat /\ p \in Nat /\ p \in 1 .. n + 1 /\ n \in p - 1 .. n /\ n - p + 1 >= 1
  OBVIOUS
<1>2. /\ out \in Seq(Int) /\ Len(out) = n - p + 1
      /\ \A k \in 1 .. n - p + 1 : out[k] = text[p + k - 1]
  BY <1>1, Slice
<1> HIDE DEF out, n
<1>3. out[1] = Bad
  BY <1>1, <1>2
<1>4. \A m \in 1 .. Len(out) : \A j : ~ Clear(out, j, m, ch)
  <2> TAKE m \in 1 .. Len(out)
  <2>1. 1 \in 1 .. m
    BY <1>1, <1>2
  <2> QED
    BY <2>1, <1>3 DEF Clear
<1>5. \A q \in p .. n : p \in p .. q
  BY <1>1
<1>6. ~ \E q \in p .. n : Starts(text, q) /\ \A k \in p .. q : text[k] # Bad
  BY <1>5
<1> SUFFICES FromOK(text, p, out, ch)
  BY DEF out, n
<1> QED
  BY <1>2, <1>4, <1>6 DEF FromOK, out, n

\* A word that starts at p is masked, and the walk goes on behind it.
LEMMA WordMasked ==
  ASSUME WordsMarked, NEW text \in Seq(Int), NEW p \in 1 .. Len(text), Starts(text, p),
         NEW ch \in Int, NEW e \in p .. Len(text), NEW b \in Nat \ {0}, NEW rest,
         FromOK(text, e + 1, rest, ch)
  PROVE  FromOK(text, p, [i \in 1 .. b |-> ch] \o rest, ch)
<1> DEFINE masks == [i \in 1 .. b |-> ch]
           out == masks \o rest
           n == Len(text)
<1>1. n \in Nat /\ p \in Nat /\ e \in Nat /\ 1 <= p /\ p <= e /\ e <= n
  OBVIOUS
<1>2. masks \in Seq(Int) /\ Len(masks) = b /\ \A i \in 1 .. b : masks[i] = ch
  OBVIOUS
<1>3. rest \in Seq(Int) /\ Len(rest) \in Nat
  BY DEF FromOK
<1> HIDE DEF masks
<1>4. /\ out \in Seq(Int) /\ Len(out) = b + Len(rest)
      /\ \A i \in 1 .. b + Len(rest) : out[i] = IF i <= b THEN masks[i] ELSE rest[i - b]
  BY <1>2, <1>3, ConcatProperties
<1> HIDE DEF out
<1>5. /\ \A i \in 1 .. b : i \in 1 .. Len(out) /\ out[i] = ch
      /\ \A i \in 1 .. Len(rest) : i + b \in 1 .. Len(out) /\ out[i + b] = rest[i]
  <2>1. \A i \in 1 .. b : i \in 1 .. b + Len(rest) /\ i <= b
    BY <1>3
  <2>2. \A i \in 1 .. Len(rest) : i + b \in 1 .. b + Len(rest) /\ ~ (i + b <= b)
                                  /\ (i + b) - b = i
    BY <1>3
  <2>3. \A i \in 1 .. b : i \in 1 .. Len(out) /\ out[i] = masks[i]
    BY <2>1, <1>4
  <2>4. \A i \in 1 .. Len(rest) : i + b \in 1 .. Len(out) /\ out[i + b] = rest[i]
    BY <2>2, <1>4
  <2> QED
    BY <2>3, <2>4, <1>2
<1>6. 1 \in 1 .. b /\ out[1] = ch /\ 1 \in 1 .. Len(out)
  BY <1>5
<1>7. \A m \in 1 .. Len(out) : ~ Clear(out, 1, m, ch)
  <2> TAKE m \in 1 .. Len(out)
  <2>1. 1 \in 1 .. m
    BY <1>3, <1>4
  <2> QED
    BY <2>1, <1>6 DEF Clear
<1>8. ASSUME NEW m \in 1 .. Len(out), NEW j \in 1 .. m, Clear(out, j, m, ch)
      PROVE  \E q \in p .. n : Copied(text, out, j, m, q)
  <2>1. m \in Nat /\ j \in Nat /\ 1 <= j /\ j <= m /\ m <= b + Len(rest)
    BY <1>3, <1>4
  <2>2. j > b
    <3> SUFFICES ASSUME j <= b PROVE FALSE
      BY <2>1
    <3>1. j \in 1 .. b /\ j \in j .. m
      BY <2>1
    <3> QED
      BY <3>1, <1>5, <1>8 DEF Clear
  <2> DEFINE m2 == m - b
             j2 == j - b
  <2>3. m2 \in 1 .. Len(rest) /\ j2 \in 1 .. m2 /\ m2 \in Nat /\ j2 \in Nat
    BY <2>1, <2>2, <1>3
  <2>4. Clear(rest, j2, m2, ch)
    <3>1. \A k \in 1 .. m2 : k + b \in 1 .. m /\ k \in 1 .. Len(rest)
      BY <2>1, <2>3, <1>3
    <3>2. \A k \in j2 .. m2 : k + b \in j .. m /\ k \in 1 .. Len(rest)
      BY <2>1, <2>3, <1>3
    <3> HIDE DEF m2, j2
    <3> QED
      BY <3>1, <3>2, <1>5, <1>8 DEF Clear
  <2> HIDE DEF m2, j2
  <2>5. PICK q \in e + 1 .. n : Copied(text, rest, j2, m2, q)
    BY <2>3, <2>4 DEF FromOK, n
  <2>6. q \in p .. n /\ q \in Nat
    BY <1>1
  <2>7. q + m - j <= n /\ \A k \in j .. m : text[q + k - j] = out[k]
    <3>1. m = m2 + b /\ j = j2 + b
      BY <2>1 DEF m2, j2
    <3>2. q + m2 - j2 = q + m - j
      BY <3>1, <2>3, <2>6
    <3>3. q + m - j <= n
      BY <3>2, <2>5 DEF Copied, n
    <3>4. ASSUME NEW k \in j .. m PROVE text[q + k - j] = out[k]
      <4> DEFINE k2 == k - b
      <4>1. k2 \in j2 .. m2 /\ k2 \in 1 .. Len(rest) /\ k2 + b = k
            /\ q + k2 - j2 = q + k - j
        BY <3>1, <2>1, <2>3, <2>6, <1>3
      <4> HIDE DEF k2
      <4>2. text[q + k2 - j2] = rest[k2]
        BY <4>1, <2>5 DEF Copied
      <4> QED
        BY <4>1, <4>2, <1>5
    <3> QED
      BY <3>3, <3>4
  <2>8. Copied(text, out, j, m, q)
    BY <2>5, <2>7 DEF Copied, n
  <2> QED
    BY <2>6, <2>8
<1>9. text[p] # Bad
  <2>1. PICK word \in added : Occurs(word, text, p)
    BY DEF Starts
  <2>2. 1 \in 1 .. Len(word) /\ word[1] # Bad
    BY AddedAre
  <2>3. p + 1 - 1 = p
    BY <1>1
  <2> QED
    BY <2>1, <2>2, <2>3 DEF Occurs
<1>10. ~ \A q \in p .. n : Starts(text, q) => \E k \in p .. q : text[k] = Bad
  <2>1. p \in p .. n /\ \A k \in p .. p : k = p
    BY <1>1
  <2> QED
    BY <2>1, <1>9
<1>11. ~ InAWord(ch) => \E k \in 1 .. Len(out) : text[p + k - 1] # out[k] /\ p + k - 1 <= n
  <2> SUFFICES ASSUME ~ InAWord(ch) PROVE text[p + 1 - 1] # out[1] /\ p + 1 - 1 <= n
    BY <1>6
  <2>1. PICK word \in added : Occurs(word, text, p)
    BY DEF Starts
  <2>2. 1 \in 1 .. Len(word) /\ word[1] # ch
    <3>1. word \in Seq(Code) /\ 1 \in 1 .. Len(word)
      BY AddedAre
    <3> QED
      BY <3>1 DEF InAWord, ToSet
  <2>3. p + 1 - 1 = p /\ text[p + 1 - 1] = word[1]
    BY <2>1, <2>2, <1>1 DEF Occurs
  <2> QED
    BY <2>2, <2>3, <1>1, <1>6
<1> SUFFICES FromOK(text, p, out, ch)
  BY DEF out, masks
<1> QED
  BY <1>4, <1>7, <1>8, <1>10, <1>11 DEF FromOK, n

\* Where no word starts a character is kept.
LEMMA CharacterKept ==
  ASSUME NEW text \in Seq(Int), NEW p \in 1 .. Len(text), ~ Starts(text, p), text[p] # Bad,
         NEW ch \in Int, NEW rest, FromOK(text, p + 1, rest, ch)
  PROVE  FromOK(text, p, <<text[p]>> \o rest, ch)
<1> DEFINE c == <<text[p]>>
           out == c \o rest
           n == Len(text)
<1>1. n \in Nat /\ p \in Nat /\ 1 <= p /\ p <= n /\ text[p] \in Int
  OBVIOUS
<1>2. c \in Seq(Int) /\ Len(c) = 1 /\ c[1] = text[p]
  BY <1>1
<1>3. rest \in Seq(Int) /\ Len(rest) \in Nat
  BY DEF FromOK
<1> HIDE DEF c
<1>4. /\ out \in Seq(Int) /\ Len(out) = 1 + Len(rest)
      /\ \A i \in 1 .. 1 + Len(rest) : out[i] = IF i <= 1 THEN c[i] ELSE rest[i - 1]
  <2>1. /\ out \in Seq(Int) /\ Len(out) = Len(c) + Len(rest)
        /\ \A i \in 1 .. Len(c) + Len(rest) :
             out[i] = IF i <= Len(c) THEN c[i] ELSE rest[i - Len(c)]
    BY <1>2, <1>3, ConcatProperties
  <2> HIDE DEF out
  <2> QED
    BY <2>1, <1>2
<1> HIDE DEF out
<1>5. /\ out[1] = text[p]
      /\ \A i \in 1 .. Len(rest) : i + 1 \in 1 .. Len(out) /\ out[i + 1] = rest[i]
  <2>1. 1 \in 1 .. 1 + Len(rest) /\ 1 <= 1
    BY <1>3
  <2>2. \A i \in 1 .. Len(rest) : i + 1 \in 1 .. 1 + Len(rest) /\ ~ (i + 1 <= 1)
                                  /\ (i + 1) - 1 = i
    BY <1>3
  <2> QED
    BY <2>1, <2>2, <1>2, <1>4
<1>6. ASSUME NEW m \in 1 .. Len(out), Clear(out, 1, m, ch)
      PROVE  Copied(text, out, 1, m, p)
  <2>1. m \in Nat /\ 1 <= m /\ m <= 1 + Len(rest)
    BY <1>3, <1>4
  <2>2. CASE m = 1
    <3>1. p + 1 - 1 = p /\ \A k \in 1 .. 1 : k = 1
      BY <1>1
    <3> QED
      BY <3>1, <2>2, <1>1, <1>5 DEF Copied, n
  <2>3. CASE m # 1
    <3> DEFINE m2 == m - 1
    <3>1. m2 \in 1 .. Len(rest) /\ m2 \in Nat /\ m2 + 1 = m
      BY <2>1, <2>3, <1>3
    <3> HIDE DEF m2
    <3>2. Clear(rest, 1, m2, ch)
      <4>1. \A k \in 1 .. m2 : k + 1 \in 1 .. m /\ k \in 1 .. Len(rest)
        BY <3>1, <2>1, <1>3
      <4> QED
        BY <4>1, <1>5, <1>6 DEF Clear
    <3>3. Copied(text, rest, 1, m2, p + 1)
      BY <3>1, <3>2 DEF FromOK
    <3>4. p + m - 1 <= n
      BY <3>1, <3>3, <1>1 DEF Copied, n
    <3>5. ASSUME NEW k \in 1 .. m PROVE text[p + k - 1] = out[k]
      <4>1. CASE k = 1
        <5>1. p + 1 - 1 = p
          BY <1>1
        <5> QED
          BY <4>1, <5>1, <1>5
      <4>2. CASE k # 1
        <5> DEFINE k2 == k - 1
        <5>1. k2 \in 1 .. m2 /\ k2 \in 1 .. Len(rest) /\ k2 + 1 = k
              /\ (p + 1) + k2 - 1 = p + k - 1
          BY <4>2, <3>1, <2>1, <1>1, <1>3
        <5> HIDE DEF k2
        <5>2. text[(p + 1) + k2 - 1] = rest[k2]
          BY <5>1, <3>3 DEF Copied
        <5> QED
          BY <5>1, <5>2, <1>5
      <4> QED
        BY <4>1, <4>2
    <3> QED
      BY <3>4, <3>5 DEF Copied, n
  <2> QED
    BY <2>2, <2>3
<1>7. ASSUME NEW m \in 1 .. Len(out), NEW j \in 1 .. m, Clear(out, j, m, ch)
      PROVE  \E q \in p .. n : Copied(text, out, j, m, q)
  <2>1. m \in Nat /\ j \in Nat /\ 1 <= j /\ j <= m /\ m <= 1 + Len(rest)
    BY <1>3, <1>4
  <2>2. CASE j = 1
    <3>1. Copied(text, out, 1, m, p)
      BY <1>6, <1>7, <2>2
    <3>2. p \in p .. n
      BY <1>1
    <3> QED
      BY <3>1, <3>2, <2>2
  <2>3. CASE j # 1
    <3> DEFINE m2 == m - 1
               j2 == j - 1
    <3>1. m2 \in 1 .. Len(rest) /\ j2 \in 1 .. m2 /\ m2 \in Nat /\ j2 \in Nat
          /\ m = m2 + 1 /\ j = j2 + 1
      BY <2>1, <2>3, <1>3
    <3> HIDE DEF m2, j2
    <3>2. Clear(rest, j2, m2, ch)
      <4>1. \A k \in 1 .. m2 : k + 1 \in 1 .. m /\ k \in 1 .. Len(rest)
        BY <3>1, <2>1, <1>3
      <4>2. \A k \in j2 .. m2 : k + 1 \in j .. m /\ k \in 1 .. Len(rest)
        BY <3>1, <2>1, <1>3
      <4> QED
        BY <4>1, <4>2, <1>5, <1>7 DEF Clear
    <3>3. PICK q \in p + 1 .. n : Copied(text, rest, j2, m2, q)
      BY <3>1, <3>2 DEF FromOK, n
    <3>4. q \in p .. n /\ q \in Nat
      BY <1>1
    <3>5. q + m - j <= n
      <4>1. q + m2 - j2 = q + m - j
        BY <3>1, <3>4
      <4> QED
        BY <4>1, <3>3 DEF Copied, n
    <3>6. ASSUME NEW k \in j .. m PROVE text[q + k - j] = out[k]
      <4> DEFINE k2 == k - 1
      <4>1. k2 \in j2 .. m2 /\ k2 \in 1 .. Len(rest) /\ k2 + 1 = k
            /\ q + k2 - j2 = q + k - j
        BY <3>1, <3>4, <2>1, <1>3
      <4> HIDE DEF k2
      <4>2. text[q + k2 - j2] = rest[k2]
        BY <4>1, <3>3 DEF Copied
      <4> QED
        BY <4>1, <4>2, <1>5
    <3>7. Copied(text, out, j, m, q)
      BY <3>3, <3>5, <3>6 DEF Copied, n
    <3> QED
      BY <3>4, <3>7
  <2> QED
    BY <2>2, <2>3
<1>8. ASSUME ~ InAWord(ch), NEW q \in p .. n, Starts(text, q), \A k \in p .. q : text[k] # Bad
      PROVE  \E k \in 1 .. Len(out) : text[p + k - 1] # out[k] /\ p + k - 1 <= n
  <2>1. q \in p + 1 .. n /\ \A k \in p + 1 .. q : k \in p .. q
    BY <1>1, <1>8
  <2>2. PICK k \in 1 .. Len(rest) : text[(p + 1) + k - 1] # rest[k] /\ (p + 1) + k - 1 <= n
    BY <2>1, <1>8 DEF FromOK, n
  <2>3. p + (k + 1) - 1 = (p + 1) + k - 1
    BY <1>1, <1>3
  <2> QED
    BY <2>2, <2>3, <1>5
<1>9. ASSUME \A q \in p .. n : Starts(text, q) => \E k \in p .. q : text[k] = Bad
      PROVE  out = SubSeq(text, p, n)
  <2> DEFINE s == SubSeq(text, p, n)
             t == SubSeq(text, p + 1, n)
  <2>1. \A q \in p + 1 .. n : Starts(text, q) => \E k \in p + 1 .. q : text[k] = Bad
    <3> SUFFICES ASSUME NEW q \in p + 1 .. n, Starts(text, q)
                 PROVE  \E k \in p + 1 .. q : text[k] = Bad
      OBVIOUS
    <3>1. q \in p .. n
      BY <1>1
    <3>2. PICK k \in p .. q : text[k] = Bad
      BY <3>1, <1>9
    <3>3. k \in p + 1 .. q
      BY <3>2, <1>1
    <3> QED
      BY <3>2, <3>3
  <2>2. rest = t
    BY <2>1 DEF FromOK, n
  <2>3. p \in 1 .. n + 1 /\ n \in p - 1 .. n /\ p + 1 \in 1 .. n + 1 /\ n \in (p + 1) - 1 .. n
    BY <1>1
  <2>4. s \in Seq(Int) /\ Len(s) = n - p + 1 /\ \A k \in 1 .. n - p + 1 : s[k] = text[p + k - 1]
    BY <2>3, Slice
  <2>5. t \in Seq(Int) /\ Len(t) = n - (p + 1) + 1
        /\ \A k \in 1 .. n - (p + 1) + 1 : t[k] = text[(p + 1) + k - 1]
    BY <2>3, Slice
  <2> HIDE DEF s, t, n
  <2>6. Len(out) = Len(s)
    <3>1. Len(rest) = n - (p + 1) + 1 /\ Len(out) = 1 + Len(rest) /\ Len(s) = n - p + 1
      BY <2>2, <2>4, <2>5, <1>4
    <3> QED
      BY <3>1, <1>1
  <2>7. ASSUME NEW k \in 1 .. Len(s) PROVE out[k] = s[k]
    <3>1. CASE k = 1
      <4>1. p + 1 - 1 = p /\ 1 \in 1 .. n - p + 1
        BY <1>1
      <4> QED
        BY <4>1, <3>1, <2>4, <1>5
    <3>2. CASE k # 1
      <4> DEFINE k2 == k - 1
      <4>1. k2 \in 1 .. Len(rest) /\ k2 + 1 = k /\ k2 \in 1 .. n - (p + 1) + 1
            /\ (p + 1) + k2 - 1 = p + k - 1 /\ k \in 1 .. n - p + 1
        BY <3>2, <2>2, <2>4, <2>5, <1>1
      <4> HIDE DEF k2
      <4> QED
        BY <4>1, <2>2, <2>4, <2>5, <1>5
    <3> QED
      BY <3>1, <3>2
  <2> QED
    BY <2>4, <2>6, <2>7, <1>4, SeqEqual DEF s
<1>10. FromOK(text, p, out, ch)
  <2>1. p <= n
    BY <1>1
  <2> QED
    BY <2>1, <1>4, <1>6, <1>7, <1>8, <1>9 DEF FromOK, n
<1> QED
  BY <1>10 DEF out, c

\* What holds of every position when it follows from the positions behind.
LEMMA Backwards ==
  ASSUME NEW n \in Nat, NEW T,
         \A p \in 1 .. n + 1 : (\A r \in p + 1 .. n + 1 : r \in T) => p \in T
  PROVE  \A p \in 1 .. n + 1 : p \in T
<1> DEFINE S == {k \in 0 .. n : n + 1 - k \notin T}
<1>1. S = {}
  <2> SUFFICES ASSUME S # {} PROVE FALSE
    OBVIOUS
  <2>1. S \in SUBSET Nat
    OBVIOUS
  <2> HIDE DEF S
  <2>2. PICK k \in S : \A j \in S : k <= j
    BY <2>1, LeastElement
  <2> DEFINE p == n + 1 - k
  <2>3. k \in 0 .. n /\ p \notin T
    BY DEF S
  <2>4. p \in 1 .. n + 1 /\ p \in Nat
    BY <2>3
  <2>5. ASSUME NEW r \in p + 1 .. n + 1 PROVE r \in T
    <3> DEFINE j == n + 1 - r
    <3>1. j \in 0 .. n /\ j < k /\ n + 1 - j = r
      BY <2>3
    <3> HIDE DEF j
    <3>2. j \notin S
      BY <3>1, <2>2, <2>3
    <3> QED
      BY <3>1, <3>2 DEF S
  <2> HIDE DEF p
  <2> QED
    BY <2>3, <2>4, <2>5
<1> TAKE p \in 1 .. n + 1
<1>2. n + 1 - p \in 0 .. n /\ n + 1 - (n + 1 - p) = p
  OBVIOUS
<1> QED
  BY <1>1, <1>2

\* A turn of the loop of cowf_fitler, where g is the text behind, filtered.
FilterTurn(text, p, g, ch) ==
  LET e == _cowf_check_word(text, p)
  IN  IF p > Len(text) THEN <<>>
      ELSE IF e > 0 THEN [i \in 1 .. Bytes(SubSeq(text, p, e)) |-> ch] \o g[e + 1]
      ELSE IF text[p] = Bad THEN SubSeq(text, p, Len(text))
      ELSE <<text[p]>> \o g[p + 1]

\* It looks only behind p.
LEMMA TurnLooksBehind ==
  ASSUME WordsMarked, HasRoot, NEW text \in Seq(Int), NEW p \in 1 .. Len(text) + 1, NEW g, NEW h,
         NEW ch \in Int,
         \A r \in p + 1 .. Len(text) + 1 : g[r] = h[r]
  PROVE  FilterTurn(text, p, g, ch) = FilterTurn(text, p, h, ch)
<1> DEFINE n == Len(text)
           e == _cowf_check_word(text, p)
<1>1. n \in Nat /\ p \in Nat /\ 1 <= p
  OBVIOUS
<1>2. CASE p > n
  BY <1>2 DEF FilterTurn
<1>3. CASE p <= n
  <2>1. p \in 1 .. n /\ p + 1 \in p + 1 .. n + 1
    BY <1>1, <1>3
  <2>2. e = 0 \/ e \in p .. n
    BY <2>1, CheckWordIs
  <2> HIDE DEF e
  <2>3. e > 0 => e + 1 \in p + 1 .. n + 1
    BY <2>2, <1>1
  <2>4. g[p + 1] = h[p + 1] /\ (e > 0 => g[e + 1] = h[e + 1])
    BY <2>1, <2>3
  <2> QED
    BY <2>4 DEF FilterTurn, e
<1> QED
  BY <1>1, <1>2, <1>3

Filters(text, p, g, ch) ==
  g = [r \in p .. Len(text) + 1 |-> FilterTurn(text, r, g, ch)]

LEMMA FilterEnds ==
  ASSUME WordsMarked, HasRoot, NEW text \in Seq(Int), NEW ch \in Int
  PROVE  \E g : Filters(text, 1, g, ch)
<1> DEFINE n == Len(text)
           T == {p \in 1 .. n + 1 : \E g : Filters(text, p, g, ch)}
<1>1. n \in Nat
  OBVIOUS
<1>2. ASSUME NEW p \in 1 .. n + 1, \A r \in p + 1 .. n + 1 : r \in T
      PROVE  \E g : Filters(text, p, g, ch)
  <2>1. PICK g : p < n + 1 => Filters(text, p + 1, g, ch)
    <3>1. p < n + 1 => p + 1 \in p + 1 .. n + 1
      BY <1>1
    <3> QED
      BY <3>1, <1>2
  <2> DEFINE h == [r \in p .. n + 1 |-> IF r = p THEN FilterTurn(text, p, g, ch) ELSE g[r]]
  <2>2. \A r \in p + 1 .. n + 1 : r \in p .. n + 1 /\ r # p /\ p < n + 1
    BY <1>1
  <2>3. \A r \in p + 1 .. n + 1 : h[r] = g[r] /\ g[r] = FilterTurn(text, r, g, ch)
    BY <2>1, <2>2 DEF Filters
  <2>4. p \in p .. n + 1 /\ h[p] = FilterTurn(text, p, g, ch) /\ DOMAIN h = p .. n + 1
    BY <1>1
  <2>5. h = [r \in DOMAIN h |-> h[r]]
    OBVIOUS
  <2> HIDE DEF h
  <2>6. ASSUME NEW r \in p .. n + 1 PROVE h[r] = FilterTurn(text, r, h, ch)
    <3>1. r \in 1 .. n + 1 /\ \A q \in r + 1 .. n + 1 : q \in p + 1 .. n + 1
      BY <1>1
    <3>2. \A q \in r + 1 .. n + 1 : g[q] = h[q]
      BY <3>1, <2>3
    <3>3. FilterTurn(text, r, g, ch) = FilterTurn(text, r, h, ch)
      BY <3>1, <3>2, TurnLooksBehind
    <3>4. r = p \/ r \in p + 1 .. n + 1
      BY <1>1
    <3> QED
      BY <3>3, <3>4, <2>3, <2>4
  <2>7. h = [r \in p .. n + 1 |-> FilterTurn(text, r, h, ch)]
    BY <2>4, <2>5, <2>6
  <2> QED
    BY <2>7 DEF Filters
<1>3. \A p \in 1 .. n + 1 : (\A r \in p + 1 .. n + 1 : r \in T) => p \in T
  BY <1>2
<1> HIDE DEF T, n
<1>4. \A p \in 1 .. n + 1 : p \in T
  BY <1>1, <1>3, Backwards
<1>5. 1 \in 1 .. n + 1
  BY <1>1
<1> QED
  BY <1>4, <1>5 DEF T

\* From every position on the text is filtered as it should be.
LEMMA FilteredIs ==
  ASSUME WordsMarked, HasRoot, NEW text \in Seq(DOMAIN Width), NEW ch \in Int
  PROVE  FromOK(text, 1, Filtered(text, ch), ch)
<1> DEFINE n == Len(text)
           f == CHOOSE g : Filters(text, 1, g, ch)
           T == {p \in 1 .. n + 1 : FromOK(text, p, f[p], ch)}
<1>1. n \in Nat /\ text \in Seq(Int)
  <2>1. \A c \in DOMAIN Width : c \in Int
    BY WordFilterAssumption
  <2> QED
    BY <2>1
<1>2. Filtered(text, ch) = f[1]
  BY DEF Filtered, Filters, FilterTurn
<1>3. Filters(text, 1, f, ch)
  BY <1>1, FilterEnds
<1> HIDE DEF f
<1>4. \A p \in 1 .. n + 1 : f[p] = FilterTurn(text, p, f, ch)
  BY <1>3 DEF Filters
<1>5. ASSUME NEW p \in 1 .. n + 1, \A r \in p + 1 .. n + 1 : r \in T
      PROVE  FromOK(text, p, f[p], ch)
  <2>1. p \in Nat /\ 1 <= p /\ p <= n + 1
    BY <1>1
  <2>2. \A r \in p + 1 .. n + 1 : FromOK(text, r, f[r], ch)
    BY <1>5
  <2> DEFINE e == _cowf_check_word(text, p)
  <2>3. CASE p > n
    <3>0. FilterTurn(text, p, f, ch) = <<>>
      BY <2>3 DEF FilterTurn
    <3>1. p = n + 1 /\ f[p] = <<>>
      BY <2>1, <2>3, <1>1, <1>4, <3>0
    <3> QED
      BY <3>1, <1>1, NothingLeft
  <2>4. CASE p <= n
    <3>1. p \in 1 .. n /\ p + 1 \in p + 1 .. n + 1 /\ ~ (p > n)
      BY <2>1, <2>4, <1>1
    <3>2. /\ e > 0 <=> Starts(text, p)
          /\ e = 0 \/ (e \in p .. n /\ SubSeq(text, p, e) \in added)
      BY <3>1, <1>1, CheckWordIs
    <3>3. f[p] = IF e > 0 THEN [i \in 1 .. Bytes(SubSeq(text, p, e)) |-> ch] \o f[e + 1]
                 ELSE IF text[p] = Bad THEN SubSeq(text, p, n)
                 ELSE <<text[p]>> \o f[p + 1]
      BY <3>1, <1>4 DEF FilterTurn
    <3> HIDE DEF e
    <3>4. CASE e > 0
      <4> DEFINE w == SubSeq(text, p, e)
                 b == Bytes(w)
      <4>1. e \in p .. n /\ e + 1 \in p + 1 .. n + 1 /\ e \in p - 1 .. n
        BY <3>2, <3>4, <2>1, <1>1
      <4>2. w \in Seq(DOMAIN Width) /\ Len(w) = e - p + 1
        BY <4>1, <1>1, Slice
      <4>3. Bytes(w) \in Nat /\ Bytes(w) >= Len(w)
        BY <4>2, BytesIs
      <4> HIDE DEF w
      <4>4. b \in Nat \ {0}
        BY <4>1, <4>2, <4>3, <2>1
      <4>5. f[p] = [i \in 1 .. b |-> ch] \o f[e + 1]
        BY <3>3, <3>4 DEF w
      <4>6. FromOK(text, e + 1, f[e + 1], ch)
        BY <4>1, <2>2
      <4> HIDE DEF b
      <4> QED
        BY <4>1, <4>4, <4>5, <4>6, <3>1, <3>2, <3>4, <1>1, WordMasked
    <3>5. CASE ~ (e > 0) /\ text[p] = Bad
      <4>1. f[p] = SubSeq(text, p, n)
        BY <3>3, <3>5
      <4> QED
        BY <4>1, <3>1, <3>5, <1>1, NotDecoded
    <3>6. CASE ~ (e > 0) /\ text[p] # Bad
      <4>1. f[p] = <<text[p]>> \o f[p + 1]
        BY <3>3, <3>6
      <4>2. FromOK(text, p + 1, f[p + 1], ch)
        BY <3>1, <2>2
      <4> QED
        BY <4>1, <4>2, <3>1, <3>2, <3>6, <1>1, CharacterKept
    <3> QED
      BY <3>4, <3>5, <3>6
  <2> QED
    BY <2>1, <2>3, <2>4, <1>1
<1>6. \A p \in 1 .. n + 1 : (\A r \in p + 1 .. n + 1 : r \in T) => p \in T
  BY <1>5
<1> HIDE DEF T, n
<1>7. \A p \in 1 .. n + 1 : p \in T
  BY <1>1, <1>6, Backwards
<1>8. 1 \in 1 .. n + 1
  BY <1>1
<1> QED
  BY <1>2, <1>7, <1>8 DEF T

\* A text without a word is left as it is, and of one with a word none is left.
LEMMA FilterClears ==
  ASSUME WordsMarked, NEW text \in Seq(DOMAIN Width), NEW ch \in Int
  PROVE  LET filtered == cowf_fitler(text, ch)
         IN  /\ ~ Has(Decoded(text)) => filtered = text
             /\ ~ InAWord(ch) => /\ ~ cowf_check(filtered)
                                 /\ Has(Decoded(text)) => filtered # text
<1>0. text \in Seq(Int) /\ Len(text) \in Nat /\ \A k \in 1 .. Len(text) : text[k] \in Nat
  <2>1. \A c \in DOMAIN Width : c \in Int /\ c \in Nat
    BY WordFilterAssumption
  <2> QED
    BY <2>1
<1>1. CASE ~ HasRoot
  <2>1. added = {} /\ cowf_fitler(text, ch) = text
    BY <1>1, RootIs DEF WordsMarked, NodesMarked, cowf_fitler
  <2>2. ~ Has(Decoded(text))
    BY <2>1 DEF Has
  <2> QED
    BY <2>1, <2>2, <1>1 DEF cowf_check
<1>2. CASE HasRoot
  <2> DEFINE out == cowf_fitler(text, ch)
             d == Decoded(text)
             n == Len(text)
  <2>1. FromOK(text, 1, out, ch)
    BY <1>2, FilteredIs DEF cowf_fitler
  <2> HIDE DEF out
  <2>2. out \in Seq(Int) /\ Len(out) \in Nat
    BY <2>1 DEF FromOK
  <2>3. ASSUME ~ InAWord(ch) PROVE ~ cowf_check(out)
    <3> DEFINE o == Decoded(out)
    <3> SUFFICES ASSUME Has(o) PROVE FALSE
      BY <2>2, CheckIs
    <3>1. o \in Seq(Int \ {Bad}) /\ IsDecoded(o, out)
      BY <2>2, DecodedIs
    <3>2. o \in Seq(Int)
      <4> HIDE DEF o
      <4> QED
        BY <3>1
    <3>3. PICK p \in 1 .. Len(o) : Starts(o, p)
      BY <3>2, HasIs
    <3>4. Starts(out, p)
      BY <3>3, <2>2, StartsDecoded
    <3> HIDE DEF o
    <3>5. PICK word \in added : Occurs(word, out, p)
      BY <3>4 DEF Starts
    <3> DEFINE w == Len(word)
               m == p + w - 1
    <3>6. w \in Nat \ {0} /\ \A k \in 1 .. w : word[k] # Bad /\ word[k] # ch
      <4>1. word \in Seq(Code) /\ w \in Nat \ {0} /\ \A k \in 1 .. w : word[k] # Bad
        BY AddedAre
      <4> QED
        BY <4>1, <2>3 DEF InAWord, ToSet
    <3>7. /\ p \in Nat /\ 1 <= p /\ p <= Len(o) /\ Len(o) <= Len(out)
          /\ \A i \in 1 .. Len(o) : out[i] # Bad
      BY <3>1, <2>2 DEF IsDecoded
    <3>8. m <= Len(out) /\ \A k \in 1 .. w : out[p + k - 1] = word[k]
      BY <3>5 DEF Occurs
    <3> HIDE DEF w
    <3>9. m \in 1 .. Len(out) /\ p \in 1 .. m /\ m \in Nat
      BY <3>6, <3>7, <3>8, <2>2
    <3>10. \A k \in p .. m : out[k] # Bad /\ out[k] # ch
      <4> TAKE k \in p .. m
      <4> DEFINE i == k - p + 1
      <4>1. i \in 1 .. w /\ p + i - 1 = k
        BY <3>6, <3>7
      <4> HIDE DEF i
      <4> QED
        BY <4>1, <3>6, <3>8
    <3>11. Clear(out, p, m, ch)
      <4>1. \A k \in 1 .. m : k \in 1 .. Len(o) \/ k \in p .. m
        BY <3>7, <3>9
      <4> QED
        BY <4>1, <3>7, <3>10 DEF Clear
    <3>12. PICK q \in 1 .. n : Copied(text, out, p, m, q)
      BY <3>9, <3>11, <2>1 DEF FromOK
    <3>13. Occurs(word, text, q)
      <4>1. q + w - 1 = q + m - p /\ q \in Nat
        BY <3>6, <3>7, <1>0
      <4>2. q + w - 1 <= n
        BY <4>1, <3>12 DEF Copied
      <4>3. ASSUME NEW k \in 1 .. w PROVE text[q + k - 1] = word[k]
        <5> DEFINE i == p + k - 1
        <5>1. i \in p .. m /\ q + i - p = q + k - 1
          BY <4>1, <3>6, <3>7
        <5>2. out[i] = word[k]
          BY <3>8
        <5> HIDE DEF i
        <5> QED
          BY <5>1, <5>2, <3>12 DEF Copied
      <4> QED
        BY <4>2, <4>3 DEF Occurs, w
    <3> QED
      BY <3>12, <3>13 DEF Copied, Starts
  <2>4. d \in Seq(Int) /\ IsDecoded(d, text)
    <3>1. d \in Seq(Int \ {Bad}) /\ IsDecoded(d, text)
      BY <1>0, DecodedIs
    <3> HIDE DEF d
    <3> QED
      BY <3>1
  <2>5. Has(d) <=> \E p \in 1 .. Len(d) : Starts(text, p)
    BY <2>4, <1>0, HasIs, StartsDecoded
  <2> HIDE DEF d
  <2>6. Len(d) \in Nat /\ Len(d) <= n
    BY <2>4, <1>0 DEF IsDecoded
  <2>7. ASSUME ~ InAWord(ch), Has(d) PROVE out # text
    <3>1. PICK p \in 1 .. Len(d) : Starts(text, p)
      BY <2>5, <2>7
    <3>2. p \in 1 .. n /\ \A k \in 1 .. p : text[k] # Bad
      BY <2>4, <2>6, <1>0 DEF IsDecoded
    <3>3. PICK k \in 1 .. Len(out) : text[1 + k - 1] # out[k]
      BY <2>7, <3>1, <3>2, <2>1 DEF FromOK
    <3>4. 1 + k - 1 = k
      OBVIOUS
    <3> QED
      BY <3>3, <3>4
  <2>8. ASSUME ~ Has(d) PROVE out = text
    <3>1. ASSUME NEW q \in 1 .. n, Starts(text, q)
          PROVE  \E k \in 1 .. q : text[k] = Bad
      <4>1. ~ (q \in 1 .. Len(d))
        BY <3>1, <2>5, <2>8
      <4>2. Len(d) < q /\ Len(d) + 1 \in 1 .. q /\ Len(d) < n
        BY <4>1, <2>6, <1>0
      <4> QED
        BY <4>2, <2>4 DEF IsDecoded
    <3>2. out = SubSeq(text, 1, n)
      BY <3>1, <2>1 DEF FromOK
    <3> QED
      BY <3>2, <1>0, PrefixEnds
  <2> QED
    BY <2>3, <2>7, <2>8 DEF out, d
<1> QED
  BY <1>1, <1>2

\* As long as every line of the files that are loaded is read whole, the words of the
\* filter are found, alone and in every text, and filtered out, however they were added,
\* loaded and deleted (cowf_addword, cowf_loadwords, cowf_delword, cowf_fitler).
THEOREM FilterExactAlways == WFSpec => []FilterExact
<1>1. WFSpec => []WFInv
  BY InitWFInv, NextWFInv, PTL DEF WFSpec
<1>2. WFInv => FilterExact
  <2> SUFFICES ASSUME WFInv, whole
               PROVE  /\ \A word \in Words : cowf_exist(word) <=> word \in added
                      /\ \A text \in Texts :
                           LET has == Has(Decoded(text))
                           IN  /\ cowf_check(text) <=> has
                               /\ \A ch \in Masks :
                                    LET filtered == cowf_fitler(text, ch)
                                    IN  /\ ~ has => filtered = text
                                        /\ ~ InAWord(ch) => /\ ~ cowf_check(filtered)
                                                            /\ has => filtered # text
    BY DEF FilterExact
  <2>0. WordsMarked
    BY DEF WFInv, WordsMarked, NodesMarked
  <2>1. \A word \in Words : cowf_exist(word) <=> word \in added
    BY <2>0, WordExists
  <2>2. ASSUME NEW text \in Texts
        PROVE  cowf_check(text) <=> Has(Decoded(text))
    <3>1. text \in Seq(Int)
      <4>1. text \in Seq(DOMAIN Width) /\ \A c \in DOMAIN Width : c \in Int
        BY WordFilterAssumption
      <4> QED
        BY <4>1
    <3> QED
      BY <3>1, <2>0, CheckIs
  <2>3. ASSUME NEW text \in Texts, NEW ch \in Masks
        PROVE  LET filtered == cowf_fitler(text, ch)
               IN  /\ ~ Has(Decoded(text)) => filtered = text
                   /\ ~ InAWord(ch) => /\ ~ cowf_check(filtered)
                                       /\ Has(Decoded(text)) => filtered # text
    <3>1. text \in Seq(DOMAIN Width) /\ ch \in Int
      BY WordFilterAssumption
    <3> QED
      BY <3>1, <2>0, FilterClears
  <2> QED
    BY <2>1, <2>2, <2>3
<1> QED
  BY <1>1, <1>2, PTL
=============================================================================
