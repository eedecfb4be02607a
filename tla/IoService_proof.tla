-------------------------- MODULE IoService_proof --------------------------
(***************************************************************************)
(* Proofs about the UDP and FD halves of IoService, for pools, descriptor  *)
(* tables, sets of buffers and batches of any size, any depth of callbacks *)
(* and any set of callbacks.                                               *)
(*                                                                         *)
(* IInv has three parts. ObjectInv: an object that is live has a           *)
(* descriptor of its own, a UDP object never one of the user's. Lists: the *)
(* pointers of the send lists form disjoint lists of the buffers in use.   *)
(* ClosingHasData needs the frames on the call stack, the others only      *)
(* their types.                                                            *)
(***************************************************************************)
EXTENDS IoService, SequenceTheorems, FiniteSetTheorems, WellFoundedInduction, TLAPS

ObjectsTypeOK ==
  /\ state \in [Object -> 0 .. 2]
  /\ fd \in [Object -> Fd \cup {NoFd}]
  /\ fns \in [Object -> SUBSET Callbacks]
  /\ udpid \in 0 .. COUDP_SIZE - 1
  /\ fdid \in 0 .. COFD_SIZE - 1
  /\ sendbuf \in [Cofd -> 0 .. MaxSend]
  /\ opened \subseteq Fd
  /\ ptr \in [Fd -> Object \cup {NoObject, Wild}]
  /\ pollout \subseteq Fd

\* The pointer that is registered for a live object: for an FD it is fd->ud.
Registered ==
  \A o \in Object : Live(o) =>
    /\ fd[o] \in opened
    /\ ptr[fd[o]] = o \/ (o \in Cofd /\ ptr[fd[o]] \in UserData)

\* No descriptor is registered that belongs to no live object.
Owned == \A f \in Fd : ptr[f] # NoObject => \E o \in Object : Live(o) /\ fd[o] = f

\* Two live objects have two descriptors.
Separate == \A o, p \in Object : Live(o) /\ Live(p) /\ fd[o] = fd[p] => o = p

\* The descriptors of the FD objects are the user's, those of the UDP objects are not.
Lent == \A o \in Object : Live(o) => (fd[o] \in UserFd <=> o \in Cofd)

\* Only a live socket has datagrams.
HeadLive == \A u \in Udp : head[u] # Nil => Live(u)

DescriptorInv == /\ ObjectsTypeOK /\ Registered /\ Owned /\ Separate /\ Lent
                 /\ OpenMatchesUdp

ObjectInv == DescriptorInv /\ HeadLive /\ UnsentIsWatched

Frame == [op : Work, o : Object]
Report == [o : Object, flags : SUBSET Parts]

CallsTypeOK == events \in Seq(Report) /\ agenda \in Seq(Frame)

\* s is the list that starts at h, and its last buffer is t.
IsList(s, h, t, nxt) ==
  /\ h = IF s = <<>> THEN Nil ELSE s[1]
  /\ s # <<>> => t = s[Len(s)]
  /\ \A i \in 1 .. Len(s) : nxt[s[i]] = IF i = Len(s) THEN Nil ELSE s[i + 1]
  /\ \A i, j \in 1 .. Len(s) : s[i] = s[j] => i = j

\* q is the datagrams in the list of every socket, and a buffer in use is in one list.
ListsOf(q, hd, tl, nxt, us) ==
  /\ q \in [Udp -> Seq(Buffer)]
  /\ hd \in [Udp -> Buffer \cup {Nil}]
  /\ tl \in [Udp -> Buffer \cup {Nil}]
  /\ nxt \in [Buffer -> Buffer \cup {Nil}]
  /\ \A u \in Udp : IsList(q[u], hd[u], tl[u], nxt)
  /\ us = UNION {Range(q[u]) : u \in Udp}
  /\ \A u, v \in Udp : u # v => Range(q[u]) \cap Range(q[v]) = {}

Lists(q) == ListsOf(q, head, tail, next, used)

Queue == [u \in Udp |-> Chain(head[u])]

IInv == ObjectInv /\ CallsTypeOK /\ Lists(Queue) /\ ClosingHasData

USE DEF COUDP_INVALID, COUDP_NEW, COUDP_CLOSING, COFD_INVALID, COFD_NEW, COFD_BIND, NoFd

-----------------------------------------------------------------------------
(* Lists of pointers. The operators here have no variables: the lemmas are *)
(* used of a state and of its successor.                                   *)

\* A set of numbers that is not empty has a least element.
LEMMA LeastElement ==
  ASSUME NEW S \in SUBSET Nat, S # {}
  PROVE  \E x \in S : \A y \in S : x <= y
<1>1. PICK x \in S : \A y \in S : ~(<<y, x>> \in OpToRel(<, Nat))
  BY NatLessThanWellFounded, WFMin
<1>2. \A y \in S : ~(y < x)
  BY <1>1 DEF OpToRel
<1> QED
  BY <1>2

\* Chain, of the pointers nxt.
ChainOf(nxt, b) ==
  LET at[k \in 0 .. Cardinality(Buffer)] ==
        IF k = 0 THEN b
        ELSE IF at[k - 1] = Nil THEN Nil ELSE nxt[at[k - 1]]
      last == Cardinality({k \in DOMAIN at : at[k] # Nil})
  IN  [k \in 1 .. last |-> at[k - 1]]

\* Following the pointers of a list yields the list.
LEMMA ChainIsList ==
  ASSUME NEW s \in Seq(Buffer), NEW h, NEW t, NEW nxt, IsList(s, h, t, nxt)
  PROVE  ChainOf(nxt, h) = s
<1> DEFINE N == Cardinality(Buffer)
           IsAt(f) == f = [k \in 0 .. N |->
                             IF k = 0 THEN h
                             ELSE IF f[k - 1] = Nil THEN Nil ELSE nxt[f[k - 1]]]
           w == [k \in 0 .. N |-> IF k < Len(s) THEN s[k + 1] ELSE Nil]
           at == CHOOSE f : IsAt(f)
<1>1. N \in Nat /\ Len(s) \in Nat /\ Len(s) <= N
  <2>1. s \in Injection(1 .. Len(s), Buffer)
    <3>1. s \in [1 .. Len(s) -> Buffer]
      OBVIOUS
    <3>2. \A i, j \in 1 .. Len(s) : s[i] = s[j] => i = j
      BY DEF IsList
    <3> QED
      BY <3>1, <3>2 DEF Injection, IsInjective
  <2>2. Cardinality(1 .. Len(s)) = Len(s)
    <3>1. 1 \in Int /\ Len(s) \in Int /\ Len(s) >= 0
      OBVIOUS
    <3>2. Cardinality(1 .. Len(s)) = IF 1 > Len(s) THEN 0 ELSE Len(s) - 1 + 1
      BY <3>1, FS_Interval
    <3> QED
      BY <3>1, <3>2
  <2>3. N \in Nat
    BY FS_CardinalityType, IoAssumption
  <2>4. Cardinality(1 .. Len(s)) <= N
    BY <2>1, FS_Injection, IoAssumption
  <2> QED
    BY <2>2, <2>3, <2>4
<1>e. \A i \in 1 .. Len(s) : s[i] # Nil
  BY IoAssumption
<1> HIDE DEF N
<1>2. IsAt(w)
  <2>1. ASSUME NEW k \in 0 .. N
        PROVE  w[k] = IF k = 0 THEN h ELSE IF w[k - 1] = Nil THEN Nil ELSE nxt[w[k - 1]]
    <3>1. CASE k = 0
      BY <1>1, <3>1 DEF IsList
    <3>2. CASE k # 0
      <4>1. k - 1 \in 0 .. N /\ k \in Nat
        BY <1>1, <3>2
      <4>2. CASE k - 1 < Len(s)
        <5>1. w[k - 1] = s[k] /\ k \in 1 .. Len(s)
          BY <1>1, <4>1, <4>2, <3>2
        <5>2. nxt[s[k]] = IF k = Len(s) THEN Nil ELSE s[k + 1]
          BY <5>1 DEF IsList
        <5>3. w[k] = IF k = Len(s) THEN Nil ELSE s[k + 1]
          BY <1>1, <5>1
        <5> QED
          BY <1>e, <3>2, <5>1, <5>2, <5>3
      <4>3. CASE ~(k - 1 < Len(s))
        BY <1>1, <3>2, <4>1, <4>3
      <4> QED
        BY <4>2, <4>3
    <3> QED
      BY <3>1, <3>2
  <2> QED
    BY <2>1
<1>3. IsAt(at)
  BY <1>2
<1> HIDE DEF at
<1> DEFINE Bad == {k \in 0 .. N : at[k] # w[k]}
<1>4. Bad = {}
  <2>1. SUFFICES ASSUME Bad # {} PROVE FALSE
    OBVIOUS
  <2>2. PICK k \in Bad : \A y \in Bad : k <= y
    <3>1. Bad \in SUBSET Nat
      BY <1>1
    <3> HIDE DEF Bad
    <3> QED
      BY <2>1, <3>1, LeastElement
  <2>3. k # 0
    BY <1>2, <1>3, <2>2
  <2>4. k \in 0 .. N /\ k - 1 \in 0 .. N /\ ~(k <= k - 1)
    BY <1>1, <2>2, <2>3
  <2>5. at[k - 1] = w[k - 1]
    BY <2>2, <2>4
  <2>6. at[k] = IF at[k - 1] = Nil THEN Nil ELSE nxt[at[k - 1]]
    BY <1>3, <2>3, <2>4
  <2>7. w[k] = IF w[k - 1] = Nil THEN Nil ELSE nxt[w[k - 1]]
    <3> HIDE DEF w
    <3> QED
      BY <1>2, <2>3, <2>4
  <2> QED
    BY <2>2, <2>5, <2>6, <2>7
<1>5. \A k \in 0 .. N : at[k] = IF k < Len(s) THEN s[k + 1] ELSE Nil
  BY <1>4
<1>6. DOMAIN at = 0 .. N
  BY <1>3
<1> HIDE DEF Bad, w, IsAt
<1>7. {k \in DOMAIN at : at[k] # Nil} = 0 .. Len(s) - 1
  BY <1>1, <1>5, <1>6, <1>e
<1>8. Cardinality(0 .. Len(s) - 1) = Len(s)
  <2>1. 0 \in Int /\ Len(s) - 1 \in Int
    BY <1>1
  <2>2. Cardinality(0 .. Len(s) - 1) = IF 0 > Len(s) - 1 THEN 0 ELSE Len(s) - 1 - 0 + 1
    BY <2>1, FS_Interval
  <2> QED
    BY <1>1, <2>2
<1>9. ChainOf(nxt, h) = [k \in 1 .. Cardinality({k \in DOMAIN at : at[k] # Nil}) |-> at[k - 1]]
  BY DEF ChainOf, at, IsAt, N
<1>10. ChainOf(nxt, h) = [k \in 1 .. Len(s) |-> at[k - 1]]
  BY <1>7, <1>8, <1>9
<1>11. \A k \in 1 .. Len(s) : at[k - 1] = s[k]
  BY <1>1, <1>5
<1> QED
  BY <1>10, <1>11

\* A list whose pointers did not change.
LEMMA ListKept ==
  ASSUME NEW s \in Seq(Buffer), NEW h, NEW t, NEW nxt, NEW nxt2, IsList(s, h, t, nxt),
         \A x \in Range(s) : nxt2[x] = nxt[x]
  PROVE  IsList(s, h, t, nxt2)
<1>1. \A i \in 1 .. Len(s) : s[i] \in Range(s)
  BY DEF Range
<1> QED
  BY <1>1 DEF IsList

\* The list of one socket becomes s, those of the others stay.
LEMMA OneListChanges ==
  ASSUME NEW q, NEW hd, NEW tl, NEW nxt, NEW us, ListsOf(q, hd, tl, nxt, us),
         NEW u \in Udp, NEW s \in Seq(Buffer),
         NEW h \in Buffer \cup {Nil}, NEW t \in Buffer \cup {Nil},
         NEW nxt2 \in [Buffer -> Buffer \cup {Nil}],
         IsList(s, h, t, nxt2),
         \A v \in Udp \ {u} : \A x \in Range(q[v]) : nxt2[x] = nxt[x] /\ x \notin Range(s)
  PROVE  ListsOf([q EXCEPT ![u] = s], [hd EXCEPT ![u] = h], [tl EXCEPT ![u] = t], nxt2,
                 (us \ Range(q[u])) \cup Range(s))
<1> DEFINE q2 == [q EXCEPT ![u] = s]
           hd2 == [hd EXCEPT ![u] = h]
           tl2 == [tl EXCEPT ![u] = t]
<1>1. /\ q2 \in [Udp -> Seq(Buffer)]
      /\ hd2 \in [Udp -> Buffer \cup {Nil}]
      /\ tl2 \in [Udp -> Buffer \cup {Nil}]
  BY DEF ListsOf
<1>2. /\ q2[u] = s /\ hd2[u] = h /\ tl2[u] = t
      /\ \A v \in Udp \ {u} : q2[v] = q[v] /\ hd2[v] = hd[v] /\ tl2[v] = tl[v]
  BY DEF ListsOf
<1>3. \A v \in Udp : IsList(q2[v], hd2[v], tl2[v], nxt2)
  <2>1. ASSUME NEW v \in Udp \ {u} PROVE IsList(q[v], hd[v], tl[v], nxt2)
    <3>1. q[v] \in Seq(Buffer) /\ IsList(q[v], hd[v], tl[v], nxt)
      BY DEF ListsOf
    <3> QED
      BY <3>1, ListKept
  <2> QED
    BY <1>2, <2>1
<1>4. \A v, x \in Udp : v # x => Range(q2[v]) \cap Range(q2[x]) = {}
  BY <1>2 DEF ListsOf
<1>5. UNION {Range(q2[v]) : v \in Udp} = (us \ Range(q[u])) \cup Range(s)
  <2>1. us = UNION {Range(q[v]) : v \in Udp}
    BY DEF ListsOf
  <2>2. \A v \in Udp \ {u} : Range(q[v]) \cap Range(q[u]) = {}
    BY DEF ListsOf
  <2> HIDE DEF q2
  <2> QED
    BY <1>2, <2>1, <2>2
<1> HIDE DEF q2, hd2, tl2
<1>6. ListsOf(q2, hd2, tl2, nxt2, (us \ Range(q[u])) \cup Range(s))
  BY <1>1, <1>3, <1>4, <1>5 DEF ListsOf
<1> QED
  BY <1>6 DEF q2, hd2, tl2

\* A new buffer at the end.
LEMMA ListAppended ==
  ASSUME NEW q, NEW hd, NEW tl, NEW nxt, NEW us, ListsOf(q, hd, tl, nxt, us),
         NEW u \in Udp, NEW b \in Buffer, b \notin us,
         NEW hd2, NEW nxt2,
         \/ /\ hd[u] = Nil
            /\ hd2 = [hd EXCEPT ![u] = b]
            /\ nxt2 = [nxt EXCEPT ![b] = Nil]
         \/ /\ hd[u] # Nil
            /\ hd2 = hd
            /\ nxt2 = [nxt EXCEPT ![b] = Nil, ![tl[u]] = b]
  PROVE  ListsOf([q EXCEPT ![u] = Append(@, b)], hd2, [tl EXCEPT ![u] = b], nxt2,
                 us \cup {b})
<1> DEFINE s == q[u]
           s2 == Append(s, b)
           h2 == IF hd[u] = Nil THEN b ELSE hd[u]
<1>1. /\ s \in Seq(Buffer) /\ IsList(s, hd[u], tl[u], nxt)
      /\ \A v \in Udp : Range(q[v]) \subseteq us
      /\ nxt \in [Buffer -> Buffer \cup {Nil}] /\ hd \in [Udp -> Buffer \cup {Nil}]
      /\ q \in [Udp -> Seq(Buffer)]
  BY DEF ListsOf
<1>2. \A i \in 1 .. Len(s) : s[i] \in Range(s) /\ s[i] # b /\ s[i] \in Buffer /\ s[i] # Nil
  <2>1. \A i \in 1 .. Len(s) : s[i] \in Range(s)
    BY <1>1 DEF Range
  <2> QED
    BY <1>1, <2>1, IoAssumption
<1>3. hd2 = [hd EXCEPT ![u] = h2] /\ h2 \in Buffer \cup {Nil}
  BY <1>1
<1>4. hd[u] = Nil <=> s = <<>>
  BY <1>1, <1>2 DEF IsList
<1>5. s # <<>> => /\ Len(s) \in 1 .. Len(s) /\ tl[u] = s[Len(s)]
                  /\ tl[u] \in Buffer /\ tl[u] # b /\ tl[u] \in Range(s)
  BY <1>1, <1>2 DEF IsList
<1>6. /\ nxt2 \in [Buffer -> Buffer \cup {Nil}]
      /\ nxt2[b] = Nil
      /\ s # <<>> => nxt2[tl[u]] = b
      /\ \A x \in Buffer \ {b} : s = <<>> \/ x # tl[u] => nxt2[x] = nxt[x]
  BY <1>1, <1>4, <1>5
<1>7. /\ s2 \in Seq(Buffer) /\ Len(s2) = Len(s) + 1 /\ s2[Len(s2)] = b /\ s2 # <<>>
      /\ \A i \in 1 .. Len(s) : s2[i] = s[i]
  <2>1. s \in Seq(Buffer)
    BY <1>1
  <2> HIDE DEF s
  <2> QED
    BY <2>1, AppendProperties
<1>8. IsList(s2, h2, b, nxt2)
  <2> HIDE DEF s2, s
  <2>1. Len(s) \in Nat /\ (s = <<>> <=> Len(s) = 0)
    BY <1>1
  <2>2. s2[1] = h2
    BY <1>1, <1>4, <1>7, <2>1 DEF IsList
  <2>3. \A i \in 1 .. Len(s2) : nxt2[s2[i]] = IF i = Len(s2) THEN Nil ELSE s2[i + 1]
    <3> SUFFICES ASSUME NEW i \in 1 .. Len(s2)
                 PROVE  nxt2[s2[i]] = IF i = Len(s2) THEN Nil ELSE s2[i + 1]
      OBVIOUS
    <3>1. CASE i = Len(s2)
      BY <1>6, <1>7, <3>1
    <3>2. CASE i = Len(s)
      <4>1. s # <<>> /\ s2[i] = tl[u] /\ i + 1 = Len(s2)
        BY <1>5, <1>7, <2>1, <3>2
      <4> QED
        BY <1>6, <1>7, <2>1, <3>2, <4>1
    <3>3. CASE i \in 1 .. Len(s) - 1
      <4>1. i \in 1 .. Len(s) /\ i + 1 \in 1 .. Len(s) /\ i # Len(s) /\ Len(s) \in 1 .. Len(s)
        BY <2>1, <3>3
      <4>2. s[i] # s[Len(s)]
        BY <1>1, <4>1 DEF IsList
      <4>3. nxt2[s[i]] = nxt[s[i]] /\ nxt[s[i]] = s[i + 1]
        BY <1>1, <1>2, <1>5, <1>6, <4>1, <4>2 DEF IsList
      <4> QED
        BY <1>7, <2>1, <4>1, <4>3
    <3> QED
      BY <1>7, <2>1, <3>1, <3>2, <3>3
  <2>4. \A i, j \in 1 .. Len(s2) : s2[i] = s2[j] => i = j
    <3>1. \A i, j \in 1 .. Len(s) : s[i] = s[j] => i = j
      BY <1>1 DEF IsList
    <3>2. \A i \in 1 .. Len(s2) : i = Len(s2) \/ i \in 1 .. Len(s)
      BY <1>7, <2>1
    <3> QED
      BY <1>2, <1>7, <3>1, <3>2
  <2> QED
    BY <1>7, <2>2, <2>3, <2>4 DEF IsList
<1>9. Range(s2) = Range(s) \cup {b}
  <2>1. Range(s) = {s[i] : i \in 1 .. Len(s)} /\ Range(s2) = {s2[i] : i \in 1 .. Len(s2)}
    BY <1>1, <1>7 DEF Range
  <2>2. 1 .. Len(s2) = (1 .. Len(s)) \cup {Len(s2)}
    BY <1>1, <1>7
  <2> HIDE DEF s, s2
  <2> QED
    BY <1>7, <2>1, <2>2
<1>10. \A v \in Udp \ {u} : \A x \in Range(q[v]) : nxt2[x] = nxt[x] /\ x \notin Range(s2)
  <2> SUFFICES ASSUME NEW v \in Udp \ {u}, NEW x \in Range(q[v])
               PROVE  nxt2[x] = nxt[x] /\ x \notin Range(s2)
    OBVIOUS
  <2>1. x \notin Range(s) /\ x # b
    BY <1>1 DEF ListsOf
  <2>2. x \in Buffer
    <3>1. q[v] \in Seq(Buffer)
      BY <1>1
    <3> QED
      BY <3>1 DEF Range
  <2> QED
    BY <1>5, <1>6, <1>9, <2>1, <2>2
<1>11. (us \ Range(q[u])) \cup Range(s2) = us \cup {b}
  BY <1>1, <1>9
<1>12. [q EXCEPT ![u] = Append(@, b)] = [q EXCEPT ![u] = s2]
  BY <1>1
<1> HIDE DEF s2, h2
<1>13. ListsOf([q EXCEPT ![u] = s2], [hd EXCEPT ![u] = h2], [tl EXCEPT ![u] = b], nxt2,
               (us \ Range(q[u])) \cup Range(s2))
  <2>1. b \in Buffer \cup {Nil} /\ h2 \in Buffer \cup {Nil} /\ s2 \in Seq(Buffer)
    BY <1>3, <1>7
  <2>2. nxt2 \in [Buffer -> Buffer \cup {Nil}]
    BY <1>6
  <2> QED
    BY <2>1, <2>2, <1>8, <1>10, OneListChanges, ZenonT(60)
<1> QED
  BY <1>3, <1>11, <1>12, <1>13

\* The first buffer leaves the list.
LEMMA ListTaken ==
  ASSUME NEW q, NEW hd, NEW tl, NEW nxt, NEW us, ListsOf(q, hd, tl, nxt, us),
         NEW u \in Udp, hd[u] # Nil
  PROVE  /\ q[u] # <<>>
         /\ ListsOf([q EXCEPT ![u] = Tail(@)], [hd EXCEPT ![u] = nxt[hd[u]]], tl,
                    [nxt EXCEPT ![hd[u]] = Nil], us \ {hd[u]})
<1> DEFINE s == q[u]
           s2 == Tail(s)
           h2 == nxt[hd[u]]
           nxt2 == [nxt EXCEPT ![hd[u]] = Nil]
<1>1. /\ s \in Seq(Buffer) /\ IsList(s, hd[u], tl[u], nxt)
      /\ \A v \in Udp : q[v] \in Seq(Buffer) /\ Range(q[v]) \subseteq us
      /\ nxt \in [Buffer -> Buffer \cup {Nil}]
      /\ tl \in [Udp -> Buffer \cup {Nil}]
      /\ q \in [Udp -> Seq(Buffer)]
  BY DEF ListsOf
<1>2. s # <<>> /\ hd[u] = s[1]
  BY <1>1 DEF IsList
<1>3. Len(s) \in Nat \ {0} /\ hd[u] \in Buffer
  BY <1>1, <1>2
<1>4. /\ s2 \in Seq(Buffer) /\ Len(s2) = Len(s) - 1
      /\ \A i \in 1 .. Len(s2) : s2[i] = s[i + 1]
  <2>1. s \in Seq(Buffer)
    BY <1>1
  <2> HIDE DEF s
  <2> QED
    BY <1>2, <2>1, HeadTailProperties
<1>5. /\ nxt2 \in [Buffer -> Buffer \cup {Nil}] /\ h2 \in Buffer \cup {Nil}
      /\ \A x \in Buffer \ {hd[u]} : nxt2[x] = nxt[x]
  BY <1>1, <1>3
<1> HIDE DEF s2, s, nxt2, h2
<1>6. IsList(s2, h2, tl[u], nxt2)
  <2>1. h2 = IF s2 = <<>> THEN Nil ELSE s2[1]
    <3>1. 1 \in 1 .. Len(s) /\ (s2 = <<>> <=> Len(s) = 1)
      BY <1>3, <1>4
    <3>2. h2 = IF 1 = Len(s) THEN Nil ELSE s[1 + 1]
      BY <1>1, <1>2, <3>1 DEF IsList, h2
    <3>3. s2 # <<>> => s2[1] = s[2]
      BY <1>3, <1>4, <3>1
    <3> QED
      BY <3>1, <3>2, <3>3
  <2>2. s2 # <<>> => tl[u] = s2[Len(s2)]
    <3> SUFFICES ASSUME s2 # <<>> PROVE tl[u] = s2[Len(s2)]
      OBVIOUS
    <3>1. Len(s2) \in 1 .. Len(s2) /\ Len(s2) + 1 = Len(s)
      BY <1>3, <1>4
    <3> QED
      BY <1>1, <1>2, <1>4, <3>1 DEF IsList
  <2>3. \A i \in 1 .. Len(s2) : i + 1 \in 1 .. Len(s) /\ 1 \in 1 .. Len(s) /\ i + 1 # 1
    BY <1>3, <1>4
  <2>4. \A i, j \in 1 .. Len(s2) : s2[i] = s2[j] => i = j
    BY <1>1, <1>4, <2>3 DEF IsList
  <2>5. \A i \in 1 .. Len(s2) : nxt2[s2[i]] = IF i = Len(s2) THEN Nil ELSE s2[i + 1]
    <3> SUFFICES ASSUME NEW i \in 1 .. Len(s2)
                 PROVE  nxt2[s2[i]] = IF i = Len(s2) THEN Nil ELSE s2[i + 1]
      OBVIOUS
    <3>1. s2[i] = s[i + 1] /\ s[i + 1] \in Buffer /\ s[i + 1] # s[1]
      BY <1>1, <1>4, <2>3 DEF IsList
    <3>2. nxt2[s2[i]] = IF i + 1 = Len(s) THEN Nil ELSE s[i + 1 + 1]
      BY <1>1, <1>2, <1>5, <2>3, <3>1 DEF IsList
    <3>3. i # Len(s2) => s2[i + 1] = s[i + 1 + 1]
      BY <1>3, <1>4
    <3> QED
      BY <1>3, <1>4, <3>2, <3>3
  <2> QED
    BY <2>1, <2>2, <2>4, <2>5 DEF IsList
<1>7. Range(s) = Range(s2) \cup {hd[u]} /\ hd[u] \notin Range(s2)
  <2>1. Range(s) = {s[i] : i \in 1 .. Len(s)} /\ Range(s2) = {s2[i] : i \in 1 .. Len(s2)}
    <3>1. s \in Seq(Buffer) /\ s2 \in Seq(Buffer)
      BY <1>1, <1>4
    <3> QED
      BY <3>1, RangeEquality
  <2>2. /\ \A i \in 1 .. Len(s2) : i + 1 \in 1 .. Len(s) /\ i + 1 # 1
        /\ \A i \in 1 .. Len(s) : i = 1 \/ i - 1 \in 1 .. Len(s2)
        /\ \A i \in 1 .. Len(s) : i = (i - 1) + 1
        /\ 1 \in 1 .. Len(s)
    BY <1>3, <1>4
  <2>3. \A i \in 1 .. Len(s) : s[i] = hd[u] \/ s[i] \in Range(s2)
    BY <1>2, <1>4, <2>1, <2>2
  <2>4. \A i \in 1 .. Len(s2) : s2[i] # hd[u] /\ s2[i] \in Range(s)
    BY <1>1, <1>2, <1>4, <2>1, <2>2 DEF IsList
  <2>5. hd[u] \in Range(s)
    BY <1>2, <2>1, <2>2
  <2> QED
    BY <2>1, <2>3, <2>4, <2>5
<1>8. \A v \in Udp \ {u} : \A x \in Range(q[v]) : nxt2[x] = nxt[x] /\ x \notin Range(s2)
  <2> SUFFICES ASSUME NEW v \in Udp \ {u}, NEW x \in Range(q[v])
               PROVE  nxt2[x] = nxt[x] /\ x \notin Range(s2)
    OBVIOUS
  <2>1. x \notin Range(s)
    BY DEF ListsOf, s
  <2>2. x \in Buffer
    BY <1>1 DEF Range
  <2> QED
    BY <1>5, <1>7, <2>1, <2>2
<1>9. ListsOf([q EXCEPT ![u] = s2], [hd EXCEPT ![u] = h2], [tl EXCEPT ![u] = tl[u]], nxt2,
              (us \ Range(q[u])) \cup Range(s2))
  <2>1. tl[u] \in Buffer \cup {Nil} /\ h2 \in Buffer \cup {Nil} /\ s2 \in Seq(Buffer)
    BY <1>1, <1>4, <1>5
  <2>2. nxt2 \in [Buffer -> Buffer \cup {Nil}]
    BY <1>5
  <2> QED
    BY <2>1, <2>2, <1>6, <1>8, OneListChanges, ZenonT(60)
<1>10. /\ [tl EXCEPT ![u] = tl[u]] = tl
       /\ (us \ Range(q[u])) \cup Range(s2) = us \ {hd[u]}
  BY <1>1, <1>7 DEF s
<1> QED
  BY <1>2, <1>9, <1>10 DEF s, s2, h2, nxt2

\* The whole list is released.
LEMMA ListEmptied ==
  ASSUME NEW q, NEW hd, NEW tl, NEW nxt, NEW us, ListsOf(q, hd, tl, nxt, us),
         NEW u \in Udp
  PROVE  ListsOf([q EXCEPT ![u] = <<>>], [hd EXCEPT ![u] = Nil], [tl EXCEPT ![u] = Nil],
                 [b \in Buffer |-> IF b \in Range(q[u]) THEN Nil ELSE nxt[b]],
                 us \ Range(q[u]))
<1> DEFINE nxt2 == [b \in Buffer |-> IF b \in Range(q[u]) THEN Nil ELSE nxt[b]]
<1>1. \A v \in Udp : q[v] \in Seq(Buffer)
  BY DEF ListsOf
<1>2. nxt2 \in [Buffer -> Buffer \cup {Nil}]
  BY DEF ListsOf
<1>3. IsList(<<>>, Nil, Nil, nxt2)
  BY DEF IsList
<1>4. Range(<<>>) = {}
  BY DEF Range
<1>5. \A v \in Udp \ {u} : \A x \in Range(q[v]) : nxt2[x] = nxt[x] /\ x \notin Range(<<>>)
  <2> SUFFICES ASSUME NEW v \in Udp \ {u}, NEW x \in Range(q[v]) PROVE nxt2[x] = nxt[x]
    BY <1>4
  <2>1. x \notin Range(q[u])
    BY DEF ListsOf
  <2>2. x \in Buffer
    BY <1>1 DEF Range
  <2> QED
    BY <2>1, <2>2
<1> HIDE DEF nxt2
<1>6. ListsOf([q EXCEPT ![u] = <<>>], [hd EXCEPT ![u] = Nil], [tl EXCEPT ![u] = Nil], nxt2,
              (us \ Range(q[u])) \cup Range(<<>>))
  <2>1. Nil \in Buffer \cup {Nil} /\ <<>> \in Seq(Buffer)
    OBVIOUS
  <2> QED
    BY <2>1, <1>2, <1>3, <1>5, OneListChanges, ZenonT(60)
<1>7. (us \ Range(q[u])) \cup Range(<<>>) = us \ Range(q[u])
  BY <1>4
<1> QED
  BY <1>6, <1>7 DEF nxt2

\* The tail of an empty list does not matter.
LEMMA TailCleared ==
  ASSUME NEW q, NEW hd, NEW tl, NEW nxt, NEW us, ListsOf(q, hd, tl, nxt, us),
         NEW u \in Udp, hd[u] = Nil
  PROVE  ListsOf(q, hd, [tl EXCEPT ![u] = Nil], nxt, us)
<1>1. q[u] = <<>>
  <2>1. q[u] \in Seq(Buffer) /\ IsList(q[u], hd[u], tl[u], nxt)
    BY DEF ListsOf
  <2>2. q[u] # <<>> => q[u][1] \in Buffer
    BY <2>1
  <2> QED
    BY <2>1, <2>2, IoAssumption DEF IsList
<1>2. [tl EXCEPT ![u] = Nil] \in [Udp -> Buffer \cup {Nil}]
  BY DEF ListsOf
<1>3. \A v \in Udp : IsList(q[v], hd[v], [tl EXCEPT ![u] = Nil][v], nxt)
  BY <1>1 DEF ListsOf, IsList
<1> QED
  BY <1>2, <1>3 DEF ListsOf
-----------------------------------------------------------------------------
(* What the steps do to the send lists.                                    *)

\* What a step may do to the queues: Next of SendQueue, or nothing.
QueueStep(q, q2) ==
  \/ q2 = q
  \/ \E u \in Udp :
       \/ \E b \in Buffer : /\ \A v \in Udp : b \notin Range(q[v])
                            /\ q2 = [q EXCEPT ![u] = Append(@, b)]
       \/ q[u] # <<>> /\ q2 = [q EXCEPT ![u] = Tail(@)]
       \/ q2 = [q EXCEPT ![u] = <<>>]

\* The lists are lists again, and the datagrams in them changed as they may.
ListStep == Lists(Queue)' /\ QueueStep(Queue, Queue')

LEMMA QueueUnique ==
  ASSUME NEW q, NEW hd, NEW tl, NEW nxt, NEW us, ListsOf(q, hd, tl, nxt, us)
  PROVE  [u \in Udp |-> ChainOf(nxt, hd[u])] = q
<1>1. ASSUME NEW u \in Udp PROVE ChainOf(nxt, hd[u]) = q[u]
  <2>1. q[u] \in Seq(Buffer) /\ IsList(q[u], hd[u], tl[u], nxt)
    BY DEF ListsOf
  <2> QED
    BY <2>1, ChainIsList
<1> QED
  BY <1>1 DEF ListsOf

\* A step whose new pointers are the lists q.
LEMMA StepTo ==
  ASSUME NEW q, ListsOf(q, head', tail', next', used'), QueueStep(Queue, q)
  PROVE  ListStep
<1>1. Queue' = [u \in Udp |-> ChainOf(next', head'[u])]
  BY DEF Queue, Chain, ChainOf
<1>2. Queue' = q
  BY <1>1, QueueUnique
<1>3. Lists(Queue)' = ListsOf(Queue', head', tail', next', used')
  BY DEF Lists
<1> QED
  BY <1>2, <1>3 DEF ListStep

LEMMA ListsSame ==
  ASSUME Lists(Queue), UNCHANGED sendlist
  PROVE  ListStep
<1>1. ListsOf(Queue, head', tail', next', used')
  BY DEF Lists, sendlist
<1>2. QueueStep(Queue, Queue)
  BY DEF QueueStep
<1> QED
  BY <1>1, <1>2, StepTo

LEMMA ListsAdd ==
  ASSUME Lists(Queue), NEW u \in Udp, NEW b \in Buffer, b \notin used, _udpbuffer_add(u, b)
  PROVE  ListStep
<1> DEFINE q2 == [Queue EXCEPT ![u] = Append(@, b)]
<1>1. ListsOf(Queue, head, tail, next, used)
  BY DEF Lists
<1>2. /\ used' = used \cup {b} /\ tail' = [tail EXCEPT ![u] = b]
      /\ \/ /\ head[u] = Nil
            /\ head' = [head EXCEPT ![u] = b]
            /\ next' = [next EXCEPT ![b] = Nil]
         \/ /\ head[u] # Nil
            /\ head' = head
            /\ next' = [next EXCEPT ![b] = Nil, ![tail[u]] = b]
  BY DEF _udpbuffer_add
<1>3. ListsOf(q2, head', [tail EXCEPT ![u] = b], next', used \cup {b})
  BY <1>1, <1>2, ListAppended
<1>4. ListsOf(q2, head', tail', next', used')
  BY <1>2, <1>3
<1>5. \A v \in Udp : b \notin Range(Queue[v])
  BY <1>1 DEF ListsOf
<1>6. QueueStep(Queue, q2)
  BY <1>5 DEF QueueStep
<1> QED
  BY <1>4, <1>6, StepTo

LEMMA ListsFree ==
  ASSUME Lists(Queue), NEW u \in Udp, _udpbuffer_free(u)
  PROVE  ListStep
<1> DEFINE q2 == [Queue EXCEPT ![u] = <<>>]
<1>1. ListsOf(Queue, head, tail, next, used)
  BY DEF Lists
<1>2. Listed(u) = Range(Queue[u])
  BY DEF Listed, Queue, Range
<1>3. /\ used' = used \ Range(Queue[u])
      /\ next' = [b \in Buffer |-> IF b \in Range(Queue[u]) THEN Nil ELSE next[b]]
      /\ head' = [head EXCEPT ![u] = Nil]
      /\ tail' = [tail EXCEPT ![u] = Nil]
  BY <1>2 DEF _udpbuffer_free
<1>4. ListsOf(q2, head', tail', next', used')
  <2>1. ListsOf(q2, [head EXCEPT ![u] = Nil], [tail EXCEPT ![u] = Nil],
                [b \in Buffer |-> IF b \in Range(Queue[u]) THEN Nil ELSE next[b]],
                used \ Range(Queue[u]))
    BY <1>1, ListEmptied
  <2> QED
    BY <1>3, <2>1
<1>5. QueueStep(Queue, q2)
  BY DEF QueueStep
<1> QED
  BY <1>4, <1>5, StepTo

LEMMA ListsTake ==
  ASSUME Lists(Queue), NEW u \in Udp, head[u] # Nil, tail' = tail,
         head' = [head EXCEPT ![u] = next[head[u]]],
         next' = [next EXCEPT ![head[u]] = Nil],
         used' = used \ {head[u]}
  PROVE  ListStep
<1> DEFINE q2 == [Queue EXCEPT ![u] = Tail(@)]
<1>1. ListsOf(Queue, head, tail, next, used)
  BY DEF Lists
<1>2. /\ Queue[u] # <<>>
      /\ ListsOf(q2, [head EXCEPT ![u] = next[head[u]]], tail,
                 [next EXCEPT ![head[u]] = Nil], used \ {head[u]})
  BY <1>1, ListTaken
<1>3. ListsOf(q2, head', tail', next', used')
  BY <1>2
<1>4. QueueStep(Queue, q2)
  BY <1>2 DEF QueueStep
<1> QED
  BY <1>3, <1>4, StepTo

LEMMA ListsTailCleared ==
  ASSUME Lists(Queue), NEW u \in Udp, head[u] = Nil, tail' = [tail EXCEPT ![u] = Nil],
         UNCHANGED <<head, next, used>>
  PROVE  ListStep
<1>1. ListsOf(Queue, head, tail, next, used)
  BY DEF Lists
<1>2. ListsOf(Queue, head, [tail EXCEPT ![u] = Nil], next, used)
  BY <1>1, TailCleared
<1>3. ListsOf(Queue, head', tail', next', used')
  BY <1>2
<1>4. QueueStep(Queue, Queue)
  BY DEF QueueStep
<1> QED
  BY <1>3, <1>4, StepTo

LEMMA NextLists ==
  ASSUME Lists(Queue), [Next]_vars
  PROVE  ListStep
<1>1. CASE User
  <2>1. CASE coudp_new_fails \/ coudp_new \/ cofd_bind
    BY <2>1, ListsSame DEF coudp_new_fails, coudp_new, cofd_bind, Attach
  <2>2. ASSUME NEW u \in Udp, coudp_send(u) PROVE ListStep
    <3>1. PICK b \in Buffer : b \notin used /\ _udpbuffer_add(u, b)
      BY <2>2 DEF coudp_send
    <3> QED
      BY <3>1, ListsAdd
  <2>3. ASSUME NEW u \in Udp, NEW force \in BOOLEAN, coudp_close(u, force) PROVE ListStep
    BY <2>3, ListsSame DEF coudp_close
  <2>4. ASSUME NEW o \in Cofd, cofd_unbind(o) \/ cofd_send(o) PROVE ListStep
    BY <2>4, ListsSame DEF cofd_unbind, cofd_send, DetachFd
  <2>5. ASSUME NEW o, NEW fn, coudp_on(o, fn) \/ cofd_on(o, fn) PROVE ListStep
    BY <2>5, ListsSame DEF coudp_on, cofd_on, SetCallback
  <2> QED
    BY <1>1, <2>1, <2>2, <2>3, <2>4, <2>5 DEF User
<1>2. CASE user_returns \/ copoll_wait
  BY <1>2, ListsSame DEF user_returns, copoll_wait
<1>3. ASSUME NEW o \in Object, Handlers(o) PROVE ListStep
  <2>1. CASE _co_close(o)
    <3>1. CASE UNCHANGED sendlist
      BY <3>1, ListsSame
    <3>2. CASE o \in Udp /\ DetachUdp(o)
      BY <3>2, ListsFree DEF DetachUdp
    <3>3. CASE DetachFd(o)
      BY <3>3, ListsSame DEF DetachFd
    <3> QED
      BY <2>1, <3>1, <3>2, <3>3 DEF _co_close
  <2>2. CASE write_fails(o) \/ write_invalid(o) \/ _coios_process_event(o)
    BY <2>2, ListsSame DEF write_fails, write_invalid, _coios_process_event
  <2> QED
    BY <1>3, <2>1, <2>2 DEF Handlers
<1>4. ASSUME NEW u \in Udp, UdpHandlers(u) PROVE ListStep
  <2>1. CASE closing(u) \/ closing_now(u)
    BY <2>1, ListsSame DEF closing, closing_now
  <2>2. CASE _coudp_handle_error(u) \/ _coudp_handle_read(u) \/ datagram_waits(u)
    BY <2>2, ListsSame DEF _coudp_handle_error, HandleError, _coudp_handle_read, HandleRead,
                           datagram_waits
  <2>3. CASE datagram_sent(u)
    BY <2>3, ListsTake DEF datagram_sent
  <2>4. CASE datagrams_done(u)
    <3>1. CASE DetachUdp(u)
      BY <3>1, ListsFree DEF DetachUdp
    <3>2. CASE tail' = [tail EXCEPT ![u] = Nil] /\ UNCHANGED <<head, next, used>>
      BY <2>4, <3>2, ListsTailCleared DEF datagrams_done
    <3> QED
      BY <2>4, <3>1, <3>2 DEF datagrams_done, _coudp_check_closing
  <2> QED
    BY <1>4, <2>1, <2>2, <2>3, <2>4 DEF UdpHandlers, _coudp_handle_write
<1>5. ASSUME NEW o \in Cofd, FdHandlers(o) PROVE ListStep
  BY <1>5, ListsSame
     DEF FdHandlers, _cofd_handle_error, HandleError, _cofd_handle_read, HandleRead,
         _cofd_handle_write, fd_write_some, fd_write_all
<1>6. CASE UNCHANGED vars
  BY <1>6, ListsSame DEF vars
<1> QED
  BY <1>1, <1>2, <1>3, <1>4, <1>5, <1>6 DEF Next
-----------------------------------------------------------------------------
(* What the primitives do to the objects and the poll set.                 *)

LEMMA Objects ==
  /\ Udp \subseteq Object /\ Cofd \subseteq Object /\ Udp \cap Cofd = {}
  /\ NoObject \notin Object /\ Wild \notin Object /\ Wild # NoObject
  /\ \A o \in Object : o \in Udp \/ o \in Cofd
  /\ UserData \subseteq Object \cup {Wild} /\ NoObject \notin UserData
BY IoAssumption DEF Object, Udp, Cofd, NoObject, Wild

\* An object that is not live takes descriptor f, which no live object has.
LEMMA AttachInv ==
  ASSUME ObjectInv, NEW o \in Object, NEW f \in Fd, ~Live(o), ptr[f] = NoObject,
         f \in UserFd <=> o \in Cofd, NEW st \in {1, 2}, Attach(o, f, st),
         udpid' \in 0 .. COUDP_SIZE - 1, fdid' \in 0 .. COFD_SIZE - 1
  PROVE  ObjectInv'
<1> USE DEF ObjectInv, DescriptorInv
<1>1. /\ state' = [state EXCEPT ![o] = st] /\ fd' = [fd EXCEPT ![o] = f]
      /\ opened' = opened \cup {f} /\ ptr' = [ptr EXCEPT ![f] = o]
      /\ fns' = fns /\ sendbuf' = sendbuf /\ pollout' = pollout /\ head' = head
  BY DEF Attach, sendlist
<1>2. ObjectsTypeOK'
  BY <1>1, Objects DEF ObjectsTypeOK
<1>3. /\ state'[o] = st /\ fd'[o] = f /\ Live(o)'
      /\ \A p \in Object \ {o} : fd'[p] = fd[p] /\ state'[p] = state[p] /\ Live(p)' = Live(p)
  BY <1>1 DEF ObjectsTypeOK, Live
<1>4. \A p \in Object \ {o} : Live(p) => fd[p] # f /\ fd[p] \in Fd
  BY Objects DEF Registered, ObjectsTypeOK
<1>5. /\ ptr'[f] = o
      /\ \A g \in Fd \ {f} : ptr'[g] = ptr[g]
  BY <1>1 DEF ObjectsTypeOK
<1>6. Registered'
  BY <1>1, <1>3, <1>4, <1>5 DEF Registered
<1>7. Owned'
  BY <1>3, <1>5 DEF Owned
<1>8. Separate' /\ Lent'
  BY <1>3, <1>4 DEF Separate, Lent
<1>9. OpenMatchesUdp'
  <2>1. CASE o \in Udp
    <3>1. {fd'[u] : u \in {v \in Udp : Live(v)'}} = {fd[u] : u \in {v \in Udp : Live(v)}} \cup {f}
      BY <1>3, <2>1, Objects
    <3> QED
      BY <1>1, <3>1 DEF OpenMatchesUdp
  <2>2. CASE o \in Cofd
    <3>1. {fd'[u] : u \in {v \in Udp : Live(v)'}} = {fd[u] : u \in {v \in Udp : Live(v)}}
      BY <1>3, <2>2, Objects
    <3> QED
      BY <1>1, <2>2, <3>1 DEF OpenMatchesUdp
  <2> QED
    BY <2>1, <2>2, Objects
<1>10. HeadLive' /\ UnsentIsWatched'
  BY <1>1, <1>3, Objects DEF HeadLive, UnsentIsWatched, Live
<1> QED
  BY <1>2, <1>6, <1>7, <1>8, <1>9, <1>10

\* A live object is cleared; a UDP object closes its descriptor.
LEMMA ClearInv ==
  ASSUME ObjectInv, NEW o \in Object, Live(o), Clear(o),
         \/ /\ o \in Udp /\ opened' = opened \ {fd[o]}
            /\ head' = [head EXCEPT ![o] = Nil] /\ sendbuf' = sendbuf
         \/ /\ o \in Cofd /\ opened' = opened
            /\ head' = head /\ sendbuf' = [sendbuf EXCEPT ![o] = 0],
         DOMAIN head = Udp
  PROVE  ObjectInv'
<1> USE DEF ObjectInv, DescriptorInv
<1>1. /\ state' = [state EXCEPT ![o] = COUDP_INVALID] /\ fd' = [fd EXCEPT ![o] = NoFd]
      /\ fns' = [fns EXCEPT ![o] = {}] /\ ptr' = [ptr EXCEPT ![fd[o]] = NoObject]
      /\ pollout' = pollout \ {fd[o]}
      /\ udpid' = udpid /\ fdid' = fdid
  BY DEF Clear
<1>2. fd[o] \in Fd
  BY DEF Registered, ObjectsTypeOK
<1>3. ObjectsTypeOK'
  <2>1. sendbuf' \in [Cofd -> 0 .. MaxSend]
    BY IoAssumption, Objects DEF ObjectsTypeOK
  <2>2. state' \in [Object -> 0 .. 2] /\ fd' \in [Object -> Fd \cup {NoFd}]
    BY <1>1 DEF ObjectsTypeOK
  <2>3. fns' \in [Object -> SUBSET Callbacks] /\ ptr' \in [Fd -> Object \cup {NoObject, Wild}]
    BY <1>1 DEF ObjectsTypeOK
  <2>4. opened' \subseteq Fd /\ pollout' \subseteq Fd
    BY <1>1 DEF ObjectsTypeOK
  <2> QED
    BY <1>1, <2>1, <2>2, <2>3, <2>4 DEF ObjectsTypeOK
<1>4. /\ ~Live(o)'
      /\ \A p \in Object \ {o} : fd'[p] = fd[p] /\ state'[p] = state[p] /\ Live(p)' = Live(p)
  BY <1>1 DEF ObjectsTypeOK, Live
<1>5. \A p \in Object \ {o} : Live(p) => fd[p] # fd[o] /\ fd[p] \in Fd
  BY DEF Separate, Registered, ObjectsTypeOK
<1>6. /\ ptr'[fd[o]] = NoObject
      /\ \A g \in Fd \ {fd[o]} : ptr'[g] = ptr[g]
  BY <1>1, <1>2 DEF ObjectsTypeOK
<1>7. Registered'
  BY <1>4, <1>5, <1>6 DEF Registered
<1>8. Owned'
  BY <1>4, <1>6 DEF Owned
<1>9. Separate' /\ Lent'
  BY <1>4 DEF Separate, Lent
<1>10. OpenMatchesUdp'
  <2>1. CASE o \in Udp
    <3>1. {fd'[u] : u \in {v \in Udp : Live(v)'}}
            = {fd[u] : u \in {v \in Udp : Live(v)}} \ {fd[o]}
      BY <1>4, <1>5, <2>1, Objects
    <3>2. fd[o] \notin UserFd /\ opened' = opened \ {fd[o]}
      BY <2>1, Objects DEF Lent
    <3> QED
      BY <3>1, <3>2 DEF OpenMatchesUdp
  <2>2. CASE o \in Cofd
    <3>1. {fd'[u] : u \in {v \in Udp : Live(v)'}} = {fd[u] : u \in {v \in Udp : Live(v)}}
      BY <1>4, <2>2, Objects
    <3> QED
      BY <2>2, <3>1, Objects DEF OpenMatchesUdp
  <2> QED
    BY <2>1, <2>2, Objects
<1>11. HeadLive' /\ UnsentIsWatched'
  <2>1. /\ \A u \in Udp : head'[u] # Nil => u # o /\ head[u] # Nil
        /\ \A p \in Cofd : sendbuf'[p] > 0 => p # o /\ sendbuf[p] > 0
    <3>1. \A p \in Cofd : sendbuf'[p] > 0 => p # o /\ sendbuf[p] > 0
      BY Objects DEF ObjectsTypeOK
    <3> QED
      BY <3>1, Objects
  <2>2. \A u \in Udp : head'[u] # Nil => Live(u)' /\ fd'[u] \in pollout'
    BY <1>1, <1>4, <1>5, <2>1, Objects DEF HeadLive, UnsentIsWatched
  <2>3. \A p \in Cofd : sendbuf'[p] > 0 => state'[p] = COFD_BIND /\ fd'[p] \in pollout'
    BY <1>1, <1>4, <1>5, <2>1, Objects DEF UnsentIsWatched, Live
  <2> QED
    BY <2>2, <2>3 DEF HeadLive, UnsentIsWatched
<1> QED
  BY <1>3, <1>7, <1>8, <1>9, <1>10, <1>11

\* The data of one live object and its interest in writing change.
WatchStep(o) ==
  /\ \/ pollout' = pollout \cup {fd[o]}
     \/ pollout' = pollout
     \/ pollout' = pollout \ {fd[o]}
  /\ \/ ptr' = ptr
     \/ o \in Cofd /\ \E ud \in UserData : ptr' = [ptr EXCEPT ![fd[o]] = ud]
  /\ \A u \in Udp \ {o} : head'[u] = head[u]
  /\ \A p \in Cofd \ {o} : sendbuf'[p] = sendbuf[p]
  /\ o \in Udp /\ head'[o] # Nil => fd[o] \in pollout'
  /\ o \in Cofd /\ sendbuf'[o] > 0 => state[o] = COFD_BIND /\ fd[o] \in pollout'
  /\ sendbuf' \in [Cofd -> 0 .. MaxSend]
  /\ UNCHANGED <<state, fd, fns, udpid, fdid, opened>>

LEMMA WatchInv ==
  ASSUME ObjectInv, NEW o \in Object, Live(o), WatchStep(o)
  PROVE  ObjectInv'
<1> USE DEF ObjectInv, DescriptorInv, WatchStep
<1>1. fd[o] \in Fd
  BY DEF Registered, ObjectsTypeOK
<1>2. \A p \in Object : Live(p)' = Live(p) /\ fd'[p] = fd[p]
  BY DEF Live
<1>3. \A p \in Object \ {o} : Live(p) => fd[p] # fd[o] /\ fd[p] \in Fd
  BY DEF Separate, Registered, ObjectsTypeOK
<1>4. ObjectsTypeOK'
  <2>1. pollout' \subseteq Fd
    BY <1>1 DEF ObjectsTypeOK
  <2>2. ptr' \in [Fd -> Object \cup {NoObject, Wild}]
    BY <1>1, Objects DEF ObjectsTypeOK
  <2> QED
    BY <2>1, <2>2 DEF ObjectsTypeOK
<1>5. Registered'
  <2> SUFFICES ASSUME NEW p \in Object, Live(p)
               PROVE  /\ fd[p] \in opened
                      /\ ptr'[fd[p]] = p \/ (p \in Cofd /\ ptr'[fd[p]] \in UserData)
    BY <1>2 DEF Registered
  <2>1. CASE ptr' = ptr
    BY <2>1 DEF Registered
  <2>2. CASE o \in Cofd /\ \E ud \in UserData : ptr' = [ptr EXCEPT ![fd[o]] = ud]
    BY <1>1, <1>3, <2>2, IoAssumption DEF Registered, ObjectsTypeOK
  <2> QED
    BY <2>1, <2>2
<1>6. Owned'
  BY <1>1, <1>2 DEF Owned, ObjectsTypeOK
<1>7. Separate' /\ Lent'
  BY <1>2 DEF Separate, Lent
<1>8. OpenMatchesUdp'
  BY <1>2, Objects DEF OpenMatchesUdp, Live
<1>9. HeadLive' /\ UnsentIsWatched'
  <2>1. \A u \in Udp : head'[u] # Nil => Live(u)' /\ fd'[u] \in pollout'
    BY <1>2, <1>3, Objects DEF HeadLive, UnsentIsWatched
  <2>2. \A p \in Cofd : sendbuf'[p] > 0 => state'[p] = COFD_BIND /\ fd'[p] \in pollout'
    <3> SUFFICES ASSUME NEW p \in Cofd, sendbuf'[p] > 0
                 PROVE  state'[p] = COFD_BIND /\ fd'[p] \in pollout'
      OBVIOUS
    <3>1. CASE p = o
      BY <3>1
    <3>2. CASE p # o
      <4>1. state[p] = COFD_BIND /\ fd[p] \in pollout
        BY <3>2 DEF UnsentIsWatched
      <4>2. fd[p] # fd[o]
        BY <1>3, <3>2, <4>1, Objects DEF Live
      <4> QED
        BY <4>1, <4>2
    <3> QED
      BY <3>1, <3>2
  <2> QED
    BY <2>1, <2>2 DEF HeadLive, UnsentIsWatched
<1> QED
  BY <1>4, <1>5, <1>6, <1>7, <1>8, <1>9

\* Nothing that ObjectInv speaks of changed.
LEMMA ObjectsSame ==
  ASSUME ObjectInv, UNCHANGED <<pools, head, sendbuf, kernel>>
  PROVE  ObjectInv'
BY DEF ObjectInv, DescriptorInv, ObjectsTypeOK, Registered, Owned, Separate, Lent,
       OpenMatchesUdp, HeadLive, UnsentIsWatched, Live, pools, kernel
LEMMA InitInv == Init => IInv
<1> SUFFICES ASSUME Init PROVE IInv
  OBVIOUS
<1>1. ObjectInv
  <2>1. ObjectsTypeOK
    BY IoAssumption DEF Init, ObjectsTypeOK, Fd, NoObject
  <2>2. \A o \in Object : ~Live(o)
    BY DEF Init, Live
  <2>3. Registered /\ Owned /\ Separate /\ Lent /\ HeadLive
    BY <2>2 DEF Init, Registered, Owned, Separate, Lent, HeadLive
  <2>4. OpenMatchesUdp
    BY <2>2, Objects DEF Init, OpenMatchesUdp
  <2>5. UnsentIsWatched
    BY DEF Init, UnsentIsWatched
  <2> QED
    BY <2>1, <2>3, <2>4, <2>5 DEF ObjectInv, DescriptorInv
<1>2. CallsTypeOK
  BY DEF Init, CallsTypeOK
<1>3. Lists(Queue)
  <2> DEFINE q == [u \in Udp |-> <<>>]
  <2>1. \A u \in Udp : q[u] = <<>> /\ Range(q[u]) = {}
    BY DEF Range
  <2>2. q \in [Udp -> Seq(Buffer)]
    OBVIOUS
  <2> HIDE DEF q
  <2>3. \A u \in Udp : IsList(q[u], head[u], tail[u], next)
    BY <2>1 DEF Init, IsList
  <2>4. ListsOf(q, head, tail, next, used)
    BY <2>1, <2>2, <2>3 DEF Init, ListsOf
  <2>5. Queue = [u \in Udp |-> ChainOf(next, head[u])]
    BY DEF Queue, Chain, ChainOf
  <2>6. Queue = q
    BY <2>4, <2>5, QueueUnique
  <2> QED
    BY <2>4, <2>6 DEF Lists
<1>4. ClosingHasData
  BY Objects DEF Init, ClosingHasData
<1> QED
  BY <1>1, <1>2, <1>3, <1>4 DEF IInv

\* A descriptor that is not open is the user's neither, and it is not registered.
LEMMA OpensNew ==
  ASSUME ObjectInv, NEW f \in Fd, Opens(f)
  PROVE  f \notin UserFd /\ ptr[f] = NoObject
<1>1. f \notin opened
  BY DEF Opens
<1>2. f \notin UserFd
  BY <1>1 DEF ObjectInv, DescriptorInv, OpenMatchesUdp
<1> QED
  BY <1>1, <1>2 DEF ObjectInv, DescriptorInv, Registered, Owned

LEMMA DetachUdpInv ==
  ASSUME ObjectInv, Lists(Queue), NEW u \in Udp, Live(u), DetachUdp(u)
  PROVE  ObjectInv'
<1>1. DOMAIN head = Udp
  BY DEF Lists, ListsOf
<1> QED
  BY <1>1, ClearInv, Objects DEF DetachUdp, _udpbuffer_free

LEMMA DetachFdInv ==
  ASSUME ObjectInv, Lists(Queue), NEW o \in Cofd, Live(o), DetachFd(o)
  PROVE  ObjectInv'
<1>1. DOMAIN head = Udp
  BY DEF Lists, ListsOf
<1> QED
  BY <1>1, ClearInv, Objects DEF DetachFd, sendlist

LEMMA UserObjects ==
  ASSUME ObjectInv, Lists(Queue), User
  PROVE  ObjectInv'
<1>t. /\ ObjectsTypeOK /\ Udp \subseteq Object /\ Cofd \subseteq Object /\ DOMAIN head = Udp
      /\ \A i \in Int : i % COUDP_SIZE \in 0 .. COUDP_SIZE - 1 /\ i % COFD_SIZE \in 0 .. COFD_SIZE - 1
  BY Objects, IoAssumption DEF ObjectInv, DescriptorInv, Lists, ListsOf
<1>1. CASE coudp_new_fails
  <2>1. PICK u \in Udp : udpid' = (u + 1) % COUDP_SIZE
    BY <1>1 DEF coudp_new_fails
  <2>2. UNCHANGED <<state, fd, fns, fdid, head, sendbuf, kernel>>
    BY <1>1 DEF coudp_new_fails, sendlist
  <2>3. udpid' \in 0 .. COUDP_SIZE - 1
    BY <1>t, <2>1 DEF Udp
  <2> QED
    BY <2>2, <2>3 DEF ObjectInv, DescriptorInv, ObjectsTypeOK, Registered, Owned, Separate,
       Lent, OpenMatchesUdp, HeadLive, UnsentIsWatched, Live, kernel
<1>2. CASE coudp_new
  <2>1. PICK u \in Udp, f \in Fd :
          /\ _coudp_alloc(u) /\ Opens(f) /\ Attach(u, f, COUDP_NEW)
          /\ udpid' = (u + 1) % COUDP_SIZE /\ fdid' = fdid
    BY <1>2 DEF coudp_new
  <2>2. ~Live(u) /\ u \in Object /\ u \notin Cofd /\ COUDP_NEW \in {1, 2}
    BY <2>1, Objects DEF _coudp_alloc
  <2>3. f \notin UserFd /\ ptr[f] = NoObject
    BY <2>1, OpensNew
  <2>4. udpid' \in 0 .. COUDP_SIZE - 1 /\ fdid' \in 0 .. COFD_SIZE - 1
    BY <1>t, <2>1 DEF Udp, ObjectsTypeOK
  <2> QED
    BY <2>1, <2>2, <2>3, <2>4, AttachInv
<1>3. CASE cofd_bind
  <2>1. PICK o \in Cofd, f \in UserFd :
          /\ _cofd_alloc(o) /\ ptr[f] = NoObject /\ Attach(o, f, COFD_BIND)
          /\ fdid' = (o - COUDP_SIZE + 1) % COFD_SIZE /\ udpid' = udpid
    BY <1>3 DEF cofd_bind
  <2>2. ~Live(o) /\ o \in Object /\ f \in Fd /\ COFD_BIND \in {1, 2}
    BY <2>1, Objects, IoAssumption DEF _cofd_alloc, Fd
  <2>3. udpid' \in 0 .. COUDP_SIZE - 1 /\ fdid' \in 0 .. COFD_SIZE - 1
    <3>1. o - COUDP_SIZE + 1 \in Int
      BY IoAssumption DEF Cofd
    <3> QED
      BY <1>t, <2>1, <3>1 DEF ObjectsTypeOK
  <2> QED
    BY <2>1, <2>2, <2>3, AttachInv
<1>4. ASSUME NEW u \in Udp, coudp_send(u) PROVE ObjectInv'
  <2>1. /\ Live(u) /\ pollout' = pollout \cup {fd[u]}
        /\ UNCHANGED <<pools, sendbuf, opened, ptr>>
    BY <1>4 DEF coudp_send, Live
  <2>2. PICK b \in Buffer : _udpbuffer_add(u, b)
    BY <1>4 DEF coudp_send
  <2>3. \A v \in Udp \ {u} : head'[v] = head[v]
    BY <1>t, <2>2 DEF _udpbuffer_add
  <2>4. WatchStep(u)
    BY <1>t, <2>1, <2>3, Objects DEF WatchStep, pools, ObjectsTypeOK
  <2> QED
    BY <1>t, <2>1, <2>4, WatchInv
<1>5. ASSUME NEW u \in Udp, NEW force \in BOOLEAN, coudp_close(u, force) PROVE ObjectInv'
  BY <1>5, ObjectsSame DEF coudp_close, sendlist
<1>6. ASSUME NEW o \in Cofd, cofd_unbind(o) PROVE ObjectInv'
  BY <1>6, DetachFdInv DEF cofd_unbind, Live
<1>7. ASSUME NEW o \in Cofd, cofd_send(o) PROVE ObjectInv'
  <2>1. /\ Live(o) /\ state[o] = COFD_BIND /\ sendbuf[o] < MaxSend
        /\ sendbuf' = [sendbuf EXCEPT ![o] = @ + 1]
        /\ pollout' = pollout \cup {fd[o]}
        /\ head' = head /\ UNCHANGED <<state, fd, fns, udpid, fdid, opened>>
    BY <1>7 DEF cofd_send, Live, RequestWrite, sendlist, pools
  <2>5. \E ud \in UserData : ptr' = [ptr EXCEPT ![fd[o]] = ud]
    BY <1>7, Zenon DEF cofd_send, RequestWrite
  <2>2. sendbuf' \in [Cofd -> 0 .. MaxSend]
    <3>1. sendbuf[o] + 1 \in 0 .. MaxSend
      <4>1. sendbuf[o] \in 0 .. MaxSend /\ MaxSend \in Nat
        BY <1>t, IoAssumption DEF ObjectsTypeOK
      <4> QED
        BY <2>1, <4>1
    <3> QED
      BY <1>t, <2>1, <3>1 DEF ObjectsTypeOK
  <2>3. \A p \in Cofd \ {o} : sendbuf'[p] = sendbuf[p]
    BY <1>t, <2>1 DEF ObjectsTypeOK
  <2>4. WatchStep(o)
    BY <2>1, <2>2, <2>3, <2>5, Objects DEF WatchStep
  <2> QED
    BY <1>t, <2>1, <2>4, WatchInv
<1>8. ASSUME NEW o \in Object, NEW fn \in Callbacks, SetCallback(o, fn) PROVE ObjectInv'
  <2>1. /\ fns' = [fns EXCEPT ![o] = @ \cup {fn}]
        /\ UNCHANGED <<state, fd, udpid, fdid, head, sendbuf, kernel>>
    BY <1>8 DEF SetCallback, sendlist
  <2>2. fns' \in [Object -> SUBSET Callbacks]
    BY <1>t, <2>1 DEF ObjectsTypeOK
  <2> QED
    BY <2>1, <2>2 DEF ObjectInv, DescriptorInv, ObjectsTypeOK, Registered, Owned, Separate,
       Lent, OpenMatchesUdp, HeadLive, UnsentIsWatched, Live, kernel
<1> QED
  BY <1>t, <1>1, <1>2, <1>3, <1>4, <1>5, <1>6, <1>7, <1>8 DEF User, coudp_on, cofd_on

LEMMA NextObjects ==
  ASSUME ObjectInv, Lists(Queue), [Next]_vars
  PROVE  ObjectInv'
<1>t. /\ ObjectsTypeOK /\ Udp \subseteq Object /\ Cofd \subseteq Object
      /\ head \in [Udp -> Buffer \cup {Nil}]
  BY Objects DEF ObjectInv, DescriptorInv, Lists, ListsOf
<1>1. CASE User
  BY <1>1, UserObjects
<1>2. CASE user_returns \/ copoll_wait
  BY <1>2, ObjectsSame DEF user_returns, copoll_wait, sendlist
<1>3. ASSUME NEW o \in Object, Handlers(o) PROVE ObjectInv'
  <2>1. CASE _co_close(o)
    <3>1. CASE ~Live(o)
      BY <2>1, <3>1, ObjectsSame DEF _co_close, sendlist
    <3>2. CASE Live(o) /\ o \in Udp
      BY <2>1, <3>2, DetachUdpInv DEF _co_close
    <3>3. CASE Live(o) /\ o \notin Udp
      BY <2>1, <3>3, DetachFdInv, Objects DEF _co_close
    <3> QED
      BY <3>1, <3>2, <3>3
  <2>2. CASE write_fails(o) \/ write_invalid(o) \/ _coios_process_event(o)
    BY <2>2, ObjectsSame DEF write_fails, write_invalid, _coios_process_event, sendlist
  <2> QED
    BY <1>3, <2>1, <2>2 DEF Handlers
<1>4. ASSUME NEW u \in Udp, UdpHandlers(u) PROVE ObjectInv'
  <2>1. CASE closing(u)
    <3>1. /\ state' = [state EXCEPT ![u] = COUDP_CLOSING] /\ Live(u)
          /\ UNCHANGED <<fd, fns, udpid, fdid, head, sendbuf, kernel>>
      BY <2>1 DEF closing, sendlist, ObjectInv, HeadLive
    <3>2. /\ \A o \in Object : Live(o)' = Live(o)
          /\ \A o \in Cofd : state'[o] = state[o]
          /\ state' \in [Object -> 0 .. 2]
      BY <1>t, <3>1, Objects DEF ObjectsTypeOK, Live
    <3>3. DescriptorInv'
      BY <1>t, <3>1, <3>2 DEF ObjectInv, DescriptorInv, ObjectsTypeOK, Registered, Owned,
         Separate, Lent, OpenMatchesUdp, kernel
    <3>4. HeadLive' /\ UnsentIsWatched'
      BY <1>t, <3>1, <3>2 DEF ObjectInv, HeadLive, UnsentIsWatched, kernel
    <3> QED
      BY <3>3, <3>4 DEF ObjectInv
  <2>2. CASE closing_now(u)
    BY <2>2, ObjectsSame DEF closing_now, sendlist
  <2>3. CASE _coudp_handle_error(u) \/ _coudp_handle_read(u) \/ datagram_waits(u)
    BY <2>3, ObjectsSame DEF _coudp_handle_error, HandleError, _coudp_handle_read,
                             HandleRead, datagram_waits, sendlist
  <2>4. CASE datagram_sent(u)
    <3>1. /\ Live(u) /\ head' = [head EXCEPT ![u] = next[head[u]]] /\ head[u] # Nil
          /\ UNCHANGED <<pools, sendbuf, kernel>>
      BY <2>4 DEF datagram_sent
    <3>2. fd[u] \in pollout
      BY <3>1 DEF ObjectInv, UnsentIsWatched
    <3>3. WatchStep(u)
      BY <1>t, <3>1, <3>2, Objects DEF WatchStep, pools, kernel, ObjectsTypeOK
    <3> QED
      BY <1>t, <3>1, <3>3, WatchInv
  <2>5. CASE datagrams_done(u)
    <3>1. Live(u) /\ head[u] = Nil /\ _coudp_check_closing(u)
      BY <2>5 DEF datagrams_done
    <3>2. CASE state[u] = COUDP_CLOSING
      BY <3>1, <3>2, DetachUdpInv DEF _coudp_check_closing
    <3>3. CASE state[u] # COUDP_CLOSING
      <4>1. /\ pollout' = pollout \ {fd[u]}
            /\ UNCHANGED <<pools, head, sendbuf, opened, ptr>>
        BY <3>1, <3>3 DEF _coudp_check_closing
      <4>2. WatchStep(u)
        BY <1>t, <3>1, <4>1, Objects DEF WatchStep, pools, ObjectsTypeOK
      <4> QED
        BY <1>t, <3>1, <4>2, WatchInv
    <3> QED
      BY <3>2, <3>3
  <2> QED
    BY <1>4, <2>1, <2>2, <2>3, <2>4, <2>5 DEF UdpHandlers, _coudp_handle_write
<1>5. ASSUME NEW o \in Cofd, FdHandlers(o) PROVE ObjectInv'
  <2>1. CASE _cofd_handle_error(o) \/ _cofd_handle_read(o)
    BY <2>1, ObjectsSame DEF _cofd_handle_error, HandleError, _cofd_handle_read, HandleRead,
                             sendlist
  <2>2. CASE fd_write_some(o)
    <3>1. PICK n \in 1 .. sendbuf[o] : sendbuf' = [sendbuf EXCEPT ![o] = n]
      BY <2>2 DEF fd_write_some
    <3>2. /\ sendbuf[o] > 0 /\ head' = head /\ UNCHANGED <<pools, kernel>>
      BY <2>2 DEF fd_write_some, sendlist
    <3>3. state[o] = COFD_BIND /\ fd[o] \in pollout
      BY <3>2 DEF ObjectInv, UnsentIsWatched
    <3>4. n \in 0 .. MaxSend
      BY <1>t, IoAssumption DEF ObjectsTypeOK
    <3>5. sendbuf' \in [Cofd -> 0 .. MaxSend] /\ \A p \in Cofd \ {o} : sendbuf'[p] = sendbuf[p]
      BY <1>t, <3>1, <3>4 DEF ObjectsTypeOK
    <3>6. WatchStep(o)
      BY <3>2, <3>3, <3>5, Objects DEF WatchStep, pools, kernel
    <3>7. Live(o)
      BY <3>3 DEF Live
    <3> QED
      BY <1>t, <3>6, <3>7, WatchInv
  <2>3. CASE fd_write_all(o)
    <3>1. /\ Live(o) /\ sendbuf' = [sendbuf EXCEPT ![o] = 0] /\ head' = head
          /\ pollout' = pollout \ {fd[o]}
          /\ \E ud \in UserData : ptr' = [ptr EXCEPT ![fd[o]] = ud]
          /\ UNCHANGED <<pools, opened>>
      BY <2>3 DEF fd_write_all, RequestWrite, sendlist
    <3>2. /\ sendbuf' \in [Cofd -> 0 .. MaxSend] /\ ~(sendbuf'[o] > 0)
          /\ \A p \in Cofd \ {o} : sendbuf'[p] = sendbuf[p]
      BY <1>t, <3>1, IoAssumption DEF ObjectsTypeOK
    <3>3. WatchStep(o)
      BY <3>1, <3>2, Objects DEF WatchStep, pools
    <3> QED
      BY <1>t, <3>1, <3>3, WatchInv
  <2> QED
    BY <1>5, <2>1, <2>2, <2>3 DEF FdHandlers, _cofd_handle_write
<1>6. CASE UNCHANGED vars
  BY <1>6, ObjectsSame DEF vars, sendlist
<1> QED
  BY <1>1, <1>2, <1>3, <1>4, <1>5, <1>6 DEF Next
-----------------------------------------------------------------------------
(* The call stack, the batch and the sockets that are being closed.        *)

WriteOf(u) == [op |-> "write", o |-> u]

\* The invariants about the stack hold again.
StackStep == CallsTypeOK' /\ ClosingHasData'

\* The sockets that are closing were, and have data if they had.
ClosingOld ==
  \A u \in Udp : state'[u] = COUDP_CLOSING =>
    state[u] = COUDP_CLOSING /\ (head[u] # Nil => head'[u] # Nil)

LEMMA CallType ==
  ASSUME NEW op \in Work, NEW o \in Object
  PROVE  Call(op, o) \in Seq(Frame)
BY DEF Call, Frame

LEMMA NotifyType ==
  ASSUME NEW fn, NEW o \in Object
  PROVE  Notify(fn, o) \in Seq(Frame)
<1>1. "callback" \in Work
  BY DEF Work
<1>2. Call("callback", o) \in Seq(Frame) /\ <<>> \in Seq(Frame)
  BY <1>1, CallType
<1> QED
  BY <1>2 DEF Notify

\* Calls are made on top of the stack.
LEMMA Pushed ==
  ASSUME CallsTypeOK, ClosingHasData, NEW calls \in Seq(Frame), agenda' = calls \o agenda,
         events' = events, ClosingOld
  PROVE  StackStep
<1>1. agenda \in Seq(Frame)
  BY DEF CallsTypeOK
<1>2. CallsTypeOK'
  BY <1>1 DEF CallsTypeOK
<1>3. \A i \in DOMAIN agenda : \E j \in DOMAIN agenda' : agenda'[j] = agenda[i]
  <2> SUFFICES ASSUME NEW i \in DOMAIN agenda
               PROVE  \E j \in DOMAIN agenda' : agenda'[j] = agenda[i]
    OBVIOUS
  <2>1. i \in 1 .. Len(agenda) /\ Len(agenda) \in Nat /\ Len(calls) \in Nat
    BY <1>1
  <2>2. /\ Len(agenda') = Len(calls) + Len(agenda) /\ DOMAIN agenda' = 1 .. Len(agenda')
        /\ \A k \in 1 .. Len(calls) + Len(agenda) :
             agenda'[k] = IF k <= Len(calls) THEN calls[k] ELSE agenda[k - Len(calls)]
    BY <1>1, ConcatProperties
  <2>3. /\ i + Len(calls) \in 1 .. Len(calls) + Len(agenda)
        /\ ~(i + Len(calls) <= Len(calls)) /\ i + Len(calls) - Len(calls) = i
    BY <2>1
  <2>4. agenda'[i + Len(calls)] = agenda[i]
    BY <2>2, <2>3
  <2> QED
    BY <2>2, <2>3, <2>4
<1>4. ClosingHasData'
  <2> SUFFICES ASSUME NEW u \in Udp, state'[u] = COUDP_CLOSING, head'[u] = Nil
               PROVE  \E j \in DOMAIN agenda' : agenda'[j] = WriteOf(u)
    BY DEF ClosingHasData, WriteOf
  <2>1. state[u] = COUDP_CLOSING /\ head[u] = Nil
    BY DEF ClosingOld
  <2>2. PICK i \in DOMAIN agenda : agenda[i] = WriteOf(u)
    BY <2>1 DEF ClosingHasData, WriteOf
  <2> QED
    BY <1>3, <2>2
<1> QED
  BY <1>2, <1>4 DEF StackStep

LEMMA StackSame ==
  ASSUME CallsTypeOK, ClosingHasData, UNCHANGED <<agenda, events>>, ClosingOld
  PROVE  StackStep
BY DEF CallsTypeOK, ClosingHasData, ClosingOld, StackStep

\* The first frame is replaced by calls.
LEMMA Popped ==
  ASSUME CallsTypeOK, ClosingHasData, agenda # <<>>, NEW calls \in Seq(Frame), Then(calls),
         events' = events,
         \A u \in Udp : state'[u] = COUDP_CLOSING =>
           \/ head'[u] # Nil
           \/ state[u] = COUDP_CLOSING /\ head[u] = Nil /\ Head(agenda) # WriteOf(u)
  PROVE  StackStep
<1>1. agenda \in Seq(Frame) /\ agenda' = calls \o Tail(agenda)
  BY DEF CallsTypeOK, Then
<1>2. /\ Tail(agenda) \in Seq(Frame) /\ Len(Tail(agenda)) = Len(agenda) - 1
      /\ \A i \in 1 .. Len(Tail(agenda)) : Tail(agenda)[i] = agenda[i + 1]
  BY <1>1, HeadTailProperties
<1>3. CallsTypeOK'
  BY <1>1, <1>2 DEF CallsTypeOK
<1>4. ASSUME NEW i \in DOMAIN agenda, agenda[i] # Head(agenda)
      PROVE  \E j \in DOMAIN agenda' : agenda'[j] = agenda[i]
  <2>1. /\ i \in 1 .. Len(agenda) /\ Len(agenda) \in Nat /\ Len(calls) \in Nat /\ i # 1
    BY <1>1, <1>4
  <2> DEFINE t == Tail(agenda)
             j == i - 1 + Len(calls)
  <2>2. /\ Len(agenda') = Len(calls) + Len(t) /\ DOMAIN agenda' = 1 .. Len(agenda')
        /\ \A k \in 1 .. Len(calls) + Len(t) :
             agenda'[k] = IF k <= Len(calls) THEN calls[k] ELSE t[k - Len(calls)]
    BY <1>1, <1>2, ConcatProperties
  <2>3. /\ j \in 1 .. Len(calls) + Len(t) /\ ~(j <= Len(calls)) /\ j - Len(calls) = i - 1
        /\ i - 1 \in 1 .. Len(t) /\ i - 1 + 1 = i
    BY <1>2, <2>1
  <2>4. agenda'[j] = agenda[i]
    BY <1>2, <2>2, <2>3
  <2> QED
    BY <2>2, <2>3, <2>4
<1>5. ClosingHasData'
  <2> SUFFICES ASSUME NEW u \in Udp, state'[u] = COUDP_CLOSING, head'[u] = Nil
               PROVE  \E j \in DOMAIN agenda' : agenda'[j] = WriteOf(u)
    BY DEF ClosingHasData, WriteOf
  <2>1. state[u] = COUDP_CLOSING /\ head[u] = Nil /\ Head(agenda) # WriteOf(u)
    OBVIOUS
  <2>2. PICK i \in DOMAIN agenda : agenda[i] = WriteOf(u)
    BY <2>1 DEF ClosingHasData, WriteOf
  <2> QED
    BY <1>4, <2>1, <2>2
<1> QED
  BY <1>3, <1>5 DEF StackStep

\* Two frames are equal only if they do the same on the same object.
LEMMA FramesDiffer ==
  \A op, o, u : [op |-> op, o |-> o] = WriteOf(u) => op = "write" /\ o = u
<1> SUFFICES ASSUME NEW op, NEW o, NEW u, [op |-> op, o |-> o] = WriteOf(u)
             PROVE  op = "write" /\ o = u
  OBVIOUS
<1>1. [op |-> op, o |-> o].op = op /\ [op |-> op, o |-> o].o = o
  OBVIOUS
<1>2. WriteOf(u).op = "write" /\ WriteOf(u).o = u
  BY DEF WriteOf
<1> QED
  BY <1>1, <1>2

LEMMA DoingOther ==
  ASSUME NEW op, NEW o, Doing(op, o), NEW u, op # "write" \/ o # u
  PROVE  Head(agenda) # WriteOf(u)
<1>1. Head(agenda) = [op |-> op, o |-> o]
  BY DEF Doing
<1> SUFFICES ASSUME Head(agenda) = WriteOf(u) PROVE FALSE
  OBVIOUS
<1>2. [op |-> op, o |-> o] = WriteOf(u)
  BY <1>1
<1> QED
  BY <1>2, FramesDiffer

\* The thread does op on o, which makes calls and leaves states and lists alone.
LEMMA Called ==
  ASSUME CallsTypeOK, ClosingHasData, NEW op, NEW o \in Object, Doing(op, o),
         NEW calls \in Seq(Frame), Then(calls), UNCHANGED <<state, head, events>>,
         op = "write" /\ o \in Udp => state[o] # COUDP_CLOSING \/ head[o] # Nil
  PROVE  StackStep
<1>1. agenda # <<>> /\ Head(agenda) = [op |-> op, o |-> o]
  BY DEF Doing
<1>2. \A u \in Udp : state'[u] = COUDP_CLOSING =>
           \/ head'[u] # Nil
           \/ state[u] = COUDP_CLOSING /\ head[u] = Nil /\ Head(agenda) # WriteOf(u)
  <2>1. \A u : op # "write" \/ o # u => Head(agenda) # WriteOf(u)
    BY DoingOther
  <2> QED
    BY <2>1
<1> QED
  BY <1>1, <1>2, Popped

\* Of a frame that is no write.
LEMMA CalledOther ==
  ASSUME CallsTypeOK, ClosingHasData, NEW op, op # "write", NEW o \in Object, Doing(op, o),
         NEW calls \in Seq(Frame), Then(calls), UNCHANGED <<state, head, events>>
  PROVE  StackStep
BY Called

\* It returns from one that closed o.
LEMMA Closed ==
  ASSUME CallsTypeOK, ClosingHasData, ObjectInv, Lists(Queue), NEW op, NEW o \in Object,
         Doing(op, o), Return,
         (DetachUdp(o) /\ o \in Udp) \/ (DetachFd(o) /\ o \in Cofd)
  PROVE  StackStep
<1>1. agenda # <<>> /\ Head(agenda) = [op |-> op, o |-> o]
  BY DEF Doing
<1>2. state \in [Object -> 0 .. 2] /\ head \in [Udp -> Buffer \cup {Nil}]
  BY DEF ObjectInv, DescriptorInv, ObjectsTypeOK, Lists, ListsOf
<1>3. /\ state' = [state EXCEPT ![o] = COUDP_INVALID] /\ events' = events
      /\ \/ o \in Udp /\ head' = [head EXCEPT ![o] = Nil]
         \/ o \notin Udp /\ head' = head
  BY Objects DEF DetachUdp, DetachFd, Clear, _udpbuffer_free, sendlist
<1>4. \A u \in Udp : state'[u] = COUDP_CLOSING =>
           \/ head'[u] # Nil
           \/ state[u] = COUDP_CLOSING /\ head[u] = Nil /\ Head(agenda) # WriteOf(u)
  <2> SUFFICES ASSUME NEW u \in Udp, state'[u] = COUDP_CLOSING
               PROVE  \/ head'[u] # Nil
                      \/ state[u] = COUDP_CLOSING /\ head[u] = Nil /\ Head(agenda) # WriteOf(u)
    OBVIOUS
  <2>1. u # o /\ state[u] = COUDP_CLOSING /\ head'[u] = head[u]
    BY <1>2, <1>3, Objects
  <2>2. Head(agenda) # WriteOf(u)
    BY <2>1, DoingOther
  <2> QED
    BY <2>1, <2>2
<1>5. <<>> \in Seq(Frame) /\ Then(<<>>)
  BY DEF Return
<1> QED
  BY <1>1, <1>3, <1>4, <1>5, Popped
LEMMA UserStack ==
  ASSUME CallsTypeOK, ClosingHasData, ObjectInv, Lists(Queue), User
  PROVE  StackStep
<1>t. /\ state \in [Object -> 0 .. 2] /\ head \in [Udp -> Buffer \cup {Nil}]
      /\ Udp \subseteq Object /\ Cofd \subseteq Object
  BY Objects DEF ObjectInv, DescriptorInv, ObjectsTypeOK, Lists, ListsOf
<1>w. {"read", "write", "error", "close", "closing", "closing_force", "callback"} = Work
  BY DEF Work
<1>e. <<>> \in Seq(Frame)
  OBVIOUS
<1>1. CASE coudp_new_fails
  BY <1>1, StackSame DEF coudp_new_fails, ClosingOld, sendlist
<1>2. ASSUME NEW o \in Object, NEW f, NEW st, ~Live(o), Attach(o, f, st),
             o \in Udp => st = COUDP_NEW
      PROVE  StackStep
  <2>1. /\ state' = [state EXCEPT ![o] = st] /\ head' = head
        /\ UNCHANGED <<agenda, events>>
    BY <1>2 DEF Attach, sendlist
  <2>2. ClosingOld
    BY <1>2, <1>t, <2>1 DEF ClosingOld
  <2> QED
    BY <2>1, <2>2, StackSame
<1>3. CASE coudp_new
  <2>1. PICK u \in Udp, f \in Fd : _coudp_alloc(u) /\ Attach(u, f, COUDP_NEW)
    BY <1>3 DEF coudp_new
  <2> QED
    BY <1>t, <1>2, <2>1 DEF _coudp_alloc
<1>4. CASE cofd_bind
  <2>1. PICK o \in Cofd, f \in UserFd : _cofd_alloc(o) /\ Attach(o, f, COFD_BIND)
    BY <1>4 DEF cofd_bind
  <2> QED
    BY <1>t, <1>2, <2>1, Objects DEF _cofd_alloc
<1>5. ASSUME NEW u \in Udp, coudp_send(u) PROVE StackStep
  <2>1. PICK b \in Buffer : _udpbuffer_add(u, b)
    BY <1>5 DEF coudp_send
  <2>2. state' = state /\ events' = events /\ agenda' = Call("write", u) \o agenda
    BY <1>5 DEF coudp_send, pools
  <2>3. ClosingOld
    BY <1>t, <2>1, <2>2, IoAssumption DEF ClosingOld, _udpbuffer_add
  <2>4. Call("write", u) \in Seq(Frame)
    BY <1>t, <1>w, CallType
  <2> QED
    BY <2>2, <2>3, <2>4, Pushed
<1>6. ASSUME NEW u \in Udp, NEW force \in BOOLEAN, coudp_close(u, force) PROVE StackStep
  <2> DEFINE first == IF head[u] # Nil THEN Call("write", u) ELSE <<>>
             rest == Call(IF force THEN "closing_force" ELSE "closing", u)
  <2>1. first \in Seq(Frame)
    <3>1. Call("write", u) \in Seq(Frame)
      BY <1>t, <1>w, CallType
    <3> QED
      BY <3>1, <1>e
  <2>2. rest \in Seq(Frame)
    <3>1. (IF force THEN "closing_force" ELSE "closing") \in Work
      BY <1>w
    <3> QED
      BY <1>t, <3>1, CallType
  <2>3. agenda' = first \o rest \o agenda /\ events' = events
    BY <1>6 DEF coudp_close
  <2>4. ClosingOld
    BY <1>6 DEF coudp_close, ClosingOld, pools, sendlist
  <2> HIDE DEF first, rest
  <2>5. first \o rest \in Seq(Frame)
    BY <2>1, <2>2
  <2> QED
    BY <2>3, <2>4, <2>5, Pushed
<1>7. ASSUME NEW o \in Cofd, cofd_unbind(o) PROVE StackStep
  <2>1. /\ state' = [state EXCEPT ![o] = COUDP_INVALID] /\ head' = head
        /\ UNCHANGED <<agenda, events>>
    BY <1>7 DEF cofd_unbind, DetachFd, Clear, sendlist
  <2>2. ClosingOld
    BY <1>t, <2>1, Objects DEF ClosingOld
  <2> QED
    BY <2>1, <2>2, StackSame
<1>8. ASSUME NEW o \in Cofd, cofd_send(o) PROVE StackStep
  <2>1. /\ UNCHANGED <<state, head, events>> /\ agenda' = Call("write", o) \o agenda
    BY <1>8 DEF cofd_send, pools, sendlist
  <2>2. ClosingOld
    BY <2>1 DEF ClosingOld
  <2>3. Call("write", o) \in Seq(Frame)
    BY <1>t, <1>w, CallType
  <2> QED
    BY <2>1, <2>2, <2>3, Pushed
<1>9. ASSUME NEW o, NEW fn, coudp_on(o, fn) \/ cofd_on(o, fn) PROVE StackStep
  BY <1>9, StackSame DEF coudp_on, cofd_on, SetCallback, ClosingOld, sendlist
<1> QED
  BY <1>1, <1>3, <1>4, <1>5, <1>6, <1>7, <1>8, <1>9 DEF User

LEMMA WaitStack ==
  ASSUME CallsTypeOK, ClosingHasData, copoll_wait
  PROVE  StackStep
<1>1. PICK n \in 1 .. MaxEvents :
        \E order \in [1 .. n -> {f \in Fd : ptr[f] \in Object}] :
          \E flags \in [1 .. n -> SUBSET Parts] :
            events' = [i \in 1 .. n |-> [o |-> ptr[order[i]], flags |-> flags[i]]]
  BY DEF copoll_wait
<1>2. PICK order \in [1 .. n -> {f \in Fd : ptr[f] \in Object}],
           flags \in [1 .. n -> SUBSET Parts] :
        events' = [i \in 1 .. n |-> [o |-> ptr[order[i]], flags |-> flags[i]]]
  BY <1>1
<1>3. \A i \in 1 .. n : [o |-> ptr[order[i]], flags |-> flags[i]] \in Report
  BY DEF Report
<1>4. n \in Nat
  OBVIOUS
<1>5. events' \in Seq(Report)
  BY <1>2, <1>3, <1>4
<1>6. UNCHANGED <<state, head, agenda>>
  BY DEF copoll_wait, pools, sendlist
<1> QED
  BY <1>5, <1>6 DEF CallsTypeOK, ClosingHasData, StackStep

LEMMA EventStack ==
  ASSUME CallsTypeOK, ClosingHasData, NEW o \in Object, _coios_process_event(o)
  PROVE  StackStep
<1> DEFINE Part(op) == IF Handled(o) /\ op \in Head(events).flags THEN Call(op, o) ELSE <<>>
<1>1. /\ agenda = <<>> /\ events # <<>> /\ events' = Tail(events)
      /\ agenda' = Part("read") \o Part("write") \o Part("error")
      /\ UNCHANGED <<state, head>>
  BY DEF _coios_process_event, pools, sendlist
<1>2. {"read", "write", "error"} \subseteq Work /\ <<>> \in Seq(Frame)
  BY DEF Work
<1>3. \A op \in Work : Part(op) \in Seq(Frame)
  BY <1>2, CallType
<1> HIDE DEF Part
<1>4. Part("read") \in Seq(Frame) /\ Part("write") \in Seq(Frame) /\ Part("error") \in Seq(Frame)
  BY <1>2, <1>3
<1>5. agenda' \in Seq(Frame)
  BY <1>1, <1>4
<1>6. events' \in Seq(Report)
  <2>1. events \in Seq(Report)
    BY DEF CallsTypeOK
  <2> QED
    BY <1>1, <2>1
<1>7. ClosingHasData'
  <2>1. \A i \in DOMAIN agenda : FALSE
    BY <1>1
  <2> QED
    BY <1>1, <2>1 DEF ClosingHasData
<1> QED
  BY <1>5, <1>6, <1>7 DEF CallsTypeOK, StackStep

LEMMA NextStack ==
  ASSUME CallsTypeOK, ClosingHasData, ObjectInv, Lists(Queue), [Next]_vars
  PROVE  StackStep
<1>t. /\ state \in [Object -> 0 .. 2] /\ head \in [Udp -> Buffer \cup {Nil}]
      /\ Udp \subseteq Object /\ Cofd \subseteq Object
  BY Objects DEF ObjectInv, DescriptorInv, ObjectsTypeOK, Lists, ListsOf
<1>w. {"read", "write", "error", "close", "closing", "closing_force", "callback"} = Work
  BY DEF Work
<1>e. <<>> \in Seq(Frame)
  OBVIOUS
<1>o. "callback" # "write" /\ "read" # "write" /\ "close" # "write" /\ "error" # "write"
  OBVIOUS
<1>c. \A o \in Object : Call("close", o) \in Seq(Frame) /\ Call("error", o) \in Seq(Frame)
  BY <1>w, CallType
<1>n. \A o \in Object : \A fn : /\ Notify(fn, o) \in Seq(Frame)
                                /\ Notify(fn, o) \o Call("close", o) \in Seq(Frame)
  BY <1>c, NotifyType
<1>1. CASE User
  BY <1>1, UserStack
<1>2. CASE user_returns
  <2>1. PICK o \in Object : Doing("callback", o)
    BY <1>2 DEF user_returns
  <2>2. Then(<<>>) /\ UNCHANGED <<state, head, events>>
    BY <1>2 DEF user_returns, Return, pools, sendlist
  <2> QED
    BY <1>e, <1>o, <2>1, <2>2, CalledOther
<1>3. CASE copoll_wait
  BY <1>3, WaitStack
\* The handlers of reads and errors are the same for both kinds of objects.
<1>4. ASSUME NEW o \in Object, HandleError(o) PROVE StackStep
  <2> DEFINE calls == IF Live(o) THEN Notify("error", o) \o Call("close", o) ELSE <<>>
  <2>1. calls \in Seq(Frame)
    BY <1>e, <1>n
  <2>2. Doing("error", o) /\ Then(calls) /\ UNCHANGED <<state, head, events>>
    BY <1>4 DEF HandleError, pools, sendlist
  <2> HIDE DEF calls
  <2> QED
    BY <2>1, <2>2, Called
<1>5. ASSUME NEW o \in Object, HandleRead(o) PROVE StackStep
  <2>1. Doing("read", o) /\ UNCHANGED <<state, head, events>>
    BY <1>5 DEF HandleRead, pools, sendlist
  <2>2. \/ Then(<<>>)
        \/ Then(Call("error", o))
        \/ Then(Notify("close", o) \o Call("close", o))
        \/ Then(Notify("recv", o))
    BY <1>5 DEF HandleRead, Return
  <2> QED
    BY <1>c, <1>e, <1>n, <1>o, <2>1, <2>2, CalledOther
<1>6. ASSUME NEW o \in Object, Handlers(o) PROVE StackStep
  <2>1. CASE _co_close(o)
    <3>1. Doing("close", o) /\ Return
      BY <2>1 DEF _co_close
    <3>2. CASE ~Live(o)
      <4>1. Then(<<>>) /\ UNCHANGED <<state, head, events>>
        BY <2>1, <3>2 DEF _co_close, Return, pools, sendlist
      <4> QED
        BY <1>e, <1>o, <3>1, <4>1, CalledOther
    <3>3. CASE Live(o)
      <4>1. (DetachUdp(o) /\ o \in Udp) \/ (DetachFd(o) /\ o \in Cofd)
        BY <2>1, <3>3, Objects DEF _co_close
      <4> QED
        BY <3>1, <4>1, Closed
    <3> QED
      BY <3>2, <3>3
  <2>2. CASE write_fails(o)
    <3>1. /\ Doing("write", o) /\ Then(Call("error", o)) /\ UNCHANGED <<state, head, events>>
          /\ o \in Udp => head[o] # Nil
      BY <2>2 DEF write_fails, pools, sendlist
    <3> QED
      BY <1>c, <3>1, Called
  <2>3. CASE write_invalid(o)
    <3>1. /\ Doing("write", o) /\ Then(<<>>) /\ UNCHANGED <<state, head, events>>
          /\ state[o] # COUDP_CLOSING
      BY <2>3 DEF write_invalid, Live, Return, pools, sendlist
    <3> QED
      BY <1>e, <3>1, Called
  <2>4. CASE _coios_process_event(o)
    BY <2>4, EventStack
  <2> QED
    BY <1>6, <2>1, <2>2, <2>3, <2>4 DEF Handlers
<1>7. ASSUME NEW u \in Udp, UdpHandlers(u) PROVE StackStep
  <2>1. CASE closing(u)
    <3>1. /\ agenda # <<>> /\ Then(<<>>) /\ events' = events
          /\ state' = [state EXCEPT ![u] = COUDP_CLOSING] /\ head' = head /\ head[u] # Nil
      BY <2>1 DEF closing, Doing, Return, sendlist
    <3>2. \A v \in Udp : Head(agenda) # WriteOf(v)
      BY <2>1, DoingOther DEF closing
    <3>3. \A v \in Udp : state'[v] = COUDP_CLOSING =>
               \/ head'[v] # Nil
               \/ state[v] = COUDP_CLOSING /\ head[v] = Nil /\ Head(agenda) # WriteOf(v)
      BY <1>t, <3>1, <3>2
    <3> QED
      BY <1>e, <3>1, <3>3, Popped
  <2>2. CASE closing_now(u)
    <3>1. PICK op \in {"closing", "closing_force"} : Doing(op, u)
      BY <2>2 DEF closing_now
    <3>2. /\ Then(Notify("close", u) \o Call("close", u)) /\ UNCHANGED <<state, head, events>>
          /\ op # "write"
      BY <2>2 DEF closing_now, pools, sendlist
    <3> QED
      BY <1>n, <1>t, <3>1, <3>2, Called
  <2>3. CASE _coudp_handle_error(u) \/ _coudp_handle_read(u)
    BY <1>4, <1>5, <1>t, <2>3 DEF _coudp_handle_error, _coudp_handle_read
  <2>4. CASE datagram_waits(u)
    <3>1. /\ Doing("write", u) /\ Then(<<>>) /\ UNCHANGED <<state, head, events>>
          /\ head[u] # Nil
      BY <2>4 DEF datagram_waits, Return, pools, sendlist
    <3> QED
      BY <1>e, <1>t, <3>1, Called
  <2>5. CASE datagram_sent(u)
    <3>1. /\ Doing("write", u) /\ head' = [head EXCEPT ![u] = next[head[u]]]
          /\ UNCHANGED <<state, events, agenda>>
      BY <2>5 DEF datagram_sent, pools
    <3>2. agenda \in Seq(Frame) /\ agenda # <<>> /\ Head(agenda) = WriteOf(u)
      BY <3>1 DEF CallsTypeOK, Doing, WriteOf
    <3>3. 1 \in DOMAIN agenda' /\ agenda'[1] = WriteOf(u)
      BY <3>1, <3>2
    <3>4. ClosingHasData'
      BY <1>t, <3>1, <3>3 DEF ClosingHasData, WriteOf
    <3> QED
      BY <3>1, <3>4 DEF CallsTypeOK, StackStep
  <2>6. CASE datagrams_done(u)
    <3>1. Doing("write", u) /\ Return /\ _coudp_check_closing(u)
      BY <2>6 DEF datagrams_done
    <3>2. CASE state[u] = COUDP_CLOSING
      <4>1. DetachUdp(u) /\ u \in Udp /\ u \in Object
        BY <1>t, <3>1, <3>2 DEF _coudp_check_closing
      <4> QED
        BY <3>1, <4>1, Closed
    <3>3. CASE state[u] # COUDP_CLOSING
      <4>1. Then(<<>>) /\ UNCHANGED <<state, head, events>>
        BY <3>1, <3>3 DEF _coudp_check_closing, Return, pools
      <4> QED
        BY <1>e, <1>t, <3>1, <3>3, <4>1, Called
    <3> QED
      BY <3>2, <3>3
  <2> QED
    BY <1>7, <2>1, <2>2, <2>3, <2>4, <2>5, <2>6 DEF UdpHandlers, _coudp_handle_write
<1>8. ASSUME NEW o \in Cofd, FdHandlers(o) PROVE StackStep
  <2>1. CASE _cofd_handle_error(o) \/ _cofd_handle_read(o)
    BY <1>4, <1>5, <1>t, <2>1 DEF _cofd_handle_error, _cofd_handle_read
  <2>2. CASE fd_write_some(o) \/ fd_write_all(o)
    <3>1. /\ Doing("write", o) /\ Then(<<>>) /\ UNCHANGED <<state, head, events>>
          /\ o \notin Udp
      BY <2>2, Objects DEF fd_write_some, fd_write_all, Return, pools, sendlist
    <3> QED
      BY <1>e, <1>t, <3>1, Called
  <2> QED
    BY <1>8, <2>1, <2>2 DEF FdHandlers, _cofd_handle_write
<1>9. CASE UNCHANGED vars
  BY <1>9, StackSame DEF vars, pools, sendlist, ClosingOld
<1> QED
  BY <1>1, <1>2, <1>3, <1>6, <1>7, <1>8, <1>9 DEF Next

LEMMA NextInv ==
  ASSUME IInv, [Next]_vars
  PROVE  IInv' /\ QueueStep(Queue, Queue')
<1>1. ObjectInv'
  BY NextObjects DEF IInv
<1>2. StackStep
  BY NextStack DEF IInv
<1>3. ListStep
  BY NextLists DEF IInv
<1> QED
  BY <1>1, <1>2, <1>3 DEF IInv, StackStep, ListStep

-----------------------------------------------------------------------------
(* Theorems.                                                               *)

\* The inductive invariant holds, whatever user code calls from inside callbacks and
\* whatever stale events are delivered.
THEOREM IInvAlways == Spec => []IInv
<1>1. IInv /\ [Next]_vars => IInv'
  BY NextInv
<1> QED
  BY <1>1, InitInv, PTL DEF Spec

\* Whatever the user stores in fd->ud, and however objects are closed, unbound and used
\* again in a batch: the poll set has the live objects' descriptors and no others, and
\* only for an FD object may it have another pointer than the object.
THEOREM PollMatchesObjectsAlways == Spec => []PollMatchesObjects
<1>1. IInv => PollMatchesObjects
  BY DEF IInv, ObjectInv, DescriptorInv, Registered, Owned, PollMatchesObjects
<1> QED
  BY <1>1, IInvAlways, PTL

\* coudp_new and _coudp_close open and close the service's own descriptors only, and leak
\* none.
THEOREM OpenMatchesUdpAlways == Spec => []OpenMatchesUdp
<1>1. IInv => OpenMatchesUdp
  BY DEF IInv, ObjectInv, DescriptorInv
<1> QED
  BY <1>1, IInvAlways, PTL

\* Data that coudp_send and cofd_send could not send at once is watched for.
THEOREM UnsentIsWatchedAlways == Spec => []UnsentIsWatched
<1>1. IInv => UnsentIsWatched
  BY DEF IInv, ObjectInv
<1> QED
  BY <1>1, IInvAlways, PTL

\* coudp_close leaves a socket in the closing state only with datagrams to send.
THEOREM ClosingHasDataAlways == Spec => []ClosingHasData
<1>1. IInv => ClosingHasData
  BY DEF IInv
<1> QED
  BY <1>1, IInvAlways, PTL

\* The buffers of datagrams are neither leaked nor in two lists, and the tail of a list is
\* its last buffer, however sends, attempts to write and closes are interleaved.
THEOREM SendListSoundAlways == Spec => []SendListSound
<1>1. IInv => SendListSound
  <2> SUFFICES ASSUME IInv PROVE SendListSound
    OBVIOUS
  <2>1. /\ ListsOf(Queue, head, tail, next, used) /\ HeadLive
    BY DEF IInv, Lists, ObjectInv
  <2>2. \A u \in Udp : Listed(u) = Range(Queue[u]) /\ Queue[u] = Chain(head[u])
    BY DEF Listed, Queue, Range
  <2>3. ASSUME NEW u \in Udp, head[u] # Nil
        PROVE  Live(u) /\ tail[u] = Chain(head[u])[Len(Chain(head[u]))]
    <3>1. IsList(Queue[u], head[u], tail[u], next)
      BY <2>1 DEF ListsOf
    <3>2. Queue[u] # <<>>
      BY <2>3, <3>1 DEF IsList
    <3>3. tail[u] = Queue[u][Len(Queue[u])]
      BY <3>1, <3>2 DEF IsList
    <3> QED
      BY <2>1, <2>2, <2>3, <3>3 DEF HeadLive
  <2> QED
    BY <2>1, <2>2, <2>3 DEF SendListSound, ListsOf
<1> QED
  BY <1>1, IInvAlways, PTL

\* Refinement: the linked lists of the sockets implement queues, each datagram accepted
\* once, handed over in order and once, or discarded with the socket.
THEOREM InOrderAlways == Spec => InOrder
<1>1. Init => SQ!Init
  <2> SUFFICES ASSUME Init PROVE SQ!Init
    OBVIOUS
  <2>1. Lists(Queue)
    BY InitInv DEF IInv
  <2>2. \A u \in Udp : Queue[u] = <<>>
    <3> SUFFICES ASSUME NEW u \in Udp PROVE Queue[u] = <<>>
      OBVIOUS
    <3>1. Queue[u] \in Seq(Buffer) /\ IsList(Queue[u], head[u], tail[u], next) /\ head[u] = Nil
      BY <2>1 DEF Init, Lists, ListsOf
    <3>2. Queue[u] # <<>> => Queue[u][1] \in Buffer
      BY <3>1
    <3> QED
      BY <3>1, <3>2, IoAssumption DEF IsList
  <2> QED
    BY <2>2 DEF SQ!Init, Queue
<1>2. IInv /\ [Next]_vars => [SQ!Next]_([u \in Udp |-> Chain(head[u])])
  <2> SUFFICES ASSUME IInv, [Next]_vars, Queue' # Queue PROVE SQ!Next
    BY DEF Queue
  <2>1. QueueStep(Queue, Queue')
    BY NextInv
  <2>2. PICK u \in Udp :
          \/ \E b \in Buffer : /\ \A v \in Udp : b \notin Range(Queue[v])
                               /\ Queue' = [Queue EXCEPT ![u] = Append(@, b)]
          \/ Queue[u] # <<>> /\ Queue' = [Queue EXCEPT ![u] = Tail(@)]
          \/ Queue' = [Queue EXCEPT ![u] = <<>>]
    BY <2>1 DEF QueueStep
  <2>3. CASE \E b \in Buffer : /\ \A v \in Udp : b \notin Range(Queue[v])
                               /\ Queue' = [Queue EXCEPT ![u] = Append(@, b)]
    <3>1. PICK b \in Buffer : /\ \A v \in Udp : b \notin Range(Queue[v])
                              /\ Queue' = [Queue EXCEPT ![u] = Append(@, b)]
      BY <2>3
    <3>2. SQ!Accept(u, b)
      BY <3>1 DEF SQ!Accept, SQ!Elements, Range, Queue
    <3> QED
      BY <3>2 DEF SQ!Next
  <2>4. CASE Queue[u] # <<>> /\ Queue' = [Queue EXCEPT ![u] = Tail(@)]
    <3>1. SQ!Transmit(u)
      BY <2>4 DEF SQ!Transmit, Queue
    <3> QED
      BY <3>1 DEF SQ!Next
  <2>5. CASE Queue' = [Queue EXCEPT ![u] = <<>>]
    <3>1. SQ!Discard(u)
      BY <2>5 DEF SQ!Discard, Queue
    <3> QED
      BY <3>1 DEF SQ!Next
  <2> QED
    BY <2>2, <2>3, <2>4, <2>5
<1> QED
  BY <1>1, <1>2, IInvAlways, PTL DEF Spec, InOrder, SQ!Spec
=============================================================================
