---------------------------- MODULE Queues_proof ----------------------------
(***************************************************************************)
(* Proofs about Ring and PQueue, for every size of the storage and of the  *)
(* heap, every number of items and every order of them.                    *)
(*                                                                         *)
(* Ring: a queue keeps its order, each item is read once, and memory that  *)
(* was not initialised is never read. RingOK is inductive by itself. The   *)
(* work is in the lemmas that say what a write and a read do to the        *)
(* contents: the storage is addressed cell by cell, and the modulo of the  *)
(* source is resolved by ModuloOnce.                                       *)
(*                                                                         *)
(* PQueue: the heap is in order around the entry that moves, and what is   *)
(* popped is a greatest entry. HeapOrdered compares an entry with its      *)
(* parent only. That the front is a greatest entry follows by the least    *)
(* entry that would be greater: its parent comes before it.                *)
(***************************************************************************)
EXTENDS Ring, PQueue, SequenceTheorems, WellFoundedInduction, TLAPS

-----------------------------------------------------------------------------
(* The ring.                                                               *)

\* Indices never go round the storage more than once.
LEMMA ModuloOnce ==
  ASSUME NEW m \in Nat \ {0}, NEW x \in Nat, x < m + m
  PROVE  x % m = IF x < m THEN x ELSE x - m
<1>1. CASE x < m
  BY <1>1, SMT
<1>2. CASE ~(x < m)
  BY <1>2, SMT
<1> QED  BY <1>1, <1>2

\* There is always one free cell, and every item has a cell of the storage.
LEMMA Sizes ==
  ASSUME RingOK
  PROVE  /\ Readable \in 0 .. size - 1
         /\ ReadOnce \in 0 .. Readable
         /\ \A k \in 1 .. Readable : Cell(k) \in 0 .. size - 1
         /\ Contents \in [1 .. Readable -> Item]
         /\ Len(Contents) = Readable
<1>1. /\ Readable \in 0 .. size - 1
      /\ ReadOnce \in 0 .. Readable
      /\ \A k \in 1 .. Readable : Cell(k) \in 0 .. size - 1
  BY SMT DEF RingOK, Readable, ReadOnce, Cell
<1>2. /\ Len(Contents) = Readable
      /\ Contents \in [1 .. Readable -> Item]
  <2>1. Contents \in Seq(Item) /\ DOMAIN Contents = 1 .. Readable
    BY DEF RingOK, Contents
  <2>2. Len(Contents) \in Nat /\ DOMAIN Contents = 1 .. Len(Contents)
    BY <2>1
  <2>3. Len(Contents) = Readable
    BY <1>1, <2>1, <2>2
  <2> QED  BY <2>1, <2>2, <2>3
<1> QED  BY <1>1, <1>2

\* A write finds room and keeps one cell free, so that head and tail never meet.
LEMMA Room ==
  ASSUME RingOK, NEW n \in Nat, kind = "queue" => n = 1
  PROVE  /\ NewSize(n) \in Nat
         /\ NewSize(n) >= size
         /\ NewSize(n) > Readable + n
<1>1. size \in Nat \ {0} /\ kind \in {"ringbuf", "queue"} /\ Readable \in 0 .. size - 1
  BY Sizes DEF RingOK
<1>2. CASE kind = "ringbuf"
  BY <1>1, <1>2 DEF NewSize, Greatest
<1>3. CASE kind = "queue"
  BY <1>1, <1>3 DEF NewSize
<1> QED  BY <1>1, <1>2, <1>3

(* The arithmetic of a write, about numbers: s, h and t are the size, the head and the   *)
(* tail before the write of n items, s2, h2 and t2 those after it.                       *)

Between(s, h, t) == IF t >= h THEN t - h ELSE s - (h - t)

CellOf(s, h, k) == IF h + k <= s THEN h + k - 1 ELSE h + k - 1 - s

WriteShape(s, h, t, n, s2, h2, t2) ==
  /\ 0 <= h /\ h < s /\ 0 <= t /\ t < s /\ 0 <= n
  /\ s <= s2 /\ Between(s, h, t) + n < s2
  /\ h2 = IF t < h THEN s2 - (s - h) ELSE h
  /\ t2 = IF t + n < s2 THEN t + n ELSE t + n - s2

\* A write (Put) has the shape WriteShape describes.
LEMMA PutShape ==
  ASSUME RingOK, NEW data \in Seq(Item), kind = "queue" => Len(data) = 1, Put(data)
  PROVE  /\ size \in Int /\ head \in Int /\ tail \in Int /\ Len(data) \in Int
         /\ size' \in Int /\ head' \in Int /\ tail' \in Int
         /\ WriteShape(size, head, tail, Len(data), size', head', tail')
<1>0. PICK n \in Nat : n = Len(data)
  OBVIOUS
<1>1. /\ size \in Nat \ {0} /\ head \in 0 .. size - 1 /\ tail \in 0 .. size - 1
      /\ Readable \in 0 .. size - 1
  BY Sizes DEF RingOK
<1>2. size' = NewSize(n) /\ head' = NewHead(n) /\ tail' = (tail + n) % NewSize(n)
  BY <1>0 DEF Put
<1>3. NewSize(n) \in Nat /\ NewSize(n) >= size /\ NewSize(n) > Readable + n
  BY <1>0, Room
<1>4. PICK s \in Int, h \in Int, t \in Int, r \in Int, s2 \in Int :
        s = size /\ h = head /\ t = tail /\ r = Readable /\ s2 = NewSize(n)
  BY <1>1, <1>3
<1>5. /\ 0 <= h /\ h < s /\ 0 <= t /\ t < s /\ s <= s2 /\ r + n < s2
      /\ r = Between(s, h, t)
  BY <1>1, <1>3, <1>4 DEF Readable, Between
<1>6. s2 \in Nat \ {0} /\ t + n \in Nat /\ t + n < s2 + s2
  BY <1>5 DEF Between
<1>7. (t + n) % s2 = IF t + n < s2 THEN t + n ELSE t + n - s2
  <2>1. PICK x \in Nat, m \in Nat \ {0} : x = t + n /\ m = s2 /\ x < m + m
    BY <1>6
  <2>2. x % m = IF x < m THEN x ELSE x - m
    BY <2>1, ModuloOnce
  <2> QED  BY <2>1, <2>2
<1>8. head' = IF t < h THEN s2 - (s - h) ELSE h
  BY <1>2, <1>4 DEF NewHead
<1>9. tail' = IF t + n < s2 THEN t + n ELSE t + n - s2
  BY <1>2, <1>4, <1>7
<1>10. WriteShape(s, h, t, n, s2, head', tail')
  BY <1>5, <1>8, <1>9 DEF WriteShape
<1> QED  BY <1>0, <1>2, <1>4, <1>8, <1>9, <1>10

\* How much can be read after a write.
LEMMA PutEnds ==
  ASSUME RingOK, NEW data \in Seq(Item), kind = "queue" => Len(data) = 1, Put(data)
  PROVE  /\ size' \in Nat \ {0} /\ head' \in 0 .. size' - 1 /\ tail' \in 0 .. size' - 1
         /\ Readable' = Readable + Len(data)
<1>1. PICK s \in Int, h \in Int, t \in Int, n \in Int, s2 \in Int, h2 \in Int, t2 \in Int :
        /\ WriteShape(s, h, t, n, s2, h2, t2)
        /\ s = size /\ h = head /\ t = tail /\ n = Len(data)
        /\ s2 = size' /\ h2 = head' /\ t2 = tail'
  BY PutShape
<1>2. WriteShape(s, h, t, n, s2, h2, t2)
  BY <1>1
<1>3. /\ s2 \in Nat \ {0} /\ h2 \in 0 .. s2 - 1 /\ t2 \in 0 .. s2 - 1
      /\ Between(s2, h2, t2) = Between(s, h, t) + n
  BY <1>2 DEF WriteShape, Between
<1>4. Readable = Between(s, h, t) /\ Readable' = Between(s2, h2, t2)
  BY <1>1, Zenon DEF Readable, Between
<1> QED  BY <1>1, <1>3, <1>4, Zenon

\* A write leaves the items that were there, and puts the new ones behind them.
LEMMA PutCells ==
  ASSUME RingOK, NEW data \in Seq(Item), kind = "queue" => Len(data) = 1, Put(data)
  PROVE  /\ \A k \in 1 .. Readable :
              buffer'[CellOf(size', head', k)] = buffer[CellOf(size, head, k)]
         /\ \A k \in 1 .. Len(data) :
              buffer'[CellOf(size', head', Readable + k)] = data[k]
         /\ buffer' \in [0 .. size' - 1 -> Item \cup {Junk}]
<1>1. PICK s \in Int, h \in Int, t \in Int, n \in Int, s2 \in Int, h2 \in Int, t2 \in Int :
        /\ WriteShape(s, h, t, n, s2, h2, t2)
        /\ s = size /\ h = head /\ t = tail /\ n = Len(data)
        /\ s2 = size' /\ h2 = head' /\ t2 = tail'
  BY PutShape
<1> DEFINE len == IF n <= s2 - t THEN n ELSE s2 - t
<1>2. WriteShape(s, h, t, n, s2, h2, t2)
  BY <1>1
<1>3. s2 = NewSize(n) /\ h2 = NewHead(n) /\ len = Least(n, s2 - t)
  BY <1>1, Zenon DEF Put, Least
<1>4. buffer' = [i \in 0 .. s2 - 1 |->
                   IF i \in t .. t + len - 1 THEN data[i - t + 1]
                   ELSE IF i < n - len THEN data[len + i + 1]
                   ELSE IF t < h /\ i >= h2 THEN buffer[i - h2 + h]
                   ELSE IF i < s THEN buffer[i] ELSE Junk]
  <2> HIDE DEF len
  <2> QED  BY <1>1, <1>3 DEF Put, Filled, Grown
<1>5. ASSUME NEW i \in 0 .. s2 - 1
      PROVE  buffer'[i] \in Item \cup {Junk}
  <2>1. \A j \in 1 .. n : data[j] \in Item
    BY <1>1
  <2>2. \A j \in 0 .. s - 1 : buffer[j] \in Item \cup {Junk}
    BY <1>1 DEF RingOK
  <2>3. /\ i \in t .. t + len - 1 => i - t + 1 \in 1 .. n
        /\ i < n - len => len + i + 1 \in 1 .. n
        /\ t < h /\ i >= h2 => i - h2 + h \in 0 .. s - 1
        /\ i < s => i \in 0 .. s - 1
    BY <1>2 DEF WriteShape, Between
  <2> HIDE DEF len
  <2> QED  BY <1>4, <2>1, <2>2, <2>3
<1>6. buffer' \in [0 .. size' - 1 -> Item \cup {Junk}]
  <2> HIDE DEF len
  <2> QED  BY <1>1, <1>4, <1>5
<1>7. ASSUME NEW k \in 1 .. Between(s, h, t)
      PROVE  buffer'[CellOf(s2, h2, k)] = buffer[CellOf(s, h, k)]
  <2> DEFINE c == CellOf(s2, h2, k)
  <2>1. /\ c \in 0 .. s2 - 1
        /\ ~(c \in t .. t + len - 1)
        /\ ~(c < n - len)
        /\ t < h /\ c >= h2 => c - h2 + h = CellOf(s, h, k)
        /\ ~(t < h /\ c >= h2) => c = CellOf(s, h, k) /\ c < s
    BY <1>2 DEF WriteShape, Between, CellOf
  <2> HIDE DEF c, len
  <2>2. buffer'[c] = IF t < h /\ c >= h2 THEN buffer[c - h2 + h]
                     ELSE IF c < s THEN buffer[c] ELSE Junk
    BY <1>4, <2>1
  <2>3. buffer'[c] = buffer[CellOf(s, h, k)]
    BY <2>1, <2>2
  <2> QED  BY <2>3 DEF c
<1>8. ASSUME NEW k \in 1 .. n
      PROVE  buffer'[CellOf(s2, h2, Between(s, h, t) + k)] = data[k]
  <2> DEFINE c == CellOf(s2, h2, Between(s, h, t) + k)
  <2>1. /\ c \in 0 .. s2 - 1
        /\ c \in t .. t + len - 1 => c - t + 1 = k
        /\ ~(c \in t .. t + len - 1) => c < n - len /\ len + c + 1 = k
    BY <1>2 DEF WriteShape, Between, CellOf
  <2> HIDE DEF c, len
  <2>2. buffer'[c] = data[k]
    BY <1>4, <2>1
  <2> QED  BY <2>2 DEF c
<1>9. Readable = Between(s, h, t)
  BY <1>1, Zenon DEF Readable, Between
<1> QED  BY <1>1, <1>6, <1>7, <1>8, <1>9

\* The concatenation of two sequences, item by item.
LEMMA ConcatCells ==
  ASSUME NEW S, NEW u \in Seq(S), NEW v \in Seq(S)
  PROVE  u \o v = [k \in 1 .. Len(u) + Len(v) |-> IF k <= Len(u) THEN u[k] ELSE v[k - Len(u)]]
<1> DEFINE w == u \o v
<1>1. /\ w \in Seq(S) /\ Len(w) = Len(u) + Len(v)
      /\ \A k \in 1 .. Len(u) + Len(v) : w[k] = IF k <= Len(u) THEN u[k] ELSE v[k - Len(u)]
  BY ConcatProperties
<1> HIDE DEF w
<1>2. w = [k \in 1 .. Len(w) |-> w[k]]
  BY <1>1
<1>3. w = [k \in 1 .. Len(u) + Len(v) |-> w[k]]
  BY <1>1, <1>2, Zenon
<1> QED  BY <1>1, <1>3 DEF w

\* The contents after a write: those before it, and the data behind them.
LEMMA PutContents ==
  ASSUME RingOK, NEW data \in Seq(Item), kind = "queue" => Len(data) = 1, Put(data)
  PROVE  Contents' = Contents \o data /\ RingOK'
<1>1. PICK r \in Nat, n \in Nat : r = Readable /\ n = Len(data)
  BY Sizes
<1>2. /\ Contents = [k \in 1 .. r |-> buffer[CellOf(size, head, k)]]
      /\ Contents' = [k \in 1 .. r + n |-> buffer'[CellOf(size', head', k)]]
  BY <1>1, PutEnds DEF Contents, Cell, CellOf
<1>3. Contents \in Seq(Item) /\ Len(Contents) = r
  BY <1>1, Sizes DEF RingOK
<1>4. Contents \o data = [k \in 1 .. r + n |-> IF k <= r THEN Contents[k] ELSE data[k - r]]
  <2>1. Contents \o data =
          [k \in 1 .. Len(Contents) + Len(data) |->
             IF k <= Len(Contents) THEN Contents[k] ELSE data[k - Len(Contents)]]
    BY <1>3, ConcatCells, Zenon
  <2> QED  BY <1>1, <1>3, <2>1, Zenon
<1>5. ASSUME NEW k \in 1 .. r + n
      PROVE  buffer'[CellOf(size', head', k)] = IF k <= r THEN Contents[k] ELSE data[k - r]
  <2>1. CASE k <= r
    <3>1. k \in 1 .. r /\ Contents[k] = buffer[CellOf(size, head, k)]
      BY <1>2, <2>1
    <3>2. buffer'[CellOf(size', head', k)] = buffer[CellOf(size, head, k)]
      BY <1>1, <3>1, PutCells
    <3> QED  BY <2>1, <3>1, <3>2
  <2>2. CASE ~(k <= r)
    <3>1. PICK j \in 1 .. n : k = r + j /\ j = k - r
      <4>1. k - r \in 1 .. n /\ k = r + (k - r)
        BY <2>2
      <4> QED  BY <4>1
    <3>2. buffer'[CellOf(size', head', r + j)] = data[j]
      BY <1>1, PutCells
    <3> QED  BY <2>2, <3>1, <3>2
  <2> QED  BY <2>1, <2>2
<1>6. Contents' = Contents \o data
  BY <1>2, <1>4, <1>5
<1>7. Contents' \in Seq(Item)
  BY <1>3, <1>6
<1> QED  BY <1>6, <1>7, PutEnds, PutCells DEF RingOK, Put

\* The arithmetic of a read of n items: where the head goes and which cells are left.
LEMMA TakeEnds ==
  ASSUME RingOK, NEW n \in 0 .. Readable, head' = (head + n) % size,
         UNCHANGED <<size, tail, buffer>>
  PROVE  /\ head' \in 0 .. size - 1
         /\ Readable' = Readable - n
         /\ \A k \in 1 .. Readable - n :
              CellOf(size, head', k) = CellOf(size, head, n + k)
         /\ \A k \in 1 .. n : CellOf(size, head, k) =
              IF k <= Least(n, ReadOnce) THEN head + k - 1 ELSE k - Least(n, ReadOnce) - 1
<1>1. Readable \in 0 .. size - 1 /\ size \in Nat \ {0}
      /\ head \in 0 .. size - 1 /\ tail \in 0 .. size - 1
  BY Sizes DEF RingOK
<1>2. PICK s \in Int, h \in Int, t \in Int, m \in Int :
        s = size /\ h = head /\ t = tail /\ m = n
  BY <1>1
<1>3. 0 <= h /\ h < s /\ 0 <= t /\ t < s /\ 0 <= m /\ m <= Between(s, h, t)
  BY <1>1, <1>2 DEF Readable, Between
<1>4. (h + m) % s = IF h + m < s THEN h + m ELSE h + m - s
  <2>1. PICK x \in Nat, y \in Nat \ {0} : x = h + m /\ y = s /\ x < y + y
    <3>1. h + m \in Nat /\ s \in Nat \ {0} /\ h + m < s + s
      BY <1>3 DEF Between
    <3> QED  BY <3>1
  <2>2. x % y = IF x < y THEN x ELSE x - y
    BY <2>1, ModuloOnce
  <2> QED  BY <2>1, <2>2
<1>5. PICK h2 \in Int : h2 = IF h + m < s THEN h + m ELSE h + m - s
  <2>1. (IF h + m < s THEN h + m ELSE h + m - s) \in Int
    OBVIOUS
  <2> QED  BY <2>1
<1>6. h2 = head' /\ s = size' /\ t = tail'
  BY <1>2, <1>4, <1>5
<1>7. /\ h2 \in 0 .. s - 1
      /\ Between(s, h2, t) = Between(s, h, t) - m
      /\ \A k \in 1 .. Between(s, h, t) - m : CellOf(s, h2, k) = CellOf(s, h, m + k)
  BY <1>3, <1>5 DEF Between, CellOf
<1>8. Readable = Between(s, h, t) /\ Readable' = Between(s, h2, t)
  BY <1>2, <1>6, Zenon DEF Readable, Between
<1>9. PICK once \in Int : once = IF t >= h THEN t - h ELSE s - h
  <2>1. (IF t >= h THEN t - h ELSE s - h) \in Int
    OBVIOUS
  <2> QED  BY <2>1
<1>10. \A k \in 1 .. m : CellOf(s, h, k) =
          IF k <= (IF m <= once THEN m ELSE once) THEN h + k - 1
          ELSE k - (IF m <= once THEN m ELSE once) - 1
  BY <1>3, <1>9 DEF Between, CellOf
<1>11. Least(n, ReadOnce) = IF m <= once THEN m ELSE once
  BY <1>2, <1>9, Zenon DEF Least, ReadOnce
<1> QED  BY <1>2, <1>6, <1>7, <1>8, <1>10, <1>11

\* What a read returns and what it leaves.
LEMMA TakeContents ==
  ASSUME RingOK, NEW n \in 0 .. Readable, head' = (head + n) % size,
         got' = [k \in 1 .. n |-> buffer[CellOf(size, head, k)]],
         UNCHANGED <<kind, size, tail, buffer>>
  PROVE  /\ got' = SubSeq(Contents, 1, n)
         /\ Contents' = SubSeq(Contents, n + 1, Len(Contents))
         /\ RingOK'
<1>1. PICK r \in Nat : r = Readable /\ n \in 0 .. r /\ n \in Nat
  BY Sizes
<1>2. /\ Contents = [k \in 1 .. r |-> buffer[CellOf(size, head, k)]]
      /\ Contents' = [k \in 1 .. r - n |-> buffer[CellOf(size, head', k)]]
      /\ Contents \in Seq(Item) /\ Len(Contents) = r
  BY <1>1, TakeEnds, Sizes DEF Contents, Cell, CellOf, RingOK
<1>3. \A k \in 1 .. r : Contents[k] \in Item /\ Contents[k] = buffer[CellOf(size, head, k)]
  BY <1>2
<1>4. got' = SubSeq(Contents, 1, n) /\ got' \in Seq(Item)
  <2>1. got' = [k \in 1 .. n |-> Contents[k]]
    BY <1>1, <1>3
  <2>2. got' \in Seq(Item) /\ Len(got') = n /\ \A k \in 1 .. n : got'[k] = Contents[k]
    BY <1>1, <1>3, <2>1
  <2>3. /\ SubSeq(Contents, 1, n) \in Seq(Item)
        /\ Len(SubSeq(Contents, 1, n)) = n
        /\ \A k \in 1 .. n : SubSeq(Contents, 1, n)[k] = Contents[k]
    BY <1>1, <1>2, <1>3, SubSeqProperties
  <2> QED  BY <2>2, <2>3, SeqEqual
<1>5. Contents' = SubSeq(Contents, n + 1, r) /\ Contents' \in Seq(Item)
  <2>1. Contents' = [k \in 1 .. r - n |-> Contents[n + k]]
    BY <1>1, <1>2, <1>3, TakeEnds
  <2>2. /\ Contents' \in Seq(Item) /\ Len(Contents') = r - n
        /\ \A k \in 1 .. r - n : Contents'[k] = Contents[n + k]
    BY <1>1, <1>3, <2>1
  <2>3. /\ SubSeq(Contents, n + 1, r) \in Seq(Item)
        /\ Len(SubSeq(Contents, n + 1, r)) = r - n
        /\ \A k \in 1 .. r - n : SubSeq(Contents, n + 1, r)[k] = Contents[n + k]
    BY <1>1, <1>2, <1>3, SubSeqProperties
  <2> QED  BY <2>2, <2>3, SeqEqual
<1> QED  BY <1>2, <1>4, <1>5, TakeEnds DEF RingOK

-----------------------------------------------------------------------------
(* The operations, one by one. Each maps to a step of the abstract queue.                *)

AbstractStep == [Queue!Next]_<<Contents, got>>

\* A write of a ring buffer or of a queue is a write of the abstract queue.
LEMMA WriteStep ==
  ASSUME RingOK, NEW n \in 1 .. MaxData, NEW data \in [1 .. n -> Item],
         kind = "queue" => n = 1, Put(data)
  PROVE  RingOK' /\ AbstractStep
<1>1. data \in Seq(Item) /\ Len(data) = n
  OBVIOUS
<1>2. Contents' = Contents \o data /\ RingOK' /\ got' = got
  BY <1>1, PutContents DEF Put
<1>3. Queue!Write(data)
  BY <1>2 DEF Queue!Write
<1> QED  BY <1>2, <1>3 DEF AbstractStep, Queue!Next

\* What every operation that moves the head comes down to.
LEMMA ReadStep ==
  ASSUME RingOK, NEW n \in 0 .. Readable, head' = (head + n) % size,
         got' = [k \in 1 .. n |-> buffer[CellOf(size, head, k)]],
         UNCHANGED <<kind, size, tail, buffer>>
  PROVE  RingOK' /\ AbstractStep
<1>1. RingOK' /\ Queue!Read(n)
  BY TakeContents DEF Queue!Read
<1>2. n \in 0 .. Len(Contents)
  BY Sizes
<1> QED  BY <1>1, <1>2 DEF AbstractStep, Queue!Next

\* coqueue_push writes one item.
LEMMA PushStep ==
  ASSUME RingOK, NEW x \in Item, coqueue_push(x)
  PROVE  RingOK' /\ AbstractStep
<1>1. 1 \in 1 .. MaxData
  BY RingAssumption
<1>2. <<x>> \in [1 .. 1 -> Item]
  OBVIOUS
<1> QED  BY <1>1, <1>2, WriteStep DEF coqueue_push

\* coringbuf_read copies the two parts of what wraps around one after the other.
LEMMA BufReadStep ==
  ASSUME RingOK, NEW n \in 0 .. MaxData, coringbuf_read(n)
  PROVE  RingOK' /\ AbstractStep
<1>1. PICK m \in 0 .. Readable : m = Least(n, Readable)
  <2>1. Least(n, Readable) \in 0 .. Readable
    BY RingAssumption, Sizes DEF Least, RingOK
  <2> QED  BY <2>1
<1>2. /\ head' = (head + m) % size
      /\ UNCHANGED <<kind, size, tail, buffer>>
      /\ got' = Ahead(m)
  BY <1>1 DEF coringbuf_read, Take
<1>3. Ahead(m) = [k \in 1 .. m |-> buffer[CellOf(size, head, k)]]
  <2>1. ASSUME NEW k \in 1 .. m
        PROVE  (IF k <= Least(m, ReadOnce) THEN buffer[head + k - 1]
                ELSE buffer[k - Least(m, ReadOnce) - 1]) = buffer[CellOf(size, head, k)]
    <3>1. CellOf(size, head, k) =
             IF k <= Least(m, ReadOnce) THEN head + k - 1 ELSE k - Least(m, ReadOnce) - 1
      BY <1>2, TakeEnds
    <3> QED  BY <3>1, Zenon
  <2> QED  BY <2>1 DEF Ahead
<1> QED  BY <1>2, <1>3, ReadStep

\* What coringbuf_consume_size drops is the first part, which starts at the head.
LEMMA ConsumeStep ==
  ASSUME RingOK, NEW n \in 0 .. MaxData, coringbuf_consume_size(n)
  PROVE  RingOK' /\ AbstractStep
<1>1. n \in 0 .. Readable /\ n <= ReadOnce /\ n \in Nat
  BY RingAssumption, Sizes DEF coringbuf_consume_size
<1>2. /\ head' = (head + n) % size
      /\ UNCHANGED <<kind, size, tail, buffer>>
      /\ got' = [k \in 1 .. n |-> buffer[head + k - 1]]
  BY DEF coringbuf_consume_size
<1>3. ASSUME NEW k \in 1 .. n
      PROVE  head + k - 1 = CellOf(size, head, k)
  <2>1. Least(n, ReadOnce) = n
    BY <1>1 DEF Least
  <2> QED  BY <1>1, <1>2, <2>1, TakeEnds
<1>4. got' = [k \in 1 .. n |-> buffer[CellOf(size, head, k)]]
  BY <1>2, <1>3
<1> QED  BY <1>1, <1>2, <1>4, ReadStep

\* coqueue_pop reads one item.
LEMMA PopStep ==
  ASSUME RingOK, coqueue_pop
  PROVE  RingOK' /\ AbstractStep
<1>1. 1 \in 0 .. Readable /\ head \in 0 .. size - 1 /\ size \in Nat \ {0}
  BY Sizes DEF coqueue_pop, RingOK
<1>2. /\ head' = (head + 1) % size
      /\ UNCHANGED <<kind, size, tail, buffer>>
      /\ got' = <<buffer[head]>>
  BY DEF coqueue_pop
<1>3. CellOf(size, head, 1) = head
  BY <1>1 DEF CellOf
<1>4. got' = [k \in 1 .. 1 |-> buffer[CellOf(size, head, k)]]
  BY <1>2, <1>3
<1> QED  BY <1>1, <1>2, <1>4, ReadStep

\* coqueue_peek looks at an item, counted from either end.
LEMMA PeekStep ==
  ASSUME RingOK, NEW index \in -MaxSize .. MaxSize, coqueue_peek(index)
  PROVE  RingOK' /\ AbstractStep
<1>1. PICK k \in 0 .. Readable - 1 : /\ got' = <<buffer[(head + k) % size]>>
                                     /\ UNCHANGED <<kind, size, head, tail, buffer>>
  BY DEF coqueue_peek
<1>2. /\ Readable \in 0 .. size - 1 /\ head \in 0 .. size - 1 /\ size \in Nat \ {0}
      /\ k + 1 \in 1 .. Readable
  BY <1>1, Sizes DEF RingOK
<1>3. PICK x \in Nat, m \in Nat \ {0} : x = head + k /\ m = size /\ x < m + m
  <2>1. head + k \in Nat /\ head + k < size + size
    BY <1>2
  <2> QED  BY <1>2, <2>1
<1>4. x % m = IF x < m THEN x ELSE x - m
  BY <1>3, ModuloOnce
<1>5. (head + k) % size = Cell(k + 1)
  BY <1>2, <1>3, <1>4 DEF Cell
<1>6. got' = <<Contents[k + 1]>>
  BY <1>1, <1>2, <1>5 DEF Contents
<1>7. Contents' = Contents
  BY <1>1 DEF Contents, Readable, Cell
<1>8. Contents[k + 1] \in Item /\ k + 1 \in 1 .. Len(Contents)
  BY <1>2, Sizes
<1>9. RingOK'
  BY <1>1, <1>6, <1>7, <1>8 DEF RingOK
<1>10. Queue!Peek(k + 1)
  BY <1>6, <1>7 DEF Queue!Peek
<1> QED  BY <1>8, <1>9, <1>10 DEF AbstractStep, Queue!Next

-----------------------------------------------------------------------------
(* The theorems.                                                                         *)

\* A new ring buffer and a new queue are empty.
LEMMA InitOK == ASSUME Init
                PROVE  RingOK /\ Queue!Init
<1>1. /\ kind \in {"ringbuf", "queue"} /\ size \in Nat \ {0}
      /\ head = 0 /\ tail = 0 /\ got = <<>>
      /\ buffer = [i \in 0 .. size - 1 |-> Junk]
  BY RingAssumption DEF Init
<1>2. Readable = 0
  BY <1>1 DEF Readable
<1>3. Contents = <<>>
  BY <1>2 DEF Contents
<1>4. head \in 0 .. size - 1 /\ tail \in 0 .. size - 1
  BY <1>1
<1> QED  BY <1>1, <1>3, <1>4 DEF RingOK, Queue!Init

\* Every call preserves RingOK and maps to a step of the abstract queue.
LEMMA Step == ASSUME RingOK, [Next]_vars
              PROVE  RingOK' /\ AbstractStep
<1>1. ASSUME NEW n \in 1 .. MaxData, NEW data \in [1 .. n -> Item], coringbuf_write(data)
      PROVE  RingOK' /\ AbstractStep
  BY <1>1, WriteStep DEF coringbuf_write
<1>2. ASSUME NEW x \in Item, coqueue_push(x)
      PROVE  RingOK' /\ AbstractStep
  BY <1>2, PushStep
<1>3. ASSUME NEW n \in 0 .. MaxData, coringbuf_read(n) \/ coringbuf_consume_size(n)
      PROVE  RingOK' /\ AbstractStep
  BY <1>3, BufReadStep, ConsumeStep
<1>4. CASE coqueue_pop
  BY <1>4, PopStep
<1>5. ASSUME NEW index \in -MaxSize .. MaxSize, coqueue_peek(index)
      PROVE  RingOK' /\ AbstractStep
  BY <1>5, PeekStep
<1>6. CASE UNCHANGED vars
  <2>1. Contents' = Contents /\ UNCHANGED got
    BY <1>6 DEF vars, Contents, Readable, Cell
  <2> QED  BY <1>6, <2>1 DEF vars, RingOK, AbstractStep
<1> QED  BY <1>1, <1>2, <1>3, <1>4, <1>5, <1>6 DEF Next

\* The ends of a queue stay inside its storage, and what is between them was written,
\* through every growth (_cb_check_and_grow, _check_and_grow) and wrap-around.
THEOREM RingOKAlways == Spec => []RingOK
<1>1. Init => RingOK
  BY InitOK
<1>2. RingOK /\ [Next]_vars => RingOK'
  BY Step
<1> QED  BY <1>1, <1>2, PTL DEF Spec

\* The ring buffer and the queue are first-in first-out: what they return is what was
\* written, once and in order, for every size and every sequence of calls.
THEOREM RingKeepsOrder == Spec => KeepsOrder
<1>1. Init => Queue!Init
  BY InitOK
<1>2. RingOK /\ [Next]_vars => [Queue!Next]_<<Contents, got>>
  BY Step DEF AbstractStep
<1> QED  BY <1>1, <1>2, RingOKAlways, PTL DEF Spec, KeepsOrder, Queue!Spec

-----------------------------------------------------------------------------
(* The indexes of the heap.                                                *)

\* A child's parent comes before it, and has no other children than two.
LEMMA ParentOf ==
  ASSUME NEW i \in Nat \ {0}
  PROVE  /\ HEAP_PARENT(i) \in 0 .. i - 1
         /\ i = HEAP_LCHILD(HEAP_PARENT(i)) \/ i = HEAP_RCHILD(HEAP_PARENT(i))
BY SMT DEF HEAP_PARENT, HEAP_LCHILD, HEAP_RCHILD

\* Both children of an index have it for their parent.
LEMMA ChildrenOf ==
  ASSUME NEW p \in Nat
  PROVE  /\ HEAP_LCHILD(p) \in Nat \ {0} /\ HEAP_RCHILD(p) \in Nat \ {0}
         /\ HEAP_LCHILD(p) > p /\ HEAP_RCHILD(p) = HEAP_LCHILD(p) + 1
         /\ HEAP_PARENT(HEAP_LCHILD(p)) = p
         /\ HEAP_PARENT(HEAP_RCHILD(p)) = p
BY SMT DEF HEAP_PARENT, HEAP_LCHILD, HEAP_RCHILD

\* Every non-empty set of naturals has a least element.
LEMMA LeastElement ==
  ASSUME NEW T \in SUBSET Nat, T # {}
  PROVE  \E x \in T : \A y \in T : x <= y
<1>1. PICK x \in T : \A y \in T : ~(<<y, x>> \in OpToRel(<, Nat))
  BY NatLessThanWellFounded, WFMin
<1>2. ASSUME NEW y \in T PROVE x <= y
  <2>1. <<y, x>> \in Nat \X Nat /\ ~(<<y, x>> \in OpToRel(<, Nat))
    BY <1>1
  <2>2. ~(y < x)
    BY <2>1 DEF OpToRel
  <2> QED  BY <2>2
<1> QED  BY <1>2

-----------------------------------------------------------------------------
(* The inductive invariant.                                                *)

\* The entry that moves is in the vector, unless the last was popped.
PQTypeOK ==
  /\ pqsize \in Nat
  /\ pqvec \in [0 .. pqsize - 1 -> Entry]
  /\ pqat \in Nat
  /\ pqpc \in {"idle", "up", "down"}
  /\ pqpc = "up" => pqat < pqsize
  /\ pqpc = "down" => pqat < pqsize \/ pqat = 0

\* No entry is in the vector twice.
Distinct == \A i, j \in 0 .. pqsize - 1 : pqvec[i] = pqvec[j] => i = j

IInv == PQTypeOK /\ Distinct /\ HeapOrdered

\* What is at an index has a priority.
LEMMA Priorities ==
  ASSUME PQTypeOK, NEW i \in 0 .. pqsize - 1
  PROVE  pqvec[i] \in Entry /\ Prio[pqvec[i]] \in Int
BY PQueueAssumption DEF PQTypeOK

\* An empty queue satisfies the invariant.
LEMMA InitInvariant == PQInit => IInv
<1> SUFFICES ASSUME PQInit PROVE IInv
  OBVIOUS
<1>1. 0 .. pqsize - 1 = {} /\ 1 .. pqsize - 1 = {}
  BY DEF PQInit
<1>2. pqvec \in [0 .. pqsize - 1 -> Entry]
  BY <1>1 DEF PQInit
<1> QED  BY <1>1, <1>2 DEF PQInit, IInv, PQTypeOK, Distinct, HeapOrdered

\* A swap with the parent or with a child keeps types and entries.
LEMMA SwapKeeps ==
  ASSUME PQTypeOK, Distinct, NEW k \in 0 .. pqsize - 1, pqat < pqsize, MoveTo(k)
  PROVE  /\ pqsize' \in Nat /\ pqvec' \in [0 .. pqsize' - 1 -> Entry]
         /\ pqat' \in 0 .. pqsize' - 1
         /\ Distinct'
         /\ pqvec'[k] = pqvec[pqat] /\ pqvec'[pqat] = pqvec[k]
         /\ \A i \in 0 .. pqsize - 1 : i # k /\ i # pqat => pqvec'[i] = pqvec[i]
<1>1. /\ pqat \in 0 .. pqsize - 1 /\ pqsize' = pqsize /\ pqat' = k
      /\ pqvec' = [pqvec EXCEPT ![pqat] = pqvec[k], ![k] = pqvec[pqat]]
  BY DEF PQTypeOK, MoveTo, Swap
<1>2. /\ pqvec' \in [0 .. pqsize' - 1 -> Entry]
      /\ pqvec'[k] = pqvec[pqat] /\ pqvec'[pqat] = pqvec[k]
      /\ \A i \in 0 .. pqsize - 1 : i # k /\ i # pqat => pqvec'[i] = pqvec[i]
  BY <1>1 DEF PQTypeOK
<1>3. Distinct'
  BY <1>1, <1>2 DEF Distinct
<1> QED  BY <1>1, <1>2, <1>3 DEF PQTypeOK

-----------------------------------------------------------------------------
(* One lemma for each step.                                                *)

\* A new entry comes last: no other entry gets a new parent.
LEMMA PushKeeps ==
  ASSUME IInv, NEW x \in Entry, copqueue_push(x)
  PROVE  IInv'
<1>1. /\ pqsize \in Nat /\ pqpc = "idle" /\ pqpc' = "up"
      /\ pqsize' = pqsize + 1 /\ pqat' = pqsize
      /\ pqvec' = [i \in 0 .. pqsize |-> IF i = pqsize THEN x ELSE pqvec[i]]
      /\ \A i \in 0 .. pqsize - 1 : pqvec[i] # x
  BY DEF copqueue_push, IInv, PQTypeOK
<1>2. PQTypeOK'
  BY <1>1 DEF IInv, PQTypeOK
<1>3. \A i \in 0 .. pqsize - 1 : pqvec'[i] = pqvec[i]
  BY <1>1
<1>4. Distinct'
  BY <1>1 DEF IInv, Distinct
<1>5. HeapOrdered'
  <2>1. ASSUME NEW i \in 1 .. pqsize' - 1, i # pqat' PROVE InOrder(i)'
    <3>1. i \in 1 .. pqsize - 1 /\ i \in Nat \ {0}
      BY <1>1, <2>1
    <3>2. HEAP_PARENT(i) \in 0 .. pqsize - 1
      BY <3>1, <1>1, ParentOf
    <3>3. InOrder(i)
      BY <3>1, <1>1 DEF IInv, HeapOrdered
    <3> QED  BY <3>1, <3>2, <3>3, <1>1, <1>3 DEF InOrder, HEAP_PARENT
  <2>2. ASSUME NEW i \in 1 .. pqsize' - 1 PROVE HEAP_PARENT(i) # pqat'
    BY <1>1, ParentOf
  <2> QED  BY <1>1, <2>1, <2>2 DEF HeapOrdered, AroundInOrder, HEAP_PARENT
<1> QED  BY <1>2, <1>4, <1>5 DEF IInv

\* The last entry comes first: only the children of the front get a new parent.
LEMMA PopKeeps ==
  ASSUME IInv, copqueue_pop
  PROVE  IInv'
<1>1. /\ pqsize \in Nat \ {0} /\ pqpc = "idle" /\ pqpc' = "down"
      /\ pqsize' = pqsize - 1 /\ pqat' = 0
      /\ pqvec' = [i \in 0 .. pqsize - 2 |-> IF i = 0 THEN pqvec[pqsize - 1] ELSE pqvec[i]]
  BY DEF copqueue_pop, IInv, PQTypeOK
<1>2. PQTypeOK'
  BY <1>1 DEF IInv, PQTypeOK
<1>3. Distinct'
  BY <1>1 DEF IInv, Distinct
<1>4. ASSUME NEW i \in 1 .. pqsize' - 1, HEAP_PARENT(i) # 0 PROVE InOrder(i)'
  <2>1. i \in 1 .. pqsize - 1 /\ i \in 1 .. pqsize - 2 /\ i \in Nat \ {0}
    BY <1>1
  <2>2. HEAP_PARENT(i) \in 1 .. pqsize - 2
    BY <2>1, <1>1, <1>4, ParentOf
  <2>3. InOrder(i)
    BY <2>1, <1>1 DEF IInv, HeapOrdered
  <2> QED  BY <2>1, <2>2, <2>3, <1>1 DEF InOrder, HEAP_PARENT
<1>5. HeapOrdered'
  BY <1>1, <1>4 DEF HeapOrdered, AroundInOrder, HEAP_PARENT
<1> QED  BY <1>2, <1>3, <1>5 DEF IInv

\* A rising entry changes places with its parent, which is no less than what is below.
LEMMA RiseKeeps ==
  ASSUME IInv, pqpc = "up", Rises, MoveTo(HEAP_PARENT(pqat))
  PROVE  IInv'
<1> DEFINE p == HEAP_PARENT(pqat)
<1>1. /\ pqat \in 0 .. pqsize - 1 /\ pqat \in Nat \ {0} /\ pqpc' = "up"
      /\ pqsize' = pqsize /\ pqat' = p
      /\ pqsize \in Nat /\ p \in 0 .. pqsize - 1 /\ p < pqat
  BY ParentOf DEF IInv, PQTypeOK, Rises, MoveTo
<1>2. /\ PQTypeOK' /\ Distinct'
      /\ pqvec'[p] = pqvec[pqat] /\ pqvec'[pqat] = pqvec[p]
      /\ \A i \in 0 .. pqsize - 1 : i # p /\ i # pqat => pqvec'[i] = pqvec[i]
  BY <1>1, SwapKeeps DEF IInv, PQTypeOK
<1>3. \A i \in 0 .. pqsize - 1 : Prio[pqvec[i]] \in Int
  BY Priorities DEF IInv
<1>4. Prio[pqvec[p]] < Prio[pqvec[pqat]]
  BY DEF Rises
<1>5. \A i \in 1 .. pqsize - 1 : i # pqat => Prio[pqvec[i]] <= Prio[pqvec[HEAP_PARENT(i)]]
  BY <1>1 DEF IInv, HeapOrdered, InOrder
<1>6. \A i \in 1 .. pqsize - 1 : HEAP_PARENT(i) = pqat => Prio[pqvec[i]] <= Prio[pqvec[p]]
  BY <1>1 DEF IInv, HeapOrdered, AroundInOrder
<1>7. \A i \in 1 .. pqsize - 1 : HEAP_PARENT(i) \in 0 .. pqsize - 1 /\ HEAP_PARENT(i) < i
  BY <1>1, ParentOf
<1>8. ASSUME NEW i \in 1 .. pqsize - 1, i # p
      PROVE  Prio[pqvec'[i]] <= Prio[pqvec'[HEAP_PARENT(i)]]
  <2>1. CASE i = pqat
    BY <2>1, <1>1, <1>2, <1>3, <1>4
  <2>2. CASE i # pqat /\ HEAP_PARENT(i) = p
    BY <2>2, <1>1, <1>2, <1>3, <1>4, <1>5, <1>8
  <2>3. CASE i # pqat /\ HEAP_PARENT(i) = pqat
    BY <2>3, <1>1, <1>2, <1>3, <1>6, <1>8
  <2>4. CASE i # pqat /\ HEAP_PARENT(i) # p /\ HEAP_PARENT(i) # pqat
    BY <2>4, <1>1, <1>2, <1>5, <1>7, <1>8
  <2> QED  BY <2>1, <2>2, <2>3, <2>4
<1>9. ASSUME NEW i \in 1 .. pqsize - 1, HEAP_PARENT(i) = p, p > 0
      PROVE  Prio[pqvec'[i]] <= Prio[pqvec'[HEAP_PARENT(p)]]
  <2>1. p \in 1 .. pqsize - 1 /\ HEAP_PARENT(p) \in 0 .. pqsize - 1 /\ HEAP_PARENT(p) < p
    BY <1>1, <1>7, <1>9
  <2>2. pqvec'[HEAP_PARENT(p)] = pqvec[HEAP_PARENT(p)]
    BY <2>1, <1>1, <1>2
  <2>3. Prio[pqvec[p]] <= Prio[pqvec[HEAP_PARENT(p)]]
    BY <2>1, <1>1, <1>5
  <2>4. CASE i = pqat
    BY <2>2, <2>3, <2>4, <1>2
  <2>5. CASE i # pqat
    <3>1. pqvec'[i] = pqvec[i] /\ Prio[pqvec[i]] <= Prio[pqvec[p]]
      BY <2>5, <1>2, <1>5, <1>7, <1>9
    <3> QED  BY <3>1, <2>1, <2>2, <2>3, <1>1, <1>3
  <2> QED  BY <2>4, <2>5
<1>10. HeapOrdered'
  <2>1. \A i \in 1 .. pqsize' - 1 : InOrder(i)' \/ i = pqat'
    BY <1>1, <1>8 DEF InOrder, HEAP_PARENT
  <2>2. AroundInOrder'
    BY <1>1, <1>9 DEF AroundInOrder, HEAP_PARENT
  <2> QED  BY <1>1, <2>1, <2>2 DEF HeapOrdered
<1> QED  BY <1>2, <1>10 DEF IInv

\* A sinking entry changes places with the greater child, which takes the place above the other.
LEMMA SinkKeeps ==
  ASSUME IInv, pqpc = "down", Sinks, MoveTo(GreaterChild(pqat))
  PROVE  IInv'
<1> DEFINE c == GreaterChild(pqat)
<1>1. /\ pqat \in Nat /\ pqpc' = "down" /\ pqsize' = pqsize /\ pqat' = c /\ pqsize \in Nat
      /\ HEAP_LCHILD(pqat) < pqsize
      /\ c = HEAP_LCHILD(pqat) \/ c = HEAP_RCHILD(pqat)
      /\ c = HEAP_RCHILD(pqat) => HEAP_RCHILD(pqat) < pqsize
      /\ Prio[pqvec[pqat]] < Prio[pqvec[c]]
  BY ChildrenOf DEF IInv, PQTypeOK, Sinks, MoveTo, GreaterChild
<1>2. /\ c \in 1 .. pqsize - 1 /\ c > pqat /\ HEAP_PARENT(c) = pqat
      /\ pqat \in 0 .. pqsize - 1
  BY <1>1, ChildrenOf
<1>3. /\ PQTypeOK' /\ Distinct'
      /\ pqvec'[c] = pqvec[pqat] /\ pqvec'[pqat] = pqvec[c]
      /\ \A i \in 0 .. pqsize - 1 : i # c /\ i # pqat => pqvec'[i] = pqvec[i]
  BY <1>1, <1>2, SwapKeeps DEF IInv, PQTypeOK
<1>4. \A i \in 0 .. pqsize - 1 : Prio[pqvec[i]] \in Int
  BY Priorities DEF IInv
<1>5. \A i \in 1 .. pqsize - 1 :
        HEAP_PARENT(i) # pqat => Prio[pqvec[i]] <= Prio[pqvec[HEAP_PARENT(i)]]
  BY <1>1 DEF IInv, HeapOrdered, InOrder
<1>6. pqat > 0 => \A i \in 1 .. pqsize - 1 :
        HEAP_PARENT(i) = pqat => Prio[pqvec[i]] <= Prio[pqvec[HEAP_PARENT(pqat)]]
  BY <1>1 DEF IInv, HeapOrdered, AroundInOrder
<1>7. \A i \in 1 .. pqsize - 1 : HEAP_PARENT(i) \in 0 .. pqsize - 1 /\ HEAP_PARENT(i) < i
  BY <1>1, ParentOf
<1>8. ASSUME NEW i \in 1 .. pqsize - 1, HEAP_PARENT(i) = pqat
      PROVE  Prio[pqvec[i]] <= Prio[pqvec[c]]
  <2>1. i = HEAP_LCHILD(pqat) \/ i = HEAP_RCHILD(pqat)
    BY <1>8, ParentOf
  <2>2. HEAP_LCHILD(pqat) \in 0 .. pqsize - 1
    BY <1>1, ChildrenOf
  <2>3. CASE i = HEAP_LCHILD(pqat)
    BY <2>2, <2>3, <1>1, <1>2, <1>4 DEF GreaterChild
  <2>4. CASE i = HEAP_RCHILD(pqat)
    BY <2>2, <2>4, <1>1, <1>2, <1>4 DEF GreaterChild
  <2> QED  BY <2>1, <2>3, <2>4
<1>9. ASSUME NEW i \in 1 .. pqsize - 1, HEAP_PARENT(i) # c
      PROVE  Prio[pqvec'[i]] <= Prio[pqvec'[HEAP_PARENT(i)]]
  <2>1. CASE i = c
    BY <2>1, <1>1, <1>2, <1>3, <1>4
  <2>2. CASE i # c /\ HEAP_PARENT(i) = pqat
    <3>1. i # pqat
      BY <2>2, <1>7
    <3> QED  BY <2>2, <3>1, <1>3, <1>8
  <2>3. CASE i = pqat
    <3>1. HEAP_PARENT(i) # pqat /\ HEAP_PARENT(i) # c
      BY <2>3, <1>2, <1>7
    <3>2. Prio[pqvec[c]] <= Prio[pqvec[HEAP_PARENT(pqat)]]
      BY <2>3, <1>2, <1>6
    <3> QED  BY <2>3, <3>1, <3>2, <1>3, <1>7
  <2>4. CASE i # c /\ i # pqat /\ HEAP_PARENT(i) # pqat
    BY <2>4, <1>3, <1>5, <1>7, <1>9
  <2> QED  BY <2>1, <2>2, <2>3, <2>4
<1>10. ASSUME NEW i \in 1 .. pqsize - 1, HEAP_PARENT(i) = c
       PROVE  Prio[pqvec'[i]] <= Prio[pqvec'[HEAP_PARENT(c)]]
  <2>1. i # c /\ i # pqat
    BY <1>2, <1>7, <1>10
  <2>2. Prio[pqvec[i]] <= Prio[pqvec[c]]
    BY <1>2, <1>5, <1>10
  <2> QED  BY <2>1, <2>2, <1>2, <1>3
<1>11. HeapOrdered'
  <2>1. \A i \in 1 .. pqsize' - 1 : InOrder(i)' \/ HEAP_PARENT(i) = pqat'
    BY <1>1, <1>9 DEF InOrder, HEAP_PARENT
  <2>2. AroundInOrder'
    BY <1>1, <1>10 DEF AroundInOrder, HEAP_PARENT
  <2> QED  BY <1>1, <2>1, <2>2 DEF HeapOrdered, HEAP_PARENT
<1> QED  BY <1>3, <1>11 DEF IInv

\* An entry that stays where it is, because it is at an end or in order with its neighbours.
LEMMA SettleKeeps ==
  ASSUME IInv, Settle, (pqpc = "up" /\ ~Rises) \/ (pqpc = "down" /\ ~Sinks)
  PROVE  IInv' /\ \A i \in 1 .. pqsize - 1 : InOrder(i)
<1>1. pqsize \in Nat /\ pqat \in Nat
  BY DEF IInv, PQTypeOK
<1>2. \A i \in 0 .. pqsize - 1 : Prio[pqvec[i]] \in Int
  BY Priorities DEF IInv
<1>3. ASSUME NEW i \in 1 .. pqsize - 1 PROVE InOrder(i)
  <2>1. HEAP_PARENT(i) \in 0 .. pqsize - 1
    BY <1>1, ParentOf
  <2>2. CASE pqpc = "up" /\ ~Rises
    BY <2>1, <2>2, <1>1, <1>2 DEF Rises, InOrder, IInv, HeapOrdered
  <2>3. CASE pqpc = "down" /\ ~Sinks /\ HEAP_PARENT(i) = pqat
    <3>1. i = HEAP_LCHILD(pqat) \/ i = HEAP_RCHILD(pqat)
      BY <2>3, ParentOf
    <3>2. HEAP_LCHILD(pqat) \in 0 .. pqsize - 1 /\ HEAP_RCHILD(pqat) \in Nat
      BY <3>1, <1>1, ChildrenOf
    <3>3. /\ GreaterChild(pqat) \in 0 .. pqsize - 1
          /\ \/ GreaterChild(pqat) = HEAP_LCHILD(pqat)
                /\ (HEAP_RCHILD(pqat) < pqsize
                      => ~(Prio[pqvec[HEAP_LCHILD(pqat)]] < Prio[pqvec[HEAP_RCHILD(pqat)]]))
             \/ GreaterChild(pqat) = HEAP_RCHILD(pqat)
                /\ Prio[pqvec[HEAP_LCHILD(pqat)]] < Prio[pqvec[HEAP_RCHILD(pqat)]]
      BY <3>2, <1>1 DEF GreaterChild
    <3>4. ~(Prio[pqvec[pqat]] < Prio[pqvec[GreaterChild(pqat)]])
      BY <2>3, <3>2, <1>1 DEF Sinks
    <3>5. Prio[pqvec[i]] <= Prio[pqvec[GreaterChild(pqat)]]
      <4>1. CASE i = HEAP_LCHILD(pqat)
        BY <4>1, <3>2, <3>3, <1>2
      <4>2. CASE i = HEAP_RCHILD(pqat)
        BY <4>2, <3>2, <3>3, <1>1, <1>2
      <4> QED  BY <3>1, <4>1, <4>2
    <3> QED  BY <2>1, <2>3, <3>3, <3>4, <3>5, <1>2 DEF InOrder
  <2>4. CASE pqpc = "down" /\ HEAP_PARENT(i) # pqat
    BY <2>4 DEF IInv, HeapOrdered
  <2> QED  BY <2>2, <2>3, <2>4
<1>4. PQTypeOK' /\ Distinct'
  BY DEF IInv, PQTypeOK, Distinct, Settle
<1>5. HeapOrdered'
  BY <1>3 DEF HeapOrdered, Settle, InOrder, HEAP_PARENT
<1> QED  BY <1>3, <1>4, <1>5 DEF IInv

\* Every step of the queue keeps the invariant.
LEMMA NextInvariant == IInv /\ [PQNext]_pqvars => IInv'
<1> SUFFICES ASSUME IInv, [PQNext]_pqvars PROVE IInv'
  OBVIOUS
<1>1. ASSUME NEW x \in Entry, copqueue_push(x) PROVE IInv'
  BY <1>1, PushKeeps
<1>2. CASE copqueue_pop
  BY <1>2, PopKeeps
<1>3. CASE _heap_up_tail
  BY <1>3, RiseKeeps, SettleKeeps DEF _heap_up_tail
<1>4. CASE _heap_down_head
  BY <1>4, SinkKeeps, SettleKeeps DEF _heap_down_head
<1>5. CASE UNCHANGED pqvars
  BY <1>5 DEF pqvars, IInv, PQTypeOK, Distinct, HeapOrdered, AroundInOrder, InOrder, HEAP_PARENT
<1> QED  BY <1>1, <1>2, <1>3, <1>4, <1>5 DEF PQNext

-----------------------------------------------------------------------------
(* The theorems.                                                           *)

\* IInv holds in every reachable state of copqueue_push and copqueue_pop, between any two
\* comparisons of their loops.
THEOREM Invariance == PQSpec => []IInv
<1>1. PQInit => IInv
  BY InitInvariant
<1>2. IInv /\ [PQNext]_pqvars => IInv'
  BY NextInvariant
<1> QED  BY <1>1, <1>2, PTL DEF PQSpec

\* The heap is in order but for the entry that _heap_up_tail or _heap_down_head moves.
THEOREM HeapOrderedAlways == PQSpec => []HeapOrdered
<1>1. IInv => HeapOrdered
  BY DEF IInv
<1> QED  BY <1>1, Invariance, PTL

\* In a heap the front is a greatest entry: of those that are greater the first has a
\* parent that is not.
LEMMA FrontIsGreatest ==
  ASSUME PQTypeOK, \A i \in 1 .. pqsize - 1 : InOrder(i), NEW k \in 0 .. pqsize - 1
  PROVE  Prio[pqvec[k]] <= Prio[pqvec[0]]
<1> DEFINE Greater == {i \in 0 .. pqsize - 1 : ~(Prio[pqvec[i]] <= Prio[pqvec[0]])}
<1>1. pqsize \in Nat /\ \A i \in 0 .. pqsize - 1 : Prio[pqvec[i]] \in Int
  BY Priorities DEF PQTypeOK
<1>2. ASSUME Greater # {} PROVE FALSE
  <2>1. Greater \in SUBSET Nat
    BY <1>1
  <2>2. PICK i \in Greater : \A j \in Greater : i <= j
    BY <1>2, <2>1, LeastElement
  <2>3. i \in 1 .. pqsize - 1 /\ i \in Nat \ {0}
    BY <1>1, <2>2
  <2>4. HEAP_PARENT(i) \in 0 .. pqsize - 1 /\ HEAP_PARENT(i) < i
    BY <1>1, <2>3, ParentOf
  <2>5. Prio[pqvec[HEAP_PARENT(i)]] <= Prio[pqvec[0]]
    BY <2>2, <2>3, <2>4
  <2>6. Prio[pqvec[i]] <= Prio[pqvec[HEAP_PARENT(i)]]
    BY <2>3 DEF InOrder
  <2>7. Prio[pqvec[i]] <= Prio[pqvec[0]]
    BY <1>1, <2>3, <2>4, <2>5, <2>6
  <2> QED  BY <2>2, <2>7
<1> QED  BY <1>2

\* The entries in the queue, as the refinement has them.
Entries == {pqvec[i] : i \in 0 .. pqsize - 1}

\* copqueue_push puts an entry that was not there.
LEMMA PushPuts ==
  ASSUME IInv, NEW x \in Entry, copqueue_push(x)
  PROVE  PS!Put(x)
<1>1. /\ pqsize \in Nat /\ pqsize' = pqsize + 1 /\ pqgot' = pqgot
      /\ pqvec' = [i \in 0 .. pqsize |-> IF i = pqsize THEN x ELSE pqvec[i]]
      /\ \A i \in 0 .. pqsize - 1 : pqvec[i] # x
  BY DEF copqueue_push, IInv, PQTypeOK
<1>2. x \notin Entries
  BY <1>1 DEF Entries
<1>3. Entries' = Entries \cup {x}
  <2>1. pqvec'[pqsize] = x /\ \A i \in 0 .. pqsize - 1 : pqvec'[i] = pqvec[i]
    BY <1>1
  <2>2. 0 .. pqsize' - 1 = (0 .. pqsize - 1) \cup {pqsize}
    BY <1>1
  <2> QED  BY <2>1, <2>2 DEF Entries
<1> QED  BY <1>1, <1>2, <1>3 DEF PS!Put, Entries

\* copqueue_pop takes the front, which is a greatest entry, and only that.
LEMMA PopTakes ==
  ASSUME IInv, copqueue_pop
  PROVE  \E x \in Entry : PS!Take(x)
<1>1. /\ pqsize \in Nat \ {0} /\ pqsize' = pqsize - 1 /\ pqgot' = <<pqvec[0]>>
      /\ pqvec' = [i \in 0 .. pqsize - 2 |-> IF i = 0 THEN pqvec[pqsize - 1] ELSE pqvec[i]]
  BY DEF copqueue_pop, IInv, PQTypeOK
<1>2. \A i \in 1 .. pqsize - 1 : InOrder(i)
  BY DEF copqueue_pop, IInv, HeapOrdered
<1>3. \A y \in Entries : Prio[y] <= Prio[pqvec[0]]
  BY <1>2, FrontIsGreatest DEF IInv, Entries
<1>4. pqvec[0] \in Entry /\ pqvec[0] \in Entries
  BY <1>1 DEF IInv, PQTypeOK, Entries
<1>5. Entries' = Entries \ {pqvec[0]}
  <2>1. \A i \in 0 .. pqsize - 1 : pqvec[i] = pqvec[0] <=> i = 0
    BY <1>1 DEF IInv, Distinct
  <2>2. ASSUME NEW i \in 0 .. pqsize' - 1
        PROVE  \E j \in 1 .. pqsize - 1 : pqvec'[i] = pqvec[j]
    <3>1. CASE i = 0
      BY <1>1, <2>2, <3>1
    <3>2. CASE i # 0
      BY <1>1, <2>2, <3>2
    <3> QED  BY <3>1, <3>2
  <2>3. ASSUME NEW j \in 1 .. pqsize - 1
        PROVE  \E i \in 0 .. pqsize' - 1 : pqvec'[i] = pqvec[j]
    <3>1. CASE j = pqsize - 1
      BY <1>1, <2>3, <3>1
    <3>2. CASE j # pqsize - 1
      BY <1>1, <2>3, <3>2
    <3> QED  BY <3>1, <3>2
  <2>4. Entries' = {pqvec[j] : j \in 1 .. pqsize - 1}
    BY <2>2, <2>3 DEF Entries
  <2>5. Entries \ {pqvec[0]} = {pqvec[j] : j \in 1 .. pqsize - 1}
    BY <1>1, <2>1 DEF Entries
  <2> QED  BY <2>4, <2>5
<1>6. PICK x \in Entry : x = pqvec[0]
  BY <1>4
<1>7. PS!Take(x)
  BY <1>1, <1>3, <1>4, <1>5, <1>6 DEF PS!Take, Entries
<1> QED  BY <1>7

\* A turn of a loop only changes places.
LEMMA MoveStutters ==
  ASSUME IInv, NEW k \in 0 .. pqsize - 1, pqat < pqsize, MoveTo(k)
  PROVE  Entries' = Entries /\ pqgot' = pqgot
<1>1. /\ pqsize \in Nat /\ pqat \in 0 .. pqsize - 1 /\ pqsize' = pqsize /\ pqgot' = pqgot
      /\ pqvec'[k] = pqvec[pqat] /\ pqvec'[pqat] = pqvec[k]
      /\ \A i \in 0 .. pqsize - 1 : i # k /\ i # pqat => pqvec'[i] = pqvec[i]
  BY SwapKeeps DEF IInv, PQTypeOK, MoveTo
<1>2. \A i \in 0 .. pqsize - 1 : \E j \in 0 .. pqsize - 1 : pqvec'[i] = pqvec[j]
  BY <1>1
<1>3. \A j \in 0 .. pqsize - 1 : \E i \in 0 .. pqsize - 1 : pqvec'[i] = pqvec[j]
  BY <1>1
<1>4. Entries' = {pqvec'[i] : i \in 0 .. pqsize - 1}
  BY <1>1 DEF Entries
<1>5. ASSUME NEW e PROVE e \in Entries' <=> e \in Entries
  <2>1. e \in Entries' <=> \E i \in 0 .. pqsize - 1 : e = pqvec'[i]
    BY <1>4
  <2>2. e \in Entries <=> \E j \in 0 .. pqsize - 1 : e = pqvec[j]
    BY DEF Entries
  <2> QED  BY <2>1, <2>2, <1>2, <1>3
<1> QED  BY <1>1, <1>5

\* The priority queue implements PrioritySet: copqueue_pop returns an entry as great as any,
\* and no entry is lost or returned twice, however many were pushed with equal priority.
THEOREM PopsGreatestAlways == PQSpec => PopsGreatest
<1>1. PQInit => PS!Init
  <2>1. PQInit => Entries = {}
    BY DEF PQInit, Entries
  <2> QED  BY <2>1 DEF PQInit, PS!Init, Entries
<1>2. IInv /\ [PQNext]_pqvars => [PS!Next]_<<Entries, pqgot>>
  <2> SUFFICES ASSUME IInv, [PQNext]_pqvars PROVE [PS!Next]_<<Entries, pqgot>>
    OBVIOUS
  <2>1. ASSUME NEW x \in Entry, copqueue_push(x) PROVE PS!Next
    BY <2>1, PushPuts DEF PS!Next
  <2>2. CASE copqueue_pop
    BY <2>2, PopTakes DEF PS!Next
  <2>3. CASE pqpc = "up" /\ Rises /\ MoveTo(HEAP_PARENT(pqat))
    <3>1. HEAP_PARENT(pqat) \in 0 .. pqsize - 1 /\ pqat < pqsize
      BY <2>3, ParentOf DEF IInv, PQTypeOK, Rises
    <3> QED  BY <2>3, <3>1, MoveStutters
  <2>4. CASE pqpc = "down" /\ Sinks /\ MoveTo(GreaterChild(pqat))
    <3>1. GreaterChild(pqat) \in 0 .. pqsize - 1 /\ pqat < pqsize
      <4>1. /\ pqsize \in Nat /\ pqat \in Nat /\ HEAP_LCHILD(pqat) < pqsize
            /\ \/ GreaterChild(pqat) = HEAP_LCHILD(pqat)
               \/ GreaterChild(pqat) = HEAP_RCHILD(pqat) /\ HEAP_RCHILD(pqat) < pqsize
        BY <2>4 DEF IInv, PQTypeOK, Sinks, GreaterChild
      <4> QED  BY <4>1, ChildrenOf
    <3> QED  BY <2>4, <3>1, MoveStutters
  <2>5. CASE Settle
    BY <2>5 DEF Settle, Entries
  <2>6. CASE UNCHANGED pqvars
    BY <2>6 DEF pqvars, Entries
  <2> QED  BY <2>1, <2>2, <2>3, <2>4, <2>5, <2>6 DEF PQNext, _heap_up_tail, _heap_down_head
<1>3. IInv /\ [PQNext]_pqvars => [PS!Next]_<<{pqvec[i] : i \in 0 .. pqsize - 1}, pqgot>>
  BY <1>2 DEF Entries
<1> QED  BY <1>1, <1>3, Invariance, PTL DEF PQSpec, PopsGreatest, PS!Spec
=============================================================================
