-------------------------- MODULE CoRoutine_proof --------------------------
(***************************************************************************)
(* Proofs about the coroutine scheduler for every initial size and every   *)
(* number of coroutines.                                                   *)
(***************************************************************************)
EXTENDS CoRoutine, FiniteSetTheorems, WellFoundedInduction,
        SequenceTheorems, TLAPS

-----------------------------------------------------------------------------
(* Facts about numbers and about chains. *)

\* Every non-empty set of naturals has a least element.
LEMMA LeastElement ==
  ASSUME NEW T \in SUBSET Nat, T # {}
  PROVE  \E x \in T : \A y \in T : x <= y
<1>1. \E x \in T : \A y \in T : ~(<<y, x>> \in OpToRel(<, Nat))
  BY NatLessThanWellFounded, WFMin
<1>2. PICK x \in T : \A y \in T : ~(<<y, x>> \in OpToRel(<, Nat))
  BY <1>1
<1>3. ASSUME NEW y \in T PROVE x <= y
  <2>1. ~(<<y, x>> \in OpToRel(<, Nat))
    BY <1>2
  <2>2. <<y, x>> \in Nat \X Nat
    OBVIOUS
  <2>3. ~(y < x)
    BY <2>1, <2>2 DEF OpToRel
  <2> QED
    BY <2>3
<1> QED
  BY <1>3

\* The scan of cort_new reaches slot f of a table of n slots from any start.
LEMMA ScanReaches ==
  ASSUME NEW n \in Nat \ {0}, NEW start \in 0 .. n - 1, NEW f \in 0 .. n - 1
  PROVE  \E i \in 0 .. n - 1 : (i + start) % n = f
<1>1. CASE f >= start
  <2>1. f % n = f
    OBVIOUS
  <2>2. f - start \in 0 .. n - 1 /\ (f - start) + start = f
    BY <1>1
  <2> QED
    BY <2>1, <2>2
<1>2. CASE f < start
  <2>1. (f + n) % n = f
    OBVIOUS
  <2>2. f - start + n \in 0 .. n - 1
    BY <1>2
  <2>3. (f - start + n) + start = f + n
    OBVIOUS
  <2> QED
    BY <2>1, <2>2, <2>3
<1> QED
  BY <1>1, <1>2

\* Two chains over the same links that end in the same coroutine are equal: going
\* down from their end they can never part.
LEMMA ChainUnique ==
  ASSUME NEW n \in Nat, NEW act, NEW link, NEW last,
         NEW s \in [1 .. n -> act], NEW t \in [1 .. n -> act],
         IsChain(s, n, act, link, last), IsChain(t, n, act, link, last)
  PROVE  s = t
<1> DEFINE Bad == {k \in 0 .. n - 1 : s[n - k] # t[n - k]}
<1>1. SUFFICES Bad = {}
  <2>1. \A j \in 1 .. n : n - j \in 0 .. n - 1 /\ n - (n - j) = j
    OBVIOUS
  <2>2. ASSUME Bad = {}, NEW j \in 1 .. n PROVE s[j] = t[j]
    BY <2>1, <2>2
  <2> QED
    BY <2>2
<1>2. SUFFICES ASSUME Bad # {} PROVE FALSE
  OBVIOUS
<1>3. PICK k \in Bad : \A y \in Bad : k <= y
  <2>1. Bad \in SUBSET Nat
    OBVIOUS
  <2> HIDE DEF Bad
  <2> QED
    BY <1>2, <2>1, LeastElement
<1>4. k \in 0 .. n - 1 /\ s[n - k] # t[n - k]
  BY <1>3
<1>5. k # 0
  BY <1>4 DEF IsChain
<1>6. k - 1 \in 0 .. n - 1 /\ n - (k - 1) \in 2 .. n /\ (n - (k - 1)) - 1 = n - k
  BY <1>4, <1>5
<1>7. s[n - (k - 1)] = t[n - (k - 1)]
  BY <1>3, <1>6
<1>8. s[n - k] = link[s[n - (k - 1)]] /\ t[n - k] = link[t[n - (k - 1)]]
  <2>1. \A m \in 2 .. n : link[s[m]] = s[m - 1] /\ link[t[m]] = t[m - 1]
    BY DEF IsChain
  <2> QED
    BY ONLY <1>6, <2>1
<1> QED
  BY <1>4, <1>7, <1>8

\* A chain is as long as there are active coroutines.
LEMMA ChainLength ==
  ASSUME NEW n \in Nat, NEW act, NEW link, NEW last, NEW s \in [1 .. n -> act],
         IsChain(s, n, act, link, last)
  PROVE  IsFiniteSet(act) /\ Cardinality(act) = n
<1>1. s \in Bijection(1 .. n, act)
  BY DEF IsChain, Bijection, Injection, IsInjective, Surjection
<1>2. ExistsBijection(1 .. n, act)
  BY <1>1 DEF ExistsBijection
<1>3. IsFiniteSet(1 .. n)
  BY FS_Interval
<1> QED
  BY <1>2, <1>3, FS_CountingElements, FS_Bijection

Push(s, n, id) == [k \in 1 .. n + 1 |-> IF k = n + 1 THEN id ELSE s[k]]

Pop(s, n) == [k \in 1 .. n - 1 |-> s[k]]

\* The resumer of every member but the main one is a member below the last.
LEMMA ChainLinks ==
  ASSUME NEW n \in Nat, NEW act, NEW link, NEW last, NEW s \in [1 .. n -> act],
         IsChain(s, n, act, link, last)
  PROVE  /\ MAIN_CO_ID \in act
         /\ last \in act
         /\ \A id \in act \ {MAIN_CO_ID} : link[id] \in act /\ link[id] # last
<1>1. 1 \in 1 .. n /\ n \in 1 .. n
  BY DEF IsChain
<1>2. MAIN_CO_ID \in act /\ last \in act
  BY <1>1 DEF IsChain
<1>3. ASSUME NEW id \in act \ {MAIN_CO_ID}
      PROVE  link[id] \in act /\ link[id] # last
  <2>1. PICK k \in 1 .. n : s[k] = id
    BY DEF IsChain
  <2>2. k # 1
    BY <2>1 DEF IsChain
  <2>3. k \in 2 .. n /\ k - 1 \in 1 .. n /\ k - 1 # n
    BY <2>1, <2>2
  <2>4. link[id] = s[k - 1]
    BY <2>1, <2>3 DEF IsChain
  <2>5. s[k - 1] # s[n]
    BY <1>1, <2>3 DEF IsChain
  <2> QED
    BY <2>3, <2>4, <2>5 DEF IsChain
<1> QED
  BY <1>2, <1>3

\* A chain is still one when only links of others change.
LEMMA ChainSame ==
  ASSUME NEW n \in Nat, NEW act, NEW link, NEW last, NEW s \in [1 .. n -> act],
         IsChain(s, n, act, link, last),
         NEW link2, \A id \in act : link2[id] = link[id]
  PROVE  IsChain(s, n, act, link2, last)
<1>1. \A k \in 2 .. n : k \in 1 .. n
  OBVIOUS
<1>2. \A k \in 2 .. n : link2[s[k]] = link[s[k]]
  BY <1>1
<1> QED
  BY <1>2 DEF IsChain

\* A coroutine resumed by the last one of a chain extends it.
LEMMA ChainPush ==
  ASSUME NEW n \in Nat, NEW act, NEW link, NEW last, NEW s \in [1 .. n -> act],
         IsChain(s, n, act, link, last),
         NEW id, id \notin act,
         NEW link2, link2[id] = last, \A x \in act : link2[x] = link[x]
  PROVE  /\ Push(s, n, id) \in [1 .. n + 1 -> act \cup {id}]
         /\ IsChain(Push(s, n, id), n + 1, act \cup {id}, link2, id)
<1> DEFINE t == Push(s, n, id)
<1>1. t \in [1 .. n + 1 -> act \cup {id}]
  BY DEF Push
<1>2. t[n + 1] = id /\ \A k \in 1 .. n : t[k] = s[k] /\ s[k] \in act
  BY DEF Push
<1>3. n >= 1 /\ s[1] = MAIN_CO_ID /\ s[n] = last
  BY DEF IsChain
<1>4. ASSUME NEW k \in 2 .. n + 1 PROVE link2[t[k]] = t[k - 1]
  <2>1. CASE k = n + 1
    BY <1>2, <1>3, <2>1
  <2>2. CASE k \in 2 .. n
    <3>1. k \in 1 .. n /\ k - 1 \in 1 .. n
      BY <2>2
    <3>2. link[s[k]] = s[k - 1]
      BY <2>2 DEF IsChain
    <3> QED
      BY <1>2, <3>1, <3>2
  <2> QED
    BY <2>1, <2>2
<1>5. ASSUME NEW k \in 1 .. n + 1, NEW m \in 1 .. n + 1, t[k] = t[m] PROVE k = m
  <2>1. \A a, b \in 1 .. n : s[a] = s[b] => a = b
    BY DEF IsChain
  <2>2. (k = n + 1 \/ k \in 1 .. n) /\ (m = n + 1 \/ m \in 1 .. n)
    OBVIOUS
  <2> QED
    BY <1>2, <1>5, <2>1, <2>2
<1>6. ASSUME NEW x \in act \cup {id} PROVE \E k \in 1 .. n + 1 : t[k] = x
  <2>1. CASE x = id
    BY <1>2, <2>1
  <2>2. CASE x \in act
    <3>1. PICK k \in 1 .. n : s[k] = x
      BY <2>2 DEF IsChain
    <3> QED
      BY <1>2, <3>1
  <2> QED
    BY <2>1, <2>2
<1>7. t[1] = MAIN_CO_ID
  BY <1>2, <1>3
<1> HIDE DEF t
<1>8. IsChain(t, n + 1, act \cup {id}, link2, id)
  BY <1>2, <1>3, <1>4, <1>5, <1>6, <1>7 DEF IsChain
<1> QED
  BY <1>1, <1>8 DEF t

\* Without its last coroutine, a chain ends in the one that resumed it.
LEMMA ChainPop ==
  ASSUME NEW n \in Nat, NEW act, NEW link, NEW last, NEW s \in [1 .. n -> act],
         IsChain(s, n, act, link, last), last # MAIN_CO_ID
  PROVE  /\ n >= 2
         /\ Pop(s, n) \in [1 .. n - 1 -> act \ {last}]
         /\ IsChain(Pop(s, n), n - 1, act \ {last}, link, link[last])
<1> DEFINE t == Pop(s, n)
<1>1. n >= 2
  BY DEF IsChain
<1>2. s[n] = last /\ s[1] = MAIN_CO_ID
  BY DEF IsChain
<1>3. \A a, b \in 1 .. n : s[a] = s[b] => a = b
  BY DEF IsChain
<1>4. \A k \in 1 .. n - 1 : k \in 1 .. n /\ t[k] = s[k] /\ s[k] \in act \ {last}
  BY <1>1, <1>2, <1>3 DEF Pop
<1>5. t \in [1 .. n - 1 -> act \ {last}]
  BY <1>4 DEF Pop
<1>6. t[n - 1] = link[last]
  <2>1. link[s[n]] = s[n - 1]
    BY <1>1 DEF IsChain
  <2> QED
    BY <1>1, <1>2, <1>4, <2>1
<1>7. ASSUME NEW k \in 2 .. n - 1 PROVE link[t[k]] = t[k - 1]
  <2>1. k \in 2 .. n /\ k \in 1 .. n - 1 /\ k - 1 \in 1 .. n - 1
    OBVIOUS
  <2>2. link[s[k]] = s[k - 1]
    BY <2>1 DEF IsChain
  <2> QED
    BY <1>4, <2>1, <2>2
<1>8. ASSUME NEW x \in act \ {last} PROVE \E k \in 1 .. n - 1 : t[k] = x
  <2>1. PICK k \in 1 .. n : s[k] = x
    BY DEF IsChain
  <2>2. k \in 1 .. n - 1
    BY <1>2, <2>1
  <2> QED
    BY <1>4, <2>1, <2>2
<1>9. t[1] = MAIN_CO_ID /\ n - 1 >= 1 /\ n - 1 \in Nat
  BY <1>1, <1>2, <1>4
<1>10. \A k, m \in 1 .. n - 1 : t[k] = t[m] => k = m
  BY <1>3, <1>4
<1> HIDE DEF t
<1>11. IsChain(t, n - 1, act \ {last}, link, link[last])
  BY <1>6, <1>7, <1>8, <1>9, <1>10 DEF IsChain
<1> QED
  BY <1>1, <1>5, <1>11 DEF t

-----------------------------------------------------------------------------
(* The inductive invariant. *)

\* The resume links form a chain through all active coroutines.
Linked == \E n \in Nat : \E s \in [1 .. n -> Active] : IsChain(s, n, Active, pco, running)

\* S->nco counts the coroutines that are not dead.
Counted == nco = Cardinality(Live)

IInv == /\ TypeOK
        /\ open => /\ cap >= 1
                   /\ Linked
                   /\ Counted
                   /\ OneRunning
                   /\ ContextsMatch

\* What the parts of the invariant say together of an open scheduler.
LEMMA OpenFacts ==
  ASSUME IInv, open
  PROVE  /\ MAIN_CO_ID \in Active
         /\ running \in Active
         /\ status[running] = CO_STATUS_RUNNING
         /\ \A id \in Active : id # running => status[id] = CO_STATUS_NORMAL
         /\ \A id \in Active \ {MAIN_CO_ID} : pco[id] \in Active /\ pco[id] # running
         /\ \A id \in Slots : id \in Live <=> status[id] \in Statuses \ {CO_STATUS_DEAD}
         /\ IsFiniteSet(Live)
<1>0. PICK n \in Nat : \E s \in [1 .. n -> Active] : IsChain(s, n, Active, pco, running)
  BY DEF IInv, Linked
<1>1. PICK s \in [1 .. n -> Active] : IsChain(s, n, Active, pco, running)
  BY <1>0
<1>2. /\ MAIN_CO_ID \in Active
      /\ running \in Active
      /\ \A id \in Active \ {MAIN_CO_ID} : pco[id] \in Active /\ pco[id] # running
  BY <1>1, ChainLinks
<1>3. {id \in Slots : cort_status(id) = CO_STATUS_RUNNING} = {running}
  BY DEF IInv, OneRunning
<1>4. \A id \in Slots : status[id] = CO_STATUS_RUNNING <=> id = running
  BY <1>3 DEF cort_status, CO_STATUS_DEAD, CO_STATUS_RUNNING, NULL
<1>5. \A id \in Active : id # running => status[id] = CO_STATUS_NORMAL
  BY <1>4 DEF Active
<1>6. \A id \in Slots : id \in Live <=> status[id] \in Statuses \ {CO_STATUS_DEAD}
  BY DEF IInv, TypeOK, Live, Free, Statuses, NULL, CO_STATUS_DEAD, CO_STATUS_SUSPEND,
         CO_STATUS_RUNNING, CO_STATUS_NORMAL
<1>7. IsFiniteSet(Live)
  <2>1. cap \in Nat
    BY CapAssumption DEF IInv, TypeOK
  <2>2. IsFiniteSet(Slots)
    BY <2>1, FS_Interval DEF Slots
  <2> QED
    BY <2>2, FS_Subset DEF Live
<1>8. status[running] = CO_STATUS_RUNNING
  BY <1>2, <1>4 DEF Active
<1> QED
  BY <1>2, <1>5, <1>6, <1>7, <1>8

LEMMA InitIInv == Init => IInv
<1> SUFFICES ASSUME Init PROVE IInv
  OBVIOUS
<1>1. Slots = {} /\ cap \in 0 .. MaxCap
  BY CapAssumption DEF Init, Slots
<1>2. status \in [{} -> Statuses \cup {NULL}] /\ pco \in [{} -> Nat] /\ ctx \in [{} -> Context]
  BY DEF Init
<1>3. open = FALSE /\ nco \in Nat /\ running \in Nat
  BY DEF Init, MAIN_CO_ID
<1> QED
  BY <1>1, <1>2, <1>3 DEF IInv, TypeOK

\* cort_open: the main coroutine alone is active and counted.
LEMMA OpenStep == IInv /\ cort_open => IInv'
<1> SUFFICES ASSUME IInv, cort_open PROVE IInv'
  OBVIOUS
<1>1. /\ cap' = DEFAULT_COROUTINE /\ cap' \in Nat /\ cap' >= 1 /\ cap' <= MaxCap
      /\ Slots' = 0 .. DEFAULT_COROUTINE - 1 /\ MAIN_CO_ID \in Slots'
  BY CapAssumption DEF cort_open, Slots, MAIN_CO_ID
<1>2. status' = [i \in Slots' |-> IF i = MAIN_CO_ID THEN CO_STATUS_RUNNING ELSE NULL]
  BY <1>1 DEF cort_open
<1>3. TypeOK'
  BY <1>1, <1>2 DEF cort_open, TypeOK, Slots, MAIN_CO_ID, Statuses, NULL, CO_STATUS_RUNNING,
       Context, NoContext
<1>4. Live' = {MAIN_CO_ID} /\ Active' = {MAIN_CO_ID}
  BY <1>1, <1>2 DEF Live, Active, Free, NULL, CO_STATUS_DEAD, CO_STATUS_RUNNING, CO_STATUS_NORMAL
<1>5. Counted'
  BY <1>4, FS_Singleton DEF Counted, cort_open
<1>6. Linked'
  <2> DEFINE s == [k \in 1 .. 1 |-> MAIN_CO_ID]
  <2>1. s \in [1 .. 1 -> Active']
    BY <1>4
  <2>2. IsChain(s, 1, Active', pco', running')
    BY <1>4 DEF IsChain, cort_open
  <2> QED
    BY <2>1, <2>2 DEF Linked
<1>7. OneRunning'
  BY <1>1, <1>2 DEF OneRunning, cort_open, cort_status, NULL, CO_STATUS_DEAD, CO_STATUS_RUNNING
<1>8. ContextsMatch'
  BY <1>2, <1>4 DEF ContextsMatch, cort_open, cort_status, NULL, CO_STATUS_DEAD,
       CO_STATUS_RUNNING, CO_STATUS_SUSPEND
<1> QED
  BY <1>1, <1>3, <1>5, <1>6, <1>7, <1>8 DEF IInv

LEMMA CloseStep == IInv /\ cort_close => IInv'
<1> SUFFICES ASSUME IInv, cort_close PROVE IInv'
  OBVIOUS
<1>1. cap' = 0 /\ Slots' = {}
  BY DEF cort_close, Slots
<1>2. (cap \in 0 .. MaxCap)'
  BY <1>1, CapAssumption
<1>3. (status \in [{} -> Statuses \cup {NULL}] /\ pco \in [{} -> Nat] /\ ctx \in [{} -> Context])'
  BY DEF cort_close
<1>4. open' = FALSE /\ nco' \in Nat /\ running' \in Nat
  BY DEF cort_close, MAIN_CO_ID
<1> QED
  BY <1>1, <1>2, <1>3, <1>4 DEF IInv, TypeOK

\* A coroutine put in a free slot of a table of n >= cap slots is suspended and
\* counted; the chain and the contexts of the others are untouched.
LEMMA OccupyStep ==
  ASSUME IInv, open, NEW cid, NEW n \in cap .. MaxCap, cid \in 0 .. n - 1,
         cid \in Slots => Free(cid), Occupy(cid, n)
  PROVE  IInv'
<1>1. /\ cap \in Nat /\ cap >= 1 /\ nco \in Nat /\ running \in Nat
      /\ Slots' = 0 .. n - 1 /\ Slots \subseteq Slots'
      /\ open' = TRUE /\ running' = running /\ cap' = n /\ nco' = nco + 1
  BY CapAssumption DEF IInv, TypeOK, Occupy, Slots
<1>2. \A i \in Slots' : i \in Slots <=> i < cap
  BY <1>1 DEF Slots
<1>3. /\ DOMAIN status' = Slots'
      /\ status'[cid] = CO_STATUS_SUSPEND
      /\ \A i \in Slots' \ {cid} : status'[i] = IF i \in Slots THEN status[i] ELSE NULL
      /\ \A i \in Slots : pco'[i] = pco[i]
      /\ ctx'[cid] = EntryContext
      /\ \A i \in Slots \ {cid} : ctx'[i] = ctx[i]
  BY <1>1, <1>2 DEF Occupy
<1>4. TypeOK'
  <2>1. status' \in [Slots' -> Statuses \cup {NULL}]
    BY <1>1, <1>2 DEF IInv, TypeOK, Occupy, Statuses
  <2>2. pco' \in [Slots' -> Nat]
    BY <1>1, <1>2 DEF IInv, TypeOK, Occupy
  <2>3. ctx' \in [Slots' -> Context]
    BY <1>1, <1>2 DEF IInv, TypeOK, Occupy, Context, EntryContext, NoContext
  <2>4. (cap \in 0 .. MaxCap)'
    BY <1>1, CapAssumption
  <2> QED
    BY <1>1, <2>1, <2>2, <2>3, <2>4 DEF TypeOK
<1>5. cid \notin Live /\ cid \notin Active
  BY DEF Live, Active, Free, NULL, CO_STATUS_DEAD, CO_STATUS_RUNNING, CO_STATUS_NORMAL
<1>6. Active' = Active
  BY <1>1, <1>3, <1>5 DEF Active, NULL, CO_STATUS_SUSPEND, CO_STATUS_RUNNING, CO_STATUS_NORMAL
<1>7. Live' = Live \cup {cid}
  BY <1>1, <1>3, <1>5 DEF Live, Free, NULL, CO_STATUS_SUSPEND, CO_STATUS_DEAD
<1>8. Counted'
  BY <1>1, <1>5, <1>7, OpenFacts, FS_AddElement DEF Counted, IInv
<1>9. Linked'
  <2>1. PICK k \in Nat : \E s \in [1 .. k -> Active] : IsChain(s, k, Active, pco, running)
    BY DEF IInv, Linked
  <2>2. PICK s \in [1 .. k -> Active] : IsChain(s, k, Active, pco, running)
    BY <2>1
  <2>3. \A id \in Active : pco'[id] = pco[id]
    BY <1>3 DEF Active
  <2>4. IsChain(s, k, Active', pco', running')
    BY <1>1, <1>6, <2>2, <2>3, ChainSame
  <2> QED
    BY <1>6, <2>4 DEF Linked
<1>10. OneRunning'
  <2>1. running \in Slots \ {cid} /\ status[running] = CO_STATUS_RUNNING
    BY <1>5, OpenFacts DEF Active
  <2>2. \A id \in Slots : status[id] = CO_STATUS_RUNNING => id = running
    BY OpenFacts DEF Active, CO_STATUS_RUNNING, CO_STATUS_NORMAL
  <2>3. \A id \in Slots' : status'[id] = CO_STATUS_RUNNING <=> id = running
    BY <1>1, <1>3, <2>1, <2>2 DEF NULL, CO_STATUS_SUSPEND, CO_STATUS_RUNNING
  <2> QED
    BY <1>1, <2>1, <2>3 DEF OneRunning, cort_status, NULL, CO_STATUS_DEAD, CO_STATUS_RUNNING
<1>11. ContextsMatch'
  <2>1. ASSUME NEW id \in Active \ {MAIN_CO_ID}
        PROVE  ctx'[pco'[id]] = ResumeContext(id)
    <3>1. pco'[id] = pco[id] /\ pco[id] \in Active /\ pco[id] \in Slots \ {cid}
      BY <1>3, <1>5, OpenFacts DEF Active
    <3> QED
      BY <1>3, <3>1 DEF IInv, ContextsMatch
  <2>2. ASSUME NEW id \in Slots', status'[id] = CO_STATUS_SUSPEND
        PROVE  ctx'[id] \in {EntryContext, YieldContext}
    <3>1. CASE id = cid
      BY <1>3, <3>1
    <3>2. CASE id # cid
      <4>1. id \in Slots /\ status[id] = CO_STATUS_SUSPEND /\ ctx'[id] = ctx[id]
        BY <1>3, <2>2, <3>2 DEF NULL, CO_STATUS_SUSPEND
      <4> QED
        BY <4>1 DEF IInv, ContextsMatch, cort_status, NULL, CO_STATUS_SUSPEND
    <3> QED
      BY <3>1, <3>2
  <2> QED
    BY <1>6, <2>1, <2>2 DEF ContextsMatch, cort_status, NULL, CO_STATUS_DEAD, CO_STATUS_SUSPEND
<1> QED
  BY <1>1, <1>4, <1>8, <1>9, <1>10, <1>11 DEF IInv

LEMMA GrowStep == IInv /\ cort_new_grow => IInv'
<1> SUFFICES ASSUME IInv, cort_new_grow PROVE IInv'
  OBVIOUS
<1>1. cap \in Nat /\ cap >= 1 /\ 2 * cap <= MaxCap /\ open
  BY CapAssumption DEF IInv, TypeOK, cort_new_grow
<1>2. cap \in 0 .. 2 * cap - 1 /\ 2 * cap \in cap .. MaxCap /\ cap \notin Slots
  BY <1>1, CapAssumption DEF Slots
<1> QED
  BY <1>1, <1>2, OccupyStep DEF cort_new_grow

LEMMA ScanStep == IInv /\ cort_new_scan => IInv'
<1> SUFFICES ASSUME IInv, cort_new_scan PROVE IInv'
  OBVIOUS
<1>1. cap \in Nat /\ cap >= 1 /\ cap <= MaxCap /\ nco \in Nat /\ open
  BY CapAssumption DEF IInv, TypeOK, cort_new_scan
<1>2. PICK i \in Slots : Free(Probe(i)) /\ Occupy(Probe(i), cap)
  BY DEF cort_new_scan
<1>3. Probe(i) \in 0 .. cap - 1 /\ cap \in cap .. MaxCap
  BY <1>1, CapAssumption DEF Probe, Slots
<1> QED
  BY <1>1, <1>2, <1>3, OccupyStep

\* cort_resume: the chain gets one longer, the former running coroutine NORMAL.
LEMMA ResumeStep ==
  ASSUME IInv, NEW id \in Slots, cort_resume(id)
  PROVE  IInv'
<1>1. /\ open /\ cap \in Nat /\ cap >= 1 /\ nco \in Nat /\ running \in Nat
      /\ open' = open /\ nco' = nco /\ cap' = cap /\ running' = id /\ Slots' = Slots
      /\ status[id] = CO_STATUS_SUSPEND
  BY CapAssumption DEF IInv, TypeOK, cort_resume, Slots
<1>2. id \notin Active /\ running \in Slots /\ running \in Active /\ running # id
  BY <1>1, OpenFacts DEF Active, CO_STATUS_SUSPEND, CO_STATUS_RUNNING, CO_STATUS_NORMAL
<1>3. /\ status'[id] = CO_STATUS_RUNNING /\ status'[running] = CO_STATUS_NORMAL
      /\ \A i \in Slots \ {id, running} : status'[i] = status[i]
      /\ pco'[id] = running /\ \A i \in Slots \ {id} : pco'[i] = pco[i]
      /\ ctx'[running] = ResumeContext(id) /\ \A i \in Slots \ {running} : ctx'[i] = ctx[i]
  BY <1>2 DEF IInv, TypeOK, cort_resume
<1>4. TypeOK'
  <2>1. status' \in [Slots -> Statuses \cup {NULL}]
    BY DEF IInv, TypeOK, cort_resume, Statuses
  <2>2. pco' \in [Slots -> Nat]
    BY <1>1 DEF IInv, TypeOK, cort_resume
  <2>3. ctx' \in [Slots -> Context]
    <3>1. id \in Nat
      BY <1>1 DEF Slots
    <3> QED
      BY <3>1 DEF IInv, TypeOK, cort_resume, Context, ResumeContext
  <2>4. id \in Nat
    BY <1>1 DEF Slots
  <2> QED
    BY <1>1, <2>1, <2>2, <2>3, <2>4 DEF IInv, TypeOK
<1>5. Active' = Active \cup {id}
  BY <1>1, <1>2, <1>3 DEF Active, CO_STATUS_RUNNING, CO_STATUS_NORMAL
<1>6. Live' = Live
  <2>1. status[running] = CO_STATUS_RUNNING
    BY <1>1, OpenFacts
  <2> QED
    BY <1>1, <1>2, <1>3, <2>1 DEF Live, Free, NULL, CO_STATUS_DEAD, CO_STATUS_SUSPEND,
         CO_STATUS_RUNNING, CO_STATUS_NORMAL
<1>7. Counted'
  BY <1>1, <1>6 DEF IInv, Counted
<1>8. Linked'
  <2>1. PICK k \in Nat : \E s \in [1 .. k -> Active] : IsChain(s, k, Active, pco, running)
    BY <1>1 DEF IInv, Linked
  <2>2. PICK s \in [1 .. k -> Active] : IsChain(s, k, Active, pco, running)
    BY <2>1
  <2>3. \A x \in Active : pco'[x] = pco[x]
    BY <1>2, <1>3 DEF Active
  <2>4. id \notin Active /\ pco'[id] = running
    BY <1>2, <1>3
  <2>5. /\ Push(s, k, id) \in [1 .. k + 1 -> Active \cup {id}]
        /\ IsChain(Push(s, k, id), k + 1, Active \cup {id}, pco', id)
    BY <2>2, <2>3, <2>4, ChainPush
  <2>6. running' = id /\ k + 1 \in Nat
    BY <1>1
  <2> QED
    BY <1>5, <2>5, <2>6 DEF Linked
<1>9. OneRunning'
  <2>1. \A x \in Slots : status[x] = CO_STATUS_RUNNING => x = running
    BY <1>1, OpenFacts DEF Active, CO_STATUS_RUNNING, CO_STATUS_NORMAL
  <2>2. \A x \in Slots : status'[x] = CO_STATUS_RUNNING <=> x = id
    BY <1>2, <1>3, <2>1 DEF CO_STATUS_RUNNING, CO_STATUS_NORMAL
  <2> QED
    BY <1>1, <2>2 DEF OneRunning, cort_status, NULL, CO_STATUS_DEAD, CO_STATUS_RUNNING
<1>10. ContextsMatch'
  <2>1. ASSUME NEW x \in Active' \ {MAIN_CO_ID}
        PROVE  ctx'[pco'[x]] = ResumeContext(x)
    <3>1. CASE x = id
      BY <1>3, <3>1
    <3>2. CASE x # id
      <4>1. x \in Active \ {MAIN_CO_ID}
        BY <1>5, <3>2
      <4>2. pco'[x] = pco[x] /\ pco[x] \in Slots \ {running}
        BY <1>1, <1>3, <3>2, <4>1, OpenFacts DEF Active
      <4> QED
        BY <1>1, <1>3, <4>1, <4>2 DEF IInv, ContextsMatch
    <3> QED
      BY <3>1, <3>2
  <2>2. ASSUME NEW x \in Slots, status'[x] = CO_STATUS_SUSPEND
        PROVE  ctx'[x] \in {EntryContext, YieldContext}
    <3>1. x # id /\ x # running
      BY <1>3, <2>2 DEF CO_STATUS_SUSPEND, CO_STATUS_RUNNING, CO_STATUS_NORMAL
    <3>2. status[x] = CO_STATUS_SUSPEND /\ ctx'[x] = ctx[x]
      BY <1>3, <2>2, <3>1
    <3> QED
      BY <1>1, <3>2 DEF IInv, ContextsMatch, cort_status, NULL, CO_STATUS_SUSPEND
  <2> QED
    BY <1>1, <2>1, <2>2 DEF ContextsMatch, cort_status, NULL, CO_STATUS_DEAD, CO_STATUS_SUSPEND
<1> QED
  BY <1>1, <1>4, <1>7, <1>8, <1>9, <1>10 DEF IInv

\* What cort_yield and cofunc_return have in common: control returns to the resumer,
\* which becomes RUNNING, and the coroutine that gave it up gets status st.
Returns(st) ==
  /\ open
  /\ running # MAIN_CO_ID
  /\ status' = [status EXCEPT ![running] = st, ![pco[running]] = CO_STATUS_RUNNING]
  /\ running' = pco[running]
  /\ UNCHANGED <<open, cap, pco>>

LEMMA ReturnFacts ==
  ASSUME IInv, NEW st \in {CO_STATUS_SUSPEND, CO_STATUS_DEAD}, Returns(st)
  PROVE  /\ cap \in Nat /\ nco \in Nat /\ Slots' = Slots
         /\ running \in Active /\ pco[running] \in Active /\ pco[running] # running
         /\ status'[running] = st
         /\ status'[pco[running]] = CO_STATUS_RUNNING
         /\ \A i \in Slots \ {running, pco[running]} : status'[i] = status[i]
         /\ status' \in [Slots -> Statuses \cup {NULL}]
         /\ Active' = Active \ {running}
         /\ Linked'
         /\ OneRunning'
         /\ \A x \in Active' \ {MAIN_CO_ID} : x \in Active /\ pco[x] # running
<1>1. /\ open /\ cap \in Nat /\ nco \in Nat /\ Slots' = Slots /\ open' = open
      /\ running' = pco[running] /\ pco' = pco
  BY CapAssumption DEF IInv, TypeOK, Returns, Slots
<1>2. running \in Active \ {MAIN_CO_ID} /\ running \in Slots
  BY <1>1, OpenFacts DEF Active, Returns
<1>3. pco[running] \in Active /\ pco[running] # running /\ pco[running] \in Slots
  BY <1>1, <1>2, OpenFacts DEF Active
<1>4. /\ status'[running] = st
      /\ status'[pco[running]] = CO_STATUS_RUNNING
      /\ \A i \in Slots \ {running, pco[running]} : status'[i] = status[i]
  BY <1>2, <1>3 DEF Returns, IInv, TypeOK
<1>5. status' \in [Slots -> Statuses \cup {NULL}]
  BY DEF Returns, IInv, TypeOK, Statuses
<1>6. Active' = Active \ {running}
  BY <1>1, <1>2, <1>3, <1>4 DEF Active, CO_STATUS_SUSPEND, CO_STATUS_DEAD, CO_STATUS_RUNNING,
       CO_STATUS_NORMAL
<1>7. Linked'
  <2>1. PICK k \in Nat : \E s \in [1 .. k -> Active] : IsChain(s, k, Active, pco, running)
    BY <1>1 DEF IInv, Linked
  <2>2. PICK s \in [1 .. k -> Active] : IsChain(s, k, Active, pco, running)
    BY <2>1
  <2>3. /\ k >= 2
        /\ Pop(s, k) \in [1 .. k - 1 -> Active']
        /\ IsChain(Pop(s, k), k - 1, Active', pco', running')
    BY <1>1, <1>2, <1>6, <2>2, ChainPop
  <2>4. k - 1 \in Nat
    BY <2>3
  <2> QED
    BY <2>3, <2>4 DEF Linked
<1>8. OneRunning'
  <2>1. \A x \in Slots : status[x] = CO_STATUS_RUNNING => x = running
    BY <1>1, OpenFacts DEF Active, CO_STATUS_RUNNING, CO_STATUS_NORMAL
  <2>2. \A x \in Slots : status'[x] = CO_STATUS_RUNNING <=> x = pco[running]
    BY <1>3, <1>4, <2>1 DEF CO_STATUS_RUNNING, CO_STATUS_SUSPEND, CO_STATUS_DEAD
  <2> QED
    BY <1>1, <1>3, <2>2 DEF OneRunning, cort_status, NULL, CO_STATUS_DEAD, CO_STATUS_RUNNING
<1>9. \A x \in Active' \ {MAIN_CO_ID} : x \in Active /\ pco[x] # running
  BY <1>1, <1>6, OpenFacts
<1> QED
  BY <1>1, <1>2, <1>3, <1>4, <1>5, <1>6, <1>7, <1>8, <1>9

LEMMA YieldStep == IInv /\ cort_yield => IInv'
<1> SUFFICES ASSUME IInv, cort_yield PROVE IInv'
  OBVIOUS
<1> DEFINE st == CO_STATUS_SUSPEND
<1>1. Returns(st) /\ open /\ open' = open /\ cap' = cap /\ nco' = nco /\ pco' = pco
  BY DEF cort_yield, Returns
<1>2. /\ cap \in Nat /\ nco \in Nat /\ Slots' = Slots
      /\ running \in Active /\ pco[running] \in Active /\ pco[running] # running
      /\ status'[running] = st
      /\ status'[pco[running]] = CO_STATUS_RUNNING
      /\ \A i \in Slots \ {running, pco[running]} : status'[i] = status[i]
      /\ status' \in [Slots -> Statuses \cup {NULL}]
      /\ Active' = Active \ {running}
      /\ Linked'
      /\ OneRunning'
      /\ \A x \in Active' \ {MAIN_CO_ID} : x \in Active /\ pco[x] # running
  BY <1>1, ReturnFacts
<1>3. ctx'[running] = YieldContext /\ \A i \in Slots \ {running} : ctx'[i] = ctx[i]
  BY <1>2 DEF cort_yield, IInv, TypeOK, Active
<1>4. TypeOK'
  <2>1. running' \in Nat
    BY <1>2 DEF cort_yield, Active, Slots
  <2>2. ctx' \in [Slots -> Context]
    BY DEF cort_yield, IInv, TypeOK, Context, YieldContext
  <2> QED
    BY <1>1, <1>2, <2>1, <2>2 DEF IInv, TypeOK
<1>5. Live' = Live
  BY <1>2 DEF Live, Active, Free, NULL, CO_STATUS_DEAD, CO_STATUS_SUSPEND,
       CO_STATUS_RUNNING, CO_STATUS_NORMAL
<1>6. Counted'
  BY <1>1, <1>5 DEF IInv, Counted
<1>7. ContextsMatch'
  <2>1. ASSUME NEW x \in Active' \ {MAIN_CO_ID} PROVE ctx'[pco'[x]] = ResumeContext(x)
    <3>1. x \in Active \ {MAIN_CO_ID} /\ pco[x] # running /\ pco[x] \in Slots
      BY <1>1, <1>2, OpenFacts DEF Active
    <3> QED
      BY <1>1, <1>3, <3>1 DEF IInv, ContextsMatch
  <2>2. ASSUME NEW x \in Slots, status'[x] = CO_STATUS_SUSPEND
        PROVE  ctx'[x] \in {EntryContext, YieldContext}
    <3>1. CASE x = running
      BY <1>3, <3>1
    <3>2. CASE x # running
      <4>1. status[x] = CO_STATUS_SUSPEND /\ ctx'[x] = ctx[x]
        BY <1>2, <1>3, <2>2, <3>2 DEF CO_STATUS_SUSPEND, CO_STATUS_RUNNING
      <4> QED
        BY <1>1, <4>1 DEF IInv, ContextsMatch, cort_status, NULL, CO_STATUS_SUSPEND
    <3> QED
      BY <3>1, <3>2
  <2> QED
    BY <1>2, <2>1, <2>2 DEF ContextsMatch, cort_status, NULL, CO_STATUS_DEAD, CO_STATUS_SUSPEND
<1> QED
  BY <1>1, <1>2, <1>4, <1>6, <1>7 DEF IInv

LEMMA FinishStep == IInv /\ cofunc_return => IInv'
<1> SUFFICES ASSUME IInv, cofunc_return PROVE IInv'
  OBVIOUS
<1> DEFINE st == CO_STATUS_DEAD
<1>1. /\ Returns(st) /\ open /\ open' = open /\ cap' = cap /\ nco' = nco - 1
      /\ pco' = pco /\ ctx' = ctx
  BY DEF cofunc_return, Returns
<1>2. /\ cap \in Nat /\ nco \in Nat /\ Slots' = Slots
      /\ running \in Active /\ pco[running] \in Active /\ pco[running] # running
      /\ status'[running] = st
      /\ status'[pco[running]] = CO_STATUS_RUNNING
      /\ \A i \in Slots \ {running, pco[running]} : status'[i] = status[i]
      /\ status' \in [Slots -> Statuses \cup {NULL}]
      /\ Active' = Active \ {running}
      /\ Linked'
      /\ OneRunning'
      /\ \A x \in Active' \ {MAIN_CO_ID} : x \in Active /\ pco[x] # running
  BY <1>1, ReturnFacts
<1>3. Live' = Live \ {running} /\ running \in Live
  BY <1>2 DEF Live, Active, Free, NULL, CO_STATUS_DEAD, CO_STATUS_SUSPEND,
       CO_STATUS_RUNNING, CO_STATUS_NORMAL
<1>4. Counted' /\ nco' \in Nat
  <2>1. IsFiniteSet(Live) /\ nco = Cardinality(Live)
    BY <1>1, OpenFacts DEF IInv, Counted
  <2>2. IsFiniteSet(Live') /\ Cardinality(Live') = Cardinality(Live) - 1
    BY <1>3, <2>1, FS_RemoveElement
  <2>3. Cardinality(Live') \in Nat
    BY <2>2, FS_CardinalityType
  <2> QED
    BY <1>1, <2>1, <2>2, <2>3 DEF Counted
<1>5. TypeOK'
  <2>1. running' \in Nat
    BY <1>2 DEF cofunc_return, Active, Slots
  <2> QED
    BY <1>1, <1>2, <1>4, <2>1 DEF IInv, TypeOK
<1>6. ContextsMatch'
  <2>1. ASSUME NEW x \in Active' \ {MAIN_CO_ID} PROVE ctx'[pco'[x]] = ResumeContext(x)
    <3>1. x \in Active \ {MAIN_CO_ID}
      BY <1>2
    <3> QED
      BY <1>1, <3>1 DEF IInv, ContextsMatch
  <2>2. ASSUME NEW x \in Slots, status'[x] = CO_STATUS_SUSPEND
        PROVE  ctx'[x] \in {EntryContext, YieldContext}
    <3>1. status[x] = CO_STATUS_SUSPEND
      BY <1>2, <2>2 DEF CO_STATUS_SUSPEND, CO_STATUS_RUNNING, CO_STATUS_DEAD
    <3> QED
      BY <1>1, <3>1 DEF IInv, ContextsMatch, cort_status, NULL, CO_STATUS_SUSPEND
  <2> QED
    BY <1>2, <2>1, <2>2 DEF ContextsMatch, cort_status, NULL, CO_STATUS_DEAD, CO_STATUS_SUSPEND
<1> QED
  BY <1>1, <1>2, <1>4, <1>5, <1>6 DEF IInv

-----------------------------------------------------------------------------
(* The theorems. *)

\* IInv is an invariant of the scheduler, whatever its running coroutine calls.
THEOREM Invariance == Spec => []IInv
<1>1. ASSUME IInv, [Next]_vars PROVE IInv'
  <2>1. CASE cort_open
    BY <1>1, <2>1, OpenStep
  <2>2. CASE cort_close
    BY <1>1, <2>2, CloseStep
  <2>3. CASE cort_new_grow
    BY <1>1, <2>3, GrowStep
  <2>4. CASE cort_new_scan
    BY <1>1, <2>4, ScanStep
  <2>5. CASE \E id \in Slots : cort_resume(id)
    BY <1>1, <2>5, ResumeStep
  <2>6. CASE cort_yield
    BY <1>1, <2>6, YieldStep
  <2>7. CASE cofunc_return
    BY <1>1, <2>7, FinishStep
  <2>8. CASE UNCHANGED vars
    BY <1>1, <2>8 DEF vars, IInv, TypeOK, Linked, Counted, OneRunning, ContextsMatch,
         Active, Live, Free, Slots, cort_status
  <2> QED
    BY <1>1, <2>1, <2>2, <2>3, <2>4, <2>5, <2>6, <2>7, <2>8 DEF Next
<1> QED
  BY <1>1, InitIInv, PTL DEF Spec

\* Every field of the scheduler keeps its type and the table its size.
THEOREM TypeCorrect == Spec => []TypeOK
<1>1. IInv => TypeOK
  BY DEF IInv
<1> QED
  BY <1>1, Invariance, PTL

\* cort_yield and cofunc_return follow a chain of resumers that passes every active
\* coroutine once and ends in the main one.
LEMMA LinkedChain == IInv => ResumeChain
<1> SUFFICES ASSUME IInv, open PROVE Chains # {}
  BY DEF ResumeChain
<1>1. PICK k \in Nat : \E s \in [1 .. k -> Active] : IsChain(s, k, Active, pco, running)
  BY DEF IInv, Linked
<1>2. PICK s \in [1 .. k -> Active] : IsChain(s, k, Active, pco, running)
  BY <1>1
<1>3. Cardinality(Active) = k
  BY <1>2, ChainLength
<1> QED
  BY <1>2, <1>3 DEF Chains

THEOREM ResumersFormChain == Spec => []ResumeChain
  BY LinkedChain, Invariance, PTL

\* Only the running coroutine has status RUNNING.
THEOREM OneRunningAlways == Spec => []OneRunning
<1>1. IInv => OneRunning
  BY DEF IInv, OneRunning
<1> QED
  BY <1>1, Invariance, PTL

\* Every switch continues the call its target waits in.
THEOREM ContextsMatchAlways == Spec => []ContextsMatch
<1>1. IInv => ContextsMatch
  BY DEF IInv, ContextsMatch
<1> QED
  BY <1>1, Invariance, PTL

\* cort_new always finds a slot: a table with fewer live coroutines than slots has a
\* free one, and the scan visits every slot.
LEMMA FreeSlot == IInv => NewFindsSlot
<1> SUFFICES ASSUME IInv, open
             PROVE  /\ nco = Cardinality(Live)
                    /\ nco < cap => \E i \in Slots : Free(Probe(i))
  BY DEF NewFindsSlot
<1>1. nco = Cardinality(Live) /\ nco \in Nat /\ cap \in Nat /\ cap >= 1
  BY CapAssumption DEF IInv, Counted, TypeOK
<1>2. ASSUME nco < cap PROVE \E i \in Slots : Free(Probe(i))
  <2>1. IsFiniteSet(Slots) /\ Cardinality(Slots) = cap
    <3>1. 0 \in Int /\ cap - 1 \in Int /\ ~(0 > cap - 1) /\ (cap - 1) - 0 + 1 = cap
      BY <1>1
    <3>2. Slots = 0 .. cap - 1
      BY DEF Slots
    <3> HIDE <1>1
    <3> QED
      BY <3>1, <3>2, FS_Interval
  <2>2. Live # Slots
    BY <1>1, <1>2, <2>1
  <2>3. PICK f \in Slots : Free(f)
    BY <2>2 DEF Live
  <2>4. PICK i \in 0 .. cap - 1 : (i + nco) % cap = f
    <3>1. cap \in Nat \ {0} /\ nco \in 0 .. cap - 1
      BY <1>1, <1>2
    <3>2. f \in 0 .. cap - 1
      BY <2>3 DEF Slots
    <3> QED
      BY ONLY <3>1, <3>2, ScanReaches
  <2> QED
    BY <2>3, <2>4 DEF Probe, Slots
<1> QED
  BY <1>1, <1>2

THEOREM NewNeverFails == Spec => []NewFindsSlot
  BY FreeSlot, Invariance, PTL

-----------------------------------------------------------------------------
(* The scheduler implements CallStack. *)

\* Any chain through the active coroutines is the stack of the refinement mapping.
StackDetermined ==
  \A k \in Nat : \A s \in [1 .. k -> Active] :
    IsChain(s, k, Active, pco, running) => stack = s

LEMMA StackIsChain == IInv /\ open => StackDetermined
<1> SUFFICES ASSUME IInv, open, NEW k \in Nat, NEW s \in [1 .. k -> Active],
                    IsChain(s, k, Active, pco, running)
             PROVE  stack = s
  BY DEF StackDetermined
<1>1. Cardinality(Active) = k
  BY ChainLength
<1>2. s \in Chains
  BY <1>1 DEF Chains
<1>3. \A t \in Chains : t = s
  BY <1>1, ChainUnique DEF Chains
<1> QED
  BY <1>1, <1>2, <1>3 DEF stack

\* A chain as a sequence, and the sequence operations of CallStack on it.
LEMMA ChainSeq ==
  ASSUME NEW act, NEW k \in Nat, NEW s \in [1 .. k -> act], NEW id
  PROVE  /\ s \in Seq(act) /\ Len(s) = k /\ DOMAIN s = 1 .. k
         /\ Append(s, id) = Push(s, k, id)
<1>1. s \in Seq(act) /\ Len(s) = k
  OBVIOUS
<1>2. Append(s, id) = Push(s, k, id)
  <2> DEFINE T == act \cup {id}
             t == Push(s, k, id)
  <2>1. s \in Seq(T) /\ id \in T
    BY <1>1, SeqMonotonic
  <2>2. /\ Append(s, id) \in Seq(T)
        /\ Len(Append(s, id)) = k + 1
        /\ \A i \in 1 .. k : Append(s, id)[i] = s[i]
        /\ Append(s, id)[k + 1] = id
    <3> HIDE DEF T
    <3> QED
      BY <1>1, <2>1, AppendProperties
  <2>3. t \in [1 .. k + 1 -> T]
    BY DEF Push
  <2>4. /\ t \in Seq(T) /\ Len(t) = k + 1
        /\ \A i \in 1 .. k : t[i] = s[i]
        /\ t[k + 1] = id
    BY <2>3 DEF Push
  <2>5. \A i \in 1 .. k + 1 : i \in 1 .. k \/ i = k + 1
    OBVIOUS
  <2> HIDE DEF T, t
  <2>6. Append(s, id) = t
    BY <2>2, <2>4, <2>5, SeqEqual
  <2> QED
    BY <2>6 DEF t
<1> QED
  BY <1>1, <1>2

\* The state of CallStack an open scheduler maps to.
LEMMA MappedStack ==
  ASSUME IInv, open, NEW k \in Nat, NEW s \in [1 .. k -> Active],
         IsChain(s, k, Active, pco, running)
  PROVE  /\ stack = s
         /\ stack # <<>>
         /\ Len(stack) = k
         /\ CS!OnStack = Active
         /\ CS!Top = running
         /\ CS!Below = Pop(s, k)
<1>1. stack = s
  BY StackIsChain DEF StackDetermined
<1>2. Len(s) = k /\ DOMAIN s = 1 .. k /\ k >= 1
  BY ChainSeq DEF IsChain
<1>3. CS!OnStack = Active
  BY <1>1, <1>2 DEF CS!OnStack, IsChain
<1>4. CS!Top = running /\ CS!Below = Pop(s, k)
  BY <1>1, <1>2 DEF CS!Top, CS!Below, Pop, IsChain
<1>5. stack # <<>>
  BY <1>1, <1>2
<1> QED
  BY <1>1, <1>2, <1>3, <1>4, <1>5

\* Putting a coroutine in a free slot is a Spawn.
LEMMA OccupySpawns ==
  ASSUME IInv, IInv', open, NEW cid, NEW n \in cap .. MaxCap, cid \in 0 .. n - 1,
         cid \in Slots => Free(cid), Occupy(cid, n)
  PROVE  CS!Next
<1>1. PICK k \in Nat : \E s \in [1 .. k -> Active] : IsChain(s, k, Active, pco, running)
  BY DEF IInv, Linked
<1>2. PICK s \in [1 .. k -> Active] : IsChain(s, k, Active, pco, running)
  BY <1>1
<1>3. stack = s /\ stack # <<>> /\ CS!OnStack = Active
  BY <1>2, MappedStack
<1>4. /\ cap \in Nat /\ running' = running /\ open'
      /\ Slots' = 0 .. n - 1 /\ Slots \subseteq Slots'
      /\ status'[cid] = CO_STATUS_SUSPEND
      /\ \A i \in Slots' \ {cid} : status'[i] = IF i \in Slots THEN status[i] ELSE NULL
      /\ \A i \in Slots : pco'[i] = pco[i]
  BY CapAssumption DEF IInv, TypeOK, Occupy, Slots
<1>5. cid \notin Active /\ cid \notin parked /\ cid \in Slots'
  BY <1>4 DEF Active, parked, Free, NULL, CO_STATUS_DEAD, CO_STATUS_RUNNING, CO_STATUS_NORMAL,
       CO_STATUS_SUSPEND
<1>6. Active' = Active
  BY <1>4, <1>5 DEF Active, NULL, CO_STATUS_SUSPEND, CO_STATUS_RUNNING, CO_STATUS_NORMAL
<1>7. parked' = parked \cup {cid}
  BY <1>4, <1>5 DEF parked, NULL, CO_STATUS_SUSPEND
<1>8. IsChain(s, k, Active', pco', running')
  <2>1. \A id \in Active : pco'[id] = pco[id]
    BY <1>4 DEF Active
  <2> QED
    BY <1>2, <1>4, <1>6, <2>1, ChainSame
<1>9. stack' = s
  <2>1. StackDetermined'
    BY <1>4, StackIsChain, PTL
  <2> QED
    BY <1>6, <1>8, <2>1 DEF StackDetermined
<1>10. CS!Spawn(cid)
  BY <1>3, <1>5, <1>7, <1>9 DEF CS!Spawn
<1>11. cid \in 0 .. MaxCap - 1
  BY <1>4, CapAssumption
<1> QED
  BY <1>10, <1>11 DEF CS!Next

\* cort_open puts the main coroutine on an empty stack.
LEMMA OpenOpens == IInv /\ IInv' /\ cort_open => CS!Next
<1> SUFFICES ASSUME IInv, IInv', cort_open PROVE CS!Next
  OBVIOUS
<1>1. stack = <<>>
  BY DEF stack, cort_open
<1>2. /\ Slots' = 0 .. DEFAULT_COROUTINE - 1 /\ MAIN_CO_ID \in Slots' /\ open'
      /\ status' = [i \in Slots' |-> IF i = MAIN_CO_ID THEN CO_STATUS_RUNNING ELSE NULL]
      /\ running' = MAIN_CO_ID
  BY CapAssumption DEF cort_open, Slots, MAIN_CO_ID
<1>3. Active' = {MAIN_CO_ID} /\ parked' = {}
  BY <1>2 DEF Active, parked, NULL, CO_STATUS_RUNNING, CO_STATUS_NORMAL, CO_STATUS_SUSPEND
<1>4. stack' = <<MAIN_CO_ID>>
  <2>1. StackDetermined'
    BY <1>2, StackIsChain, PTL
  <2>2. <<MAIN_CO_ID>> \in [1 .. 1 -> Active']
    BY <1>3
  <2>3. IsChain(<<MAIN_CO_ID>>, 1, Active', pco', running')
    BY <1>2, <1>3 DEF IsChain
  <2> QED
    BY <2>1, <2>2, <2>3 DEF StackDetermined
<1> QED
  BY <1>1, <1>3, <1>4 DEF CS!Next, CS!Open

\* cort_close leaves the stack empty; the main coroutine was alone on it.
LEMMA CloseCloses == IInv /\ cort_close => CS!Next
<1> SUFFICES ASSUME IInv, cort_close PROVE CS!Next
  OBVIOUS
<1>0. open /\ running = MAIN_CO_ID
  BY DEF cort_close
<1>1. PICK k \in Nat : \E s \in [1 .. k -> Active] : IsChain(s, k, Active, pco, running)
  BY <1>0 DEF IInv, Linked
<1>2. PICK s \in [1 .. k -> Active] : IsChain(s, k, Active, pco, running)
  BY <1>1
<1>3. Len(stack) = k
  BY <1>0, <1>2, MappedStack
<1>4. k = 1
  BY <1>0, <1>2 DEF IsChain
<1>5. stack' = <<>>
  BY DEF stack, cort_close
<1>6. parked' = {}
  BY DEF parked, cort_close, Slots
<1> QED
  BY <1>3, <1>4, <1>5, <1>6 DEF CS!Next, CS!Close

\* cort_resume pushes the coroutine it switches to.
LEMMA ResumePushes ==
  ASSUME IInv, IInv', NEW id \in Slots, cort_resume(id)
  PROVE  CS!Next
<1>1. /\ open /\ open' /\ running' = id /\ Slots' = Slots /\ cap \in Nat /\ cap <= MaxCap
      /\ status[id] = CO_STATUS_SUSPEND
  BY CapAssumption DEF IInv, TypeOK, cort_resume, Slots
<1>2. id \notin Active /\ running \in Slots /\ running # id /\ running \in Active
  BY <1>1, OpenFacts DEF Active, CO_STATUS_SUSPEND, CO_STATUS_RUNNING, CO_STATUS_NORMAL
<1>3. /\ status'[id] = CO_STATUS_RUNNING /\ status'[running] = CO_STATUS_NORMAL
      /\ \A i \in Slots \ {id, running} : status'[i] = status[i]
      /\ pco'[id] = running /\ \A i \in Slots \ {id} : pco'[i] = pco[i]
      /\ status[running] = CO_STATUS_RUNNING
  BY <1>1, <1>2, OpenFacts DEF IInv, TypeOK, cort_resume
<1>4. Active' = Active \cup {id}
  BY <1>1, <1>2, <1>3 DEF Active, CO_STATUS_RUNNING, CO_STATUS_NORMAL
<1>5. id \in parked /\ parked' = parked \ {id}
  BY <1>1, <1>2, <1>3 DEF parked, CO_STATUS_SUSPEND, CO_STATUS_RUNNING, CO_STATUS_NORMAL
<1>6. PICK k \in Nat : \E s \in [1 .. k -> Active] : IsChain(s, k, Active, pco, running)
  BY <1>1 DEF IInv, Linked
<1>7. PICK s \in [1 .. k -> Active] : IsChain(s, k, Active, pco, running)
  BY <1>6
<1>8. stack = s
  BY <1>1, <1>7, MappedStack
<1>9. /\ Push(s, k, id) \in [1 .. k + 1 -> Active \cup {id}]
      /\ IsChain(Push(s, k, id), k + 1, Active \cup {id}, pco', id)
  <2>1. \A x \in Active : pco'[x] = pco[x]
    BY <1>2, <1>3 DEF Active
  <2>2. id \notin Active /\ pco'[id] = running
    BY <1>2, <1>3
  <2> QED
    BY <1>7, <2>1, <2>2, ChainPush
<1>10. stack' = Push(s, k, id)
  <2>1. StackDetermined'
    BY <1>1, StackIsChain, PTL
  <2>2. running' = id /\ k + 1 \in Nat
    BY <1>1
  <2> QED
    BY <1>4, <1>9, <2>1, <2>2 DEF StackDetermined
<1>11. Append(stack, id) = Push(s, k, id)
  BY <1>8, ChainSeq
<1>12. CS!Resume(id)
  BY <1>5, <1>10, <1>11 DEF CS!Resume
<1>13. id \in 0 .. MaxCap - 1
  BY <1>1, CapAssumption DEF Slots
<1> QED
  BY <1>12, <1>13 DEF CS!Next

\* A coroutine that gives up control leaves the stack to its resumer.
LEMMA ReturnPops ==
  ASSUME IInv, IInv', NEW st \in {CO_STATUS_SUSPEND, CO_STATUS_DEAD}, Returns(st)
  PROVE  /\ Len(stack) > 1
         /\ stack' = CS!Below
         /\ CS!Top = running
         /\ parked' = IF st = CO_STATUS_SUSPEND THEN parked \cup {running} ELSE parked
<1>1. open /\ open' /\ running' = pco[running] /\ pco' = pco /\ running # MAIN_CO_ID
  BY DEF Returns
<1>2. /\ Slots' = Slots
      /\ running \in Active /\ pco[running] \in Active /\ pco[running] # running
      /\ status'[running] = st
      /\ status'[pco[running]] = CO_STATUS_RUNNING
      /\ \A i \in Slots \ {running, pco[running]} : status'[i] = status[i]
      /\ Active' = Active \ {running}
  BY ReturnFacts
<1>3. PICK k \in Nat : \E s \in [1 .. k -> Active] : IsChain(s, k, Active, pco, running)
  BY <1>1 DEF IInv, Linked
<1>4. PICK s \in [1 .. k -> Active] : IsChain(s, k, Active, pco, running)
  BY <1>3
<1>5. Len(stack) = k /\ CS!Top = running /\ CS!Below = Pop(s, k)
  BY <1>1, <1>4, MappedStack
<1>6. /\ k >= 2
      /\ Pop(s, k) \in [1 .. k - 1 -> Active']
      /\ IsChain(Pop(s, k), k - 1, Active', pco', running')
  BY <1>1, <1>2, <1>4, ChainPop
<1>7. stack' = Pop(s, k)
  <2>1. StackDetermined'
    BY <1>1, StackIsChain, PTL
  <2>2. k - 1 \in Nat
    BY <1>6
  <2> QED
    BY <1>6, <2>1, <2>2 DEF StackDetermined
<1>8. parked' = IF st = CO_STATUS_SUSPEND THEN parked \cup {running} ELSE parked
  BY <1>2 DEF parked, Active, CO_STATUS_SUSPEND, CO_STATUS_DEAD, CO_STATUS_RUNNING,
       CO_STATUS_NORMAL
<1> QED
  BY <1>5, <1>6, <1>7, <1>8

\* The scheduler implements nested calls: every call of its interface is a step of
\* CallStack on the stack its resume links describe.
THEOREM ImplementsCallStack == Spec => Nesting
<1>1. Init => CS!Init
  BY DEF Init, CS!Init, stack, parked, Slots
<1>2. ASSUME IInv, IInv', [Next]_vars PROVE [CS!Next]_(CS!csvars)
  <2>1. CASE cort_open
    BY <1>2, <2>1, OpenOpens
  <2>2. CASE cort_close
    BY <1>2, <2>2, CloseCloses
  <2>3. CASE cort_new_grow
    <3>1. cap \in Nat /\ cap >= 1 /\ 2 * cap <= MaxCap /\ open
      BY <1>2, <2>3, CapAssumption DEF IInv, TypeOK, cort_new_grow
    <3>2. cap \in 0 .. 2 * cap - 1 /\ 2 * cap \in cap .. MaxCap /\ cap \notin Slots
      BY <3>1, CapAssumption DEF Slots
    <3> QED
      BY <1>2, <2>3, <3>1, <3>2, OccupySpawns DEF cort_new_grow
  <2>4. CASE cort_new_scan
    <3>1. cap \in Nat /\ cap >= 1 /\ cap <= MaxCap /\ nco \in Nat /\ open
      BY <1>2, <2>4, CapAssumption DEF IInv, TypeOK, cort_new_scan
    <3>2. PICK i \in Slots : Free(Probe(i)) /\ Occupy(Probe(i), cap)
      BY <2>4 DEF cort_new_scan
    <3>3. Probe(i) \in 0 .. cap - 1 /\ cap \in cap .. MaxCap
      BY <3>1, CapAssumption DEF Probe, Slots
    <3> QED
      BY <1>2, <3>1, <3>2, <3>3, OccupySpawns
  <2>5. CASE \E id \in Slots : cort_resume(id)
    BY <1>2, <2>5, ResumePushes
  <2>6. CASE cort_yield
    <3>1. Returns(CO_STATUS_SUSPEND)
      BY <2>6 DEF cort_yield, Returns
    <3>2. CS!Yield
      BY <1>2, <3>1, ReturnPops DEF CS!Yield
    <3> QED
      BY <3>2 DEF CS!Next
  <2>7. CASE cofunc_return
    <3>1. Returns(CO_STATUS_DEAD) /\ CO_STATUS_DEAD # CO_STATUS_SUSPEND
      BY <2>7 DEF cofunc_return, Returns, CO_STATUS_DEAD, CO_STATUS_SUSPEND
    <3>2. CS!Finish
      BY <1>2, <3>1, ReturnPops DEF CS!Finish
    <3> QED
      BY <3>2 DEF CS!Next
  <2>8. CASE UNCHANGED vars
    BY <2>8 DEF vars, CS!csvars, stack, parked, Chains, Active, Slots
  <2> QED
    BY <1>2, <2>1, <2>2, <2>3, <2>4, <2>5, <2>6, <2>7, <2>8 DEF Next
<1> QED
  BY <1>1, <1>2, Invariance, PTL DEF Spec, Nesting, CS!Spec
=============================================================================
