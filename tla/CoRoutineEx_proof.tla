-------------------------- MODULE CoRoutineEx_proof --------------------------
(***************************************************************************)
(* Proofs about the blocking calls, for every number of coroutines, of     *)
(* objects and of timers.                                                  *)
(***************************************************************************)
EXTENDS CoRoutineEx, FiniteSetTheorems, SequenceTheorems, TLAPS

-----------------------------------------------------------------------------
(* The inductive invariant. *)

\* The coroutines that called cort_resume and wait for it to return, and the last of
\* them: the one that resumed the running coroutine.
Waiting == {stack[k] : k \in 1 .. Len(stack) - 1}
Resumer == stack[Len(stack) - 1]

SchedOK ==
  /\ stack \in Seq(Co \cup {Main})
  /\ Len(stack) >= 1
  /\ stack[1] = Main
  /\ \A k \in 2 .. Len(stack) : stack[k] \in Co
  /\ \A j, k \in 1 .. Len(stack) : stack[j] = stack[k] => j = k
  /\ parked \subseteq Co
  /\ \A k \in 1 .. Len(stack) : stack[k] \notin parked

ObjectsOK ==
  /\ call \in [Co -> {None, "start", "connect", "read", "sleep"}]
  /\ mine \in [Co -> Object \cup {None}]
  /\ bound \subseteq {c \in Co : mine[c] # None}
  /\ data \in [Co -> {None, "tcp", "data", "close", "error"}]
  /\ timers \in [Co -> 0 .. MaxTimer]
  /\ after \in [Co \cup {Main} -> Object \cup {None}]
  /\ state \in [Object -> {"free", "connecting", "connected", "closing"}]
  /\ cb \in [Object -> {None, "connect", "read"}]
  /\ ud \in [Object -> Co \cup {Stale}]
  /\ missed \in BOOLEAN

\* Only the running coroutine and parked ones are in a blocking call, and control never
\* returns to the callback of a coroutine that is in one.
CallsOK ==
  /\ \A c \in Waiting \cap Co : call[c] = None
  /\ \A c \in Co : after[c] # None => c \in Sched!OnStack /\ call[c] = None
  /\ \A c \in Co : call[c] # None => c \in Sched!OnStack \cup parked

\* Who reads or connects has an object, and it is not freed under its owner.
OwnersOpen ==
  \A c \in Co : /\ mine[c] # None => state[mine[c]] # "free"
                /\ call[c] \in {"connect", "read"} => mine[c] # None

OwnedOnce == \A c, d \in Co : mine[c] # None /\ mine[c] = mine[d] => c = d

BoundReads == \A c \in bound : cb[mine[c]] = "read"

CallbackFits ==
  \A o \in Object : /\ cb[o] = "connect" => state[o] = "connecting"
                    /\ cb[o] = "read" => state[o] \in {"connected", "closing"}

\* The local that ud points to is of a call for this object.
LocalsLive ==
  \A o \in Object : ud[o] # Stale => /\ mine[ud[o]] = o
                                     /\ call[ud[o]] \in {"connect", "read"}

DataFresh == \A c \in Co : data[c] # None => c = Running /\ call[c] # None

\* The only timer of a coroutine is the one it sleeps for.
TimerOwned ==
  \A c \in Co : timers[c] > 0 => c \in parked /\ call[c] = "sleep" /\ timers[c] = 1

\* What holds as long as nobody missed an event.
InTouch ==
  ~missed => /\ OwnersOpen /\ OwnedOnce /\ BoundReads /\ CallbackFits
             /\ LocalsLive /\ DataFresh /\ TimerOwned

IInv == SchedOK /\ ObjectsOK /\ CallsOK /\ SleepersWake /\ InTouch /\ Served /\ ToldTheTruth

-----------------------------------------------------------------------------
(* What the steps of the scheduler do to the nesting of the calls. *)

LEMMA StackSets ==
  ASSUME SchedOK
  PROVE  /\ Sched!OnStack = Waiting \cup {Running}
         /\ Running \notin Waiting
         /\ Main \in Sched!OnStack
         /\ Sched!OnStack \subseteq Co \cup {Main}
         /\ Sched!OnStack \cap parked = {}
         /\ Len(stack) \in Nat \ {0}
         /\ DOMAIN stack = 1 .. Len(stack)
<1>1. Len(stack) \in Nat \ {0} /\ DOMAIN stack = 1 .. Len(stack)
  BY DEF SchedOK
<1>2. 1 .. Len(stack) = (1 .. Len(stack) - 1) \cup {Len(stack)} /\ 1 \in 1 .. Len(stack)
  BY <1>1
<1>3. Sched!OnStack = Waiting \cup {Running}
  BY <1>1, <1>2 DEF Sched!OnStack, Waiting, Running, Sched!Top
<1>4. Running \notin Waiting
  <2>1. ASSUME NEW k \in 1 .. Len(stack) - 1 PROVE stack[k] # stack[Len(stack)]
    BY <1>1, <2>1 DEF SchedOK
  <2> QED
    BY <2>1 DEF Waiting, Running, Sched!Top
<1>5. Main \in Sched!OnStack /\ Sched!OnStack \subseteq Co \cup {Main}
  BY <1>1, <1>2 DEF SchedOK, Sched!OnStack
<1>6. Sched!OnStack \cap parked = {}
  BY <1>1 DEF SchedOK, Sched!OnStack
<1> QED
  BY <1>1, <1>3, <1>4, <1>5, <1>6

\* Control goes back one coroutine.
LEMMA PopSched ==
  ASSUME SchedOK, Len(stack) > 1, stack' = Sched!Below,
         parked' \subseteq parked \cup {Running}
  PROVE  /\ SchedOK'
         /\ Sched!OnStack' = Waiting
         /\ Waiting' \subseteq Waiting
         /\ Running' = Resumer /\ Running' \in Waiting
<1> DEFINE n == Len(stack)
<1>1. n \in Nat /\ n > 1 /\ stack' = [k \in 1 .. n - 1 |-> stack[k]]
  BY DEF SchedOK, Sched!Below
<1>2. /\ stack' \in Seq(Co \cup {Main}) /\ Len(stack') = n - 1
      /\ \A k \in 1 .. n - 1 : stack'[k] = stack[k] /\ k \in 1 .. n
  BY <1>1 DEF SchedOK
<1>3. Running = stack[n] /\ n \in 2 .. n
  BY <1>1 DEF Running, Sched!Top
<1>4. \A k \in 1 .. n - 1 : stack[k] # Running /\ stack[k] \notin parked
  BY <1>1, <1>3 DEF SchedOK
<1>5. parked' \subseteq Co
  BY <1>1, <1>3 DEF SchedOK
<1>6. SchedOK'
  BY <1>1, <1>2, <1>4, <1>5 DEF SchedOK
<1>7. Sched!OnStack' = Waiting
  <2>1. DOMAIN stack' = 1 .. n - 1
    BY <1>1
  <2> QED
    BY <1>2, <2>1 DEF Sched!OnStack, Waiting
<1>8. Waiting' \subseteq Waiting
  <2>1. \A k \in 1 .. Len(stack') - 1 : k \in 1 .. n - 1 /\ stack'[k] = stack[k]
    BY <1>1, <1>2
  <2> QED
    BY <2>1 DEF Waiting
<1>9. Running' = stack[n - 1] /\ n - 1 \in 1 .. n - 1
  BY <1>1, <1>2 DEF Running, Sched!Top
<1> QED
  BY <1>6, <1>7, <1>8, <1>9 DEF Waiting, Resumer

\* Control goes to a coroutine that was parked.
LEMMA ResumeSched ==
  ASSUME SchedOK, NEW c, Sched!Resume(c)
  PROVE  /\ SchedOK'
         /\ c \in parked /\ c \in Co
         /\ parked' = parked \ {c}
         /\ Sched!OnStack' = Sched!OnStack \cup {c}
         /\ Waiting' = Sched!OnStack
         /\ Running' = c
         /\ Resumer' = Running
<1> DEFINE n == Len(stack)
<1>1. /\ n \in Nat \ {0} /\ DOMAIN stack = 1 .. n
      /\ c \in parked /\ c \in Co /\ stack' = Append(stack, c) /\ parked' = parked \ {c}
  BY DEF SchedOK, Sched!Resume
<1>2. /\ stack' \in Seq(Co \cup {Main}) /\ Len(stack') = n + 1 /\ DOMAIN stack' = 1 .. n + 1
      /\ stack'[n + 1] = c /\ \A k \in 1 .. n : stack'[k] = stack[k]
  BY <1>1 DEF SchedOK
<1>3. \A k \in 1 .. n : stack[k] # c
  BY <1>1 DEF SchedOK
<1>4. 1 .. n + 1 = (1 .. n) \cup {n + 1} /\ 1 \in 1 .. n /\ n \in 1 .. n
  BY <1>1
<1>5. SchedOK'
  <2>1. \A k \in 2 .. Len(stack') : stack'[k] \in Co
    <3>1. ASSUME NEW k \in 2 .. n + 1 PROVE stack'[k] \in Co
      <4>1. k \in 2 .. n \/ k = n + 1
        BY <1>1
      <4> QED
        BY <1>1, <1>2, <4>1 DEF SchedOK
    <3> QED
      BY <1>2, <3>1
  <2>2. \A j, k \in 1 .. Len(stack') : stack'[j] = stack'[k] => j = k
    BY <1>1, <1>2, <1>3, <1>4 DEF SchedOK
  <2>3. \A k \in 1 .. Len(stack') : stack'[k] \notin parked'
    BY <1>1, <1>2, <1>3, <1>4 DEF SchedOK
  <2>4. Len(stack') >= 1 /\ stack'[1] = Main /\ parked' \subseteq Co
    BY <1>1, <1>2, <1>4 DEF SchedOK
  <2> QED
    BY <1>2, <2>1, <2>2, <2>3, <2>4 DEF SchedOK
<1>6. Sched!OnStack' = Sched!OnStack \cup {c}
  BY <1>1, <1>2, <1>4 DEF Sched!OnStack
<1>7. Waiting' = Sched!OnStack
  <2>1. Len(stack') - 1 = n
    BY <1>1, <1>2
  <2> QED
    BY <1>1, <1>2, <2>1 DEF Sched!OnStack, Waiting
<1>8. Running' = c /\ Resumer' = Running
  BY <1>1, <1>2, <1>4 DEF Running, Resumer, Sched!Top
<1> QED
  BY <1>1, <1>5, <1>6, <1>7, <1>8

LEMMA SpawnSched ==
  ASSUME SchedOK, NEW c \in Co, Sched!Spawn(c)
  PROVE  /\ SchedOK' /\ UNCHANGED stack
         /\ c \notin Sched!OnStack /\ c \notin parked
         /\ parked' = parked \cup {c}
         /\ Sched!OnStack' = Sched!OnStack /\ Waiting' = Waiting
         /\ Running' = Running /\ Resumer' = Resumer
<1>1. /\ UNCHANGED stack /\ parked' = parked \cup {c}
      /\ c \notin Sched!OnStack /\ c \notin parked
  BY DEF Sched!Spawn
<1>2. \A k \in 1 .. Len(stack) : stack[k] # c
  BY <1>1, StackSets DEF Sched!OnStack
<1>3. SchedOK'
  BY <1>1, <1>2 DEF SchedOK
<1> QED
  BY <1>1, <1>3 DEF Sched!OnStack, Waiting, Running, Resumer, Sched!Top

LEMMA SameSched ==
  ASSUME SchedOK, UNCHANGED sched
  PROVE  /\ SchedOK' /\ parked' = parked
         /\ Sched!OnStack' = Sched!OnStack /\ Waiting' = Waiting
         /\ Running' = Running /\ Resumer' = Resumer
BY DEF SchedOK, sched, Sched!OnStack, Waiting, Running, Resumer, Sched!Top

\* What the user code and the loop may assume.
LEMMA RunningCo ==
  ASSUME SchedOK, NEW c \in Co, Running = c
  PROVE  Len(stack) > 1 /\ c \notin parked /\ c \in Sched!OnStack
<1>1. Len(stack) # 1
  BY ExAssumption DEF SchedOK, Running, Sched!Top
<1> QED
  BY <1>1, StackSets

LEMMA InLoop ==
  ASSUME SchedOK, Loop
  PROVE  Running = Main /\ Sched!OnStack = {Main} /\ Waiting = {} /\ after[Main] = None
<1>1. /\ Len(stack) = 1 /\ stack[1] = Main /\ DOMAIN stack = {1}
      /\ 1 .. 0 = {} /\ Len(stack) - 1 = 0
  BY DEF Loop
<1> QED
  BY <1>1 DEF Loop, Running, Sched!OnStack, Waiting, Sched!Top

-----------------------------------------------------------------------------
(* Calls that park the running coroutine. *)

\* Nothing is promised of a coroutine that executes its own code.
LEMMA UserTold ==
  ASSUME SchedOK', Running' \in Co => call'[Running'] = None
  PROVE  ToldTheTruth'
<1>1. ASSUME NEW c \in Co, Running' = c
      PROVE  call'[c] # "read" /\ call'[c] # "connect"
  BY <1>1 DEF None
<1> QED
  BY <1>1 DEF ToldTheTruth

LEMMA ParkCalls ==
  ASSUME IInv, NEW c \in Co, NEW what \in {"connect", "read", "sleep"},
         User(c), Park(c, what), UNCHANGED after
  PROVE  /\ SchedOK' /\ CallsOK' /\ ToldTheTruth'
         /\ parked' = parked \cup {c} /\ c \notin parked
         /\ call' = [call EXCEPT ![c] = what] /\ call[c] = None
         /\ \A d \in Co : ~missed => data[d] = None
<1>1. SchedOK /\ CallsOK /\ ObjectsOK /\ InTouch
  BY DEF IInv
<1>2. Running = c /\ after[c] = None /\ call[c] = None
  BY DEF User
<1>3. Len(stack) > 1 /\ c \notin parked /\ c \in Sched!OnStack
  BY <1>1, <1>2, RunningCo
<1>4. stack' = Sched!Below /\ parked' = parked \cup {c} /\ call' = [call EXCEPT ![c] = what]
  BY <1>2 DEF Park, Sched!Yield, Running
<1>5. /\ SchedOK' /\ Sched!OnStack' = Waiting /\ Waiting' \subseteq Waiting
      /\ Running' \in Waiting
  BY <1>1, <1>2, <1>3, <1>4, PopSched
<1>6. Sched!OnStack = Waiting \cup {c} /\ c \notin Waiting
  BY <1>1, <1>2, StackSets
<1>7. CallsOK'
  <2>1. \A d \in Waiting' \cap Co : call'[d] = None
    BY <1>1, <1>4, <1>5, <1>6 DEF CallsOK, ObjectsOK
  <2>2. \A d \in Co : after'[d] # None => d \in Sched!OnStack' /\ call'[d] = None
    BY <1>1, <1>2, <1>4, <1>5, <1>6 DEF CallsOK, ObjectsOK
  <2>3. \A d \in Co : call'[d] # None => d \in Sched!OnStack' \cup parked'
    BY <1>1, <1>4, <1>5, <1>6 DEF CallsOK, ObjectsOK
  <2> QED
    BY <2>1, <2>2, <2>3 DEF CallsOK
<1>8. Running' \in Co => call'[Running'] = None
  BY <1>1, <1>4, <1>5, <1>6 DEF CallsOK, ObjectsOK
<1>9. ToldTheTruth'
  BY <1>5, <1>8, UserTold
<1>10. \A d \in Co : ~missed => data[d] = None
  BY <1>1, <1>2 DEF InTouch, DataFresh
<1> QED
  BY <1>2, <1>3, <1>4, <1>5, <1>7, <1>9, <1>10

\* A call whose end nobody announces.
LEMMA ConnectFailsIInv ==
  ASSUME IInv, NEW c \in Co, cort_tcp_connect_fails(c)
  PROVE  IInv'
<1>1. /\ SchedOK' /\ CallsOK' /\ ToldTheTruth'
      /\ parked' = parked \cup {c}
      /\ call' = [call EXCEPT ![c] = "connect"]
  BY ParkCalls DEF cort_tcp_connect_fails
<1>2. ObjectsOK'
  BY <1>1 DEF IInv, ObjectsOK, cort_tcp_connect_fails, objects
<1>3. SleepersWake'
  BY <1>1 DEF IInv, ObjectsOK, SleepersWake, cort_tcp_connect_fails
<1>4. missed'
  BY DEF cort_tcp_connect_fails
<1> QED
  BY <1>1, <1>2, <1>3, <1>4 DEF IInv, InTouch, Served

LEMMA ImmediateIInv ==
  ASSUME IInv, NEW c \in Co, NEW o \in Tcp, cort_tcp_connect_immediate(c, o)
  PROVE  IInv'
<1>1. /\ SchedOK' /\ CallsOK' /\ ToldTheTruth'
      /\ parked' = parked \cup {c}
      /\ call' = [call EXCEPT ![c] = "connect"]
  BY ParkCalls DEF cort_tcp_connect_immediate
<1>2. ObjectsOK'
  BY <1>1 DEF IInv, ObjectsOK, cort_tcp_connect_immediate, Object
<1>3. SleepersWake'
  BY <1>1 DEF IInv, ObjectsOK, SleepersWake, cort_tcp_connect_immediate
<1>4. missed'
  BY DEF cort_tcp_connect_immediate
<1> QED
  BY <1>1, <1>2, <1>3, <1>4 DEF IInv, InTouch, Served

\* The socket is free: no coroutine has it.
LEMMA ConnectIInv ==
  ASSUME IInv, NEW c \in Co, NEW o \in Tcp, cort_tcp_connect(c, o)
  PROVE  IInv'
<1>1. /\ SchedOK' /\ CallsOK' /\ ToldTheTruth'
      /\ parked' = parked \cup {c} /\ c \notin parked
      /\ call' = [call EXCEPT ![c] = "connect"] /\ call[c] = None
      /\ \A d \in Co : ~missed => data[d] = None
  BY ParkCalls DEF cort_tcp_connect
<1>2. /\ state[o] = "free" /\ mine[c] = None /\ mine' = [mine EXCEPT ![c] = o]
      /\ state' = [state EXCEPT ![o] = "connecting"]
      /\ cb' = [cb EXCEPT ![o] = "connect"]
      /\ ud' = [ud EXCEPT ![o] = c]
      /\ UNCHANGED <<bound, data, timers, missed>>
      /\ o \in Object /\ o # None /\ c # Stale
  BY ExAssumption DEF cort_tcp_connect, Object
<1>3. ObjectsOK'
  BY <1>1, <1>2 DEF IInv, ObjectsOK, cort_tcp_connect
<1>4. SleepersWake'
  BY <1>1, <1>2 DEF IInv, ObjectsOK, SleepersWake
<1>5. ASSUME ~missed
      PROVE  /\ OwnersOpen' /\ OwnedOnce' /\ BoundReads' /\ CallbackFits'
             /\ LocalsLive' /\ DataFresh' /\ TimerOwned'
  <2>1. /\ OwnersOpen /\ OwnedOnce /\ BoundReads /\ CallbackFits
        /\ LocalsLive /\ DataFresh /\ TimerOwned /\ ObjectsOK
    BY <1>5 DEF IInv, InTouch
  <2>2. \A d \in Co : mine[d] # o
    BY <1>2, <2>1 DEF OwnersOpen
  <2>3. OwnersOpen' /\ OwnedOnce'
    BY <1>1, <1>2, <2>1, <2>2 DEF ObjectsOK, OwnersOpen, OwnedOnce, None
  <2>4. BoundReads' /\ CallbackFits'
    BY <1>2, <2>1, <2>2 DEF ObjectsOK, BoundReads, CallbackFits
  <2>5. LocalsLive'
    BY <1>1, <1>2, <2>1, <2>2 DEF ObjectsOK, LocalsLive, None
  <2>6. DataFresh' /\ TimerOwned'
    BY <1>1, <1>2, <1>5, <2>1 DEF ObjectsOK, DataFresh, TimerOwned, None
  <2> QED
    BY <2>3, <2>4, <2>5, <2>6
<1>6. Served'
  <2>1. \A d \in parked : ~missed => mine[d] # o \/ call[d] \notin {"read", "connect"}
    BY <1>2 DEF IInv, ObjectsOK, Served, SchedOK
  <2> QED
    BY <1>1, <1>2, <2>1 DEF IInv, ObjectsOK, Served, SchedOK
<1> QED
  BY <1>1, <1>2, <1>3, <1>4, <1>5, <1>6 DEF IInv, InTouch

\* Only the owner of an object reads from it.
LEMMA ReadIInv ==
  ASSUME IInv, NEW c \in Co, Read(c)
  PROVE  IInv'
<1>1. /\ SchedOK' /\ CallsOK' /\ ToldTheTruth'
      /\ parked' = parked \cup {c} /\ c \notin parked
      /\ call' = [call EXCEPT ![c] = "read"] /\ call[c] = None
      /\ \A d \in Co : ~missed => data[d] = None
  BY ParkCalls DEF Read
<1>2. /\ c \in bound /\ ud' = [ud EXCEPT ![mine[c]] = c]
      /\ UNCHANGED <<mine, bound, data, timers, after, state, cb, missed>>
      /\ mine[c] \in Object /\ mine[c] # None /\ c # Stale
  BY ExAssumption DEF Read, IInv, ObjectsOK
<1>3. ObjectsOK'
  BY <1>1, <1>2 DEF IInv, ObjectsOK
<1>4. SleepersWake'
  BY <1>1, <1>2 DEF IInv, ObjectsOK, SleepersWake
<1>5. ASSUME ~missed
      PROVE  /\ OwnersOpen' /\ OwnedOnce' /\ BoundReads' /\ CallbackFits'
             /\ LocalsLive' /\ DataFresh' /\ TimerOwned'
  <2>1. /\ OwnersOpen /\ OwnedOnce /\ BoundReads /\ CallbackFits
        /\ LocalsLive /\ DataFresh /\ TimerOwned /\ ObjectsOK
    BY <1>5 DEF IInv, InTouch
  <2>2. OwnersOpen' /\ OwnedOnce' /\ BoundReads' /\ CallbackFits'
    BY <1>1, <1>2, <2>1 DEF ObjectsOK, OwnersOpen, OwnedOnce, BoundReads, CallbackFits
  <2>3. LocalsLive'
    BY <1>1, <1>2, <2>1 DEF ObjectsOK, LocalsLive, None
  <2>4. DataFresh' /\ TimerOwned'
    BY <1>1, <1>2, <1>5, <2>1 DEF ObjectsOK, DataFresh, TimerOwned, None
  <2> QED
    BY <2>2, <2>3, <2>4
<1>6. Served'
  <2>1. ASSUME ~missed
        PROVE  /\ cb[mine[c]] = "read" /\ state[mine[c]] # "free"
               /\ \A d \in Co : mine[d] = mine[c] => d = c
    BY <1>2, <2>1 DEF IInv, InTouch, BoundReads, CallbackFits, OwnedOnce
  <2> QED
    BY <1>1, <1>2, <2>1 DEF IInv, ObjectsOK, Served, SchedOK
<1> QED
  BY <1>1, <1>2, <1>3, <1>4, <1>5, <1>6 DEF IInv, InTouch

LEMMA SleepIInv ==
  ASSUME IInv, NEW c \in Co, cort_sleep(c)
  PROVE  IInv'
<1>1. /\ SchedOK' /\ CallsOK' /\ ToldTheTruth'
      /\ parked' = parked \cup {c} /\ c \notin parked
      /\ call' = [call EXCEPT ![c] = "sleep"] /\ call[c] = None
      /\ \A d \in Co : ~missed => data[d] = None
  BY ParkCalls DEF cort_sleep
<1>2. /\ timers' = [timers EXCEPT ![c] = @ + 1] /\ timers[c] < MaxTimer
      /\ timers[c] \in Nat /\ timers[c] + 1 \in 0 .. MaxTimer
      /\ UNCHANGED <<mine, bound, data, after, state, cb, ud, missed>>
  BY ExAssumption DEF cort_sleep, IInv, ObjectsOK, objects
<1>3. ObjectsOK'
  BY <1>1, <1>2 DEF IInv, ObjectsOK
<1>4. SleepersWake'
  BY <1>1, <1>2 DEF IInv, ObjectsOK, SleepersWake
<1>5. ASSUME ~missed
      PROVE  /\ OwnersOpen' /\ OwnedOnce' /\ BoundReads' /\ CallbackFits'
             /\ LocalsLive' /\ DataFresh' /\ TimerOwned'
  <2>1. /\ OwnersOpen /\ OwnedOnce /\ BoundReads /\ CallbackFits
        /\ LocalsLive /\ DataFresh /\ TimerOwned /\ ObjectsOK
    BY <1>5 DEF IInv, InTouch
  <2>2. OwnersOpen' /\ OwnedOnce' /\ BoundReads' /\ CallbackFits'
    BY <1>1, <1>2, <2>1 DEF ObjectsOK, OwnersOpen, OwnedOnce, BoundReads, CallbackFits
  <2>3. LocalsLive'
    BY <1>1, <1>2, <2>1 DEF ObjectsOK, LocalsLive, None
  <2>4. DataFresh'
    BY <1>1, <1>2, <1>5 DEF DataFresh
  <2>5. TimerOwned'
    <3>1. timers[c] = 0
      BY <1>1, <1>2, <2>1 DEF TimerOwned
    <3> QED
      BY <1>1, <1>2, <2>1, <3>1 DEF ObjectsOK, TimerOwned
  <2> QED
    BY <2>2, <2>3, <2>4, <2>5
<1>6. Served'
  BY <1>1, <1>2 DEF IInv, ObjectsOK, Served, SchedOK
<1> QED
  BY <1>1, <1>2, <1>3, <1>4, <1>5, <1>6 DEF IInv, InTouch

-----------------------------------------------------------------------------
(* Steps after which the same coroutine still runs. *)

\* The running coroutine is in no call.
LEMMA SameCalls ==
  ASSUME IInv, UNCHANGED <<sched, call, after>>, Running \in Co => call[Running] = None
  PROVE  /\ SchedOK' /\ CallsOK' /\ ToldTheTruth' /\ parked' = parked /\ Running' = Running
         /\ \A d \in Co : ~missed => data[d] = None
         /\ \A o \in Object : ~missed /\ ud[o] # Stale => ud[o] \in parked
<1>1. /\ SchedOK' /\ parked' = parked /\ Running' = Running
      /\ Sched!OnStack' = Sched!OnStack /\ Waiting' = Waiting
  BY SameSched DEF IInv
<1>2. CallsOK'
  BY <1>1 DEF IInv, CallsOK
<1>3. ToldTheTruth'
  BY <1>1, UserTold
<1>4. \A d \in Co : ~missed => data[d] = None
  BY DEF IInv, InTouch, DataFresh
<1>5. ASSUME NEW o \in Object, ~missed, ud[o] # Stale PROVE ud[o] \in parked
  <2>1. ud[o] \in Co /\ call[ud[o]] # None
    BY <1>5 DEF IInv, InTouch, LocalsLive, ObjectsOK, None
  <2>2. ud[o] \notin Waiting /\ ud[o] # Running
    BY <2>1 DEF IInv, CallsOK
  <2>3. ud[o] \in Waiting \cup {Running} \cup parked
    BY <2>1, StackSets DEF IInv, CallsOK
  <2> QED
    BY <2>2, <2>3
<1> QED
  BY <1>1, <1>2, <1>3, <1>4, <1>5

LEMMA OpensIInv ==
  ASSUME IInv, NEW c \in Co, NEW o \in Object, opens(c, o)
  PROVE  IInv'
<1>1. /\ SchedOK' /\ CallsOK' /\ ToldTheTruth' /\ parked' = parked /\ Running' = Running
  BY SameCalls DEF opens, User
<1>2. /\ state[o] = "free" /\ mine[c] = None /\ mine' = [mine EXCEPT ![c] = o]
      /\ state' = [state EXCEPT ![o] = "connected"] /\ call[c] = None
      /\ UNCHANGED <<call, bound, data, timers, after, cb, ud, missed>>
      /\ o # None
  BY ExAssumption DEF opens, User
<1>3. ObjectsOK'
  BY <1>2 DEF IInv, ObjectsOK
<1>4. SleepersWake'
  BY <1>1, <1>2 DEF IInv, SleepersWake
<1>5. ASSUME ~missed
      PROVE  /\ OwnersOpen' /\ OwnedOnce' /\ BoundReads' /\ CallbackFits'
             /\ LocalsLive' /\ DataFresh' /\ TimerOwned'
  <2>1. /\ OwnersOpen /\ OwnedOnce /\ BoundReads /\ CallbackFits
        /\ LocalsLive /\ DataFresh /\ TimerOwned /\ ObjectsOK
    BY <1>5 DEF IInv, InTouch
  <2>2. \A d \in Co : mine[d] # o
    BY <1>2, <2>1 DEF OwnersOpen
  <2>3. OwnersOpen' /\ OwnedOnce'
    BY <1>2, <2>1, <2>2 DEF ObjectsOK, OwnersOpen, OwnedOnce
  <2>4. BoundReads' /\ CallbackFits'
    BY <1>2, <2>1, <2>2 DEF ObjectsOK, BoundReads, CallbackFits
  <2>5. LocalsLive'
    BY <1>1, <1>2, <2>1, <2>2 DEF ObjectsOK, LocalsLive, None
  <2>6. DataFresh' /\ TimerOwned'
    BY <1>1, <1>2, <2>1 DEF DataFresh, TimerOwned
  <2> QED
    BY <2>3, <2>4, <2>5, <2>6
<1>6. Served'
  <2>1. \A d \in parked :
          ~missed /\ (call[d] = "read" \/ call[d] = "connect") => mine[d] # o /\ d # c
    BY <1>2 DEF IInv, ObjectsOK, Served, SchedOK, None
  <2> QED
    BY <1>1, <1>2, <2>1 DEF IInv, ObjectsOK, Served, SchedOK
<1> QED
  BY <1>1, <1>2, <1>3, <1>4, <1>5, <1>6 DEF IInv, InTouch

\* cb becomes that of the reads only while the object is connected.
LEMMA BindIInv ==
  ASSUME IInv, NEW c \in Co, mine[c] \in Object, Bind(c)
  PROVE  IInv'
<1>1. /\ SchedOK' /\ CallsOK' /\ ToldTheTruth' /\ parked' = parked /\ Running' = Running
  BY SameCalls DEF Bind, User
<1>2. /\ bound' = bound \cup {c} /\ call[c] = None
      /\ UNCHANGED <<call, mine, data, timers, after, state, ud>>
      /\ mine[c] # None
  BY ExAssumption DEF Bind, User
<1>3. \/ /\ state[mine[c]] = "connected" /\ cb' = [cb EXCEPT ![mine[c]] = "read"]
         /\ UNCHANGED missed
      \/ UNCHANGED cb /\ missed' = TRUE
  BY DEF Bind
<1>4. ObjectsOK'
  BY <1>2, <1>3 DEF IInv, ObjectsOK
<1>5. SleepersWake'
  BY <1>1, <1>2 DEF IInv, SleepersWake
<1>6. ASSUME ~missed'
      PROVE  /\ OwnersOpen' /\ OwnedOnce' /\ BoundReads' /\ CallbackFits'
             /\ LocalsLive' /\ DataFresh' /\ TimerOwned' /\ Served'
  <2>1. /\ state[mine[c]] = "connected" /\ cb' = [cb EXCEPT ![mine[c]] = "read"]
        /\ UNCHANGED missed
    BY <1>3, <1>6
  <2>2. /\ OwnersOpen /\ OwnedOnce /\ BoundReads /\ CallbackFits
        /\ LocalsLive /\ DataFresh /\ TimerOwned /\ ObjectsOK
    BY <1>6, <2>1 DEF IInv, InTouch
  <2>3. OwnersOpen' /\ OwnedOnce' /\ LocalsLive' /\ DataFresh' /\ TimerOwned'
    BY <1>1, <1>2, <2>2 DEF OwnersOpen, OwnedOnce, LocalsLive, DataFresh, TimerOwned
  <2>4. BoundReads' /\ CallbackFits'
    BY <1>2, <2>1, <2>2 DEF ObjectsOK, BoundReads, CallbackFits
  <2>5. Served'
    BY <1>1, <1>2, <2>1 DEF IInv, ObjectsOK, Served, SchedOK
  <2> QED
    BY <2>3, <2>4, <2>5
<1>7. Served'
  BY <1>6 DEF Served
<1> QED
  BY <1>1, <1>4, <1>5, <1>6, <1>7 DEF IInv, InTouch

\* An object is freed that nobody has any more, or that somebody learns too late of.
LEMMA FreedInTouch ==
  ASSUME IInv, ~missed, NEW o \in Object, Free(o),
         UNCHANGED <<call, data, timers>>,
         Running' = Running, parked' = parked,
         mine' \in [Co -> Object \cup {None}], bound' \subseteq bound,
         \A d \in Co : \/ mine'[d] = mine[d]
                      \/ /\ mine[d] = o /\ mine'[d] = None
                         /\ d \notin parked /\ call[d] = None,
         \A d \in Co : mine'[d] # o,
         \A d \in bound' : mine'[d] # None
  PROVE  /\ OwnersOpen' /\ OwnedOnce' /\ BoundReads' /\ CallbackFits'
         /\ LocalsLive' /\ DataFresh' /\ TimerOwned' /\ Served'
<1>1. /\ OwnersOpen /\ OwnedOnce /\ BoundReads /\ CallbackFits
      /\ LocalsLive /\ DataFresh /\ TimerOwned /\ ObjectsOK
  BY DEF IInv, InTouch
<1>2. /\ state' = [state EXCEPT ![o] = "free"]
      /\ cb' = [cb EXCEPT ![o] = None]
      /\ ud' = [ud EXCEPT ![o] = Stale]
      /\ o # None
  BY ExAssumption DEF Free
<1>3. OwnersOpen' /\ OwnedOnce'
  BY <1>1, <1>2 DEF ObjectsOK, OwnersOpen, OwnedOnce, None
<1>4. BoundReads'
  BY <1>1, <1>2 DEF ObjectsOK, BoundReads
<1>5. CallbackFits'
  BY <1>1, <1>2 DEF ObjectsOK, CallbackFits, None
<1>6. LocalsLive'
  <2>1. ASSUME NEW p \in Object, ud'[p] # Stale
        PROVE  mine'[ud'[p]] = p /\ call'[ud'[p]] \in {"connect", "read"}
    <3>1. p # o /\ ud'[p] = ud[p] /\ ud[p] \in Co /\ mine[ud[p]] = p
      BY <1>1, <1>2, <2>1 DEF ObjectsOK, LocalsLive
    <3> QED
      BY <1>1, <2>1, <3>1 DEF ObjectsOK, LocalsLive
  <2> QED
    BY <2>1 DEF LocalsLive
<1>7. DataFresh' /\ TimerOwned'
  BY <1>1 DEF DataFresh, TimerOwned
<1>8. Served'
  <2>1. ASSUME NEW d \in parked PROVE d \in Co /\ mine'[d] = mine[d] /\ mine[d] # o
    BY DEF IInv, SchedOK
  <2> QED
    BY <1>1, <1>2, <2>1 DEF IInv, ObjectsOK, Served
<1> QED
  BY <1>3, <1>4, <1>5, <1>6, <1>7, <1>8

\* A coroutine gives up its object: no local of a call of its is pointed to.
LEMMA GracefulIInv ==
  ASSUME IInv, NEW c \in Co, NEW o \in Tcp \cup Udp, close_gracefully(c, o)
  PROVE  IInv'
<1>1. /\ SchedOK' /\ CallsOK' /\ ToldTheTruth' /\ parked' = parked /\ Running' = Running
  BY SameCalls DEF close_gracefully, User
<1>2. /\ state[o] = "connected" /\ state' = [state EXCEPT ![o] = "closing"]
      /\ mine' = (IF mine[c] = o THEN [mine EXCEPT ![c] = None] ELSE mine)
      /\ bound' = (IF mine[c] = o THEN bound \ {c} ELSE bound)
      /\ call[c] = None /\ c \notin parked
      /\ UNCHANGED <<call, data, timers, after, cb, ud, missed>>
      /\ o # None /\ o \in Object
  <2>1. c \notin parked
    BY RunningCo DEF close_gracefully, User, IInv
  <2> QED
    BY <2>1, ExAssumption DEF close_gracefully, User, Drops, Object
<1>3. ObjectsOK'
  BY <1>2 DEF IInv, ObjectsOK
<1>4. SleepersWake'
  BY <1>1, <1>2 DEF IInv, SleepersWake
<1>5. \A d \in Co : /\ mine'[d] = mine[d] \/ (d = c /\ mine'[d] = None)
                    /\ d \in bound' => mine'[d] = mine[d]
  BY <1>2 DEF IInv, ObjectsOK
<1>6. ASSUME ~missed
      PROVE  /\ OwnersOpen' /\ OwnedOnce' /\ BoundReads' /\ CallbackFits'
             /\ LocalsLive' /\ DataFresh' /\ TimerOwned'
  <2>1. /\ OwnersOpen /\ OwnedOnce /\ BoundReads /\ CallbackFits
        /\ LocalsLive /\ DataFresh /\ TimerOwned /\ ObjectsOK
    BY <1>6 DEF IInv, InTouch
  <2>2. OwnersOpen' /\ OwnedOnce'
    BY <1>2, <1>5, <2>1 DEF ObjectsOK, OwnersOpen, OwnedOnce, None
  <2>3. BoundReads'
    BY <1>2, <1>5, <2>1 DEF ObjectsOK, BoundReads
  <2>4. CallbackFits'
    BY <1>2, <2>1 DEF ObjectsOK, CallbackFits
  <2>5. LocalsLive'
    BY <1>2, <1>5, <2>1 DEF ObjectsOK, LocalsLive, None
  <2>6. DataFresh' /\ TimerOwned'
    BY <1>1, <1>2, <2>1 DEF DataFresh, TimerOwned
  <2> QED
    BY <2>2, <2>3, <2>4, <2>5, <2>6
<1>7. Served'
  BY <1>1, <1>2, <1>5 DEF IInv, ObjectsOK, Served, SchedOK
<1> QED
  BY <1>1, <1>2, <1>3, <1>4, <1>6, <1>7 DEF IInv, InTouch

LEMMA UnbindIInv ==
  ASSUME IInv, NEW c \in Co, NEW o \in Cofd, cofd_unbind(c, o)
  PROVE  IInv'
<1>1. /\ SchedOK' /\ CallsOK' /\ ToldTheTruth' /\ parked' = parked /\ Running' = Running
  BY SameCalls DEF cofd_unbind, User
<1>2. /\ Free(o) /\ Untold(o, Co \ {c})
      /\ mine' = (IF mine[c] = o THEN [mine EXCEPT ![c] = None] ELSE mine)
      /\ bound' = (IF mine[c] = o THEN bound \ {c} ELSE bound)
      /\ c \notin parked /\ call[c] = None
      /\ UNCHANGED <<call, data, timers, after>>
      /\ o # None /\ o \in Object
  <2>1. c \notin parked
    BY RunningCo DEF cofd_unbind, User, IInv
  <2> QED
    BY <2>1, ExAssumption DEF cofd_unbind, User, Drops, Object
<1>3. ObjectsOK'
  BY <1>2 DEF IInv, ObjectsOK, Free, Untold
<1>4. SleepersWake'
  BY <1>1, <1>2 DEF IInv, SleepersWake
<1>5. ASSUME ~missed'
      PROVE  /\ OwnersOpen' /\ OwnedOnce' /\ BoundReads' /\ CallbackFits'
             /\ LocalsLive' /\ DataFresh' /\ TimerOwned' /\ Served'
  <2>1. ~missed /\ \A d \in Co \ {c} : mine[d] # o
    BY <1>2, <1>5 DEF Untold
  <2>2. \A d \in Co : \/ mine'[d] = mine[d]
                     \/ /\ mine[d] = o /\ mine'[d] = None
                        /\ d \notin parked /\ call[d] = None
    BY <1>2 DEF IInv, ObjectsOK
  <2>3. \A d \in Co : mine'[d] # o
    BY <1>2, <2>1 DEF IInv, ObjectsOK
  <2>4. \A d \in bound' : mine'[d] # None
    BY <1>3 DEF ObjectsOK
  <2>5. mine' \in [Co -> Object \cup {None}] /\ bound' \subseteq bound
    BY <1>2, <1>3 DEF ObjectsOK
  <2> QED
    BY <1>1, <1>2, <2>1, <2>2, <2>3, <2>4, <2>5, FreedInTouch
<1>6. Served'
  BY <1>5 DEF Served
<1> QED
  BY <1>1, <1>3, <1>4, <1>5, <1>6 DEF IInv, InTouch

LEMMA FlushedIInv ==
  ASSUME IInv, NEW o \in Object, flushed(o)
  PROVE  IInv'
<1>1. Running = Main /\ Running \notin Co
  BY InLoop, ExAssumption DEF IInv, flushed
<1>2. /\ SchedOK' /\ CallsOK' /\ ToldTheTruth' /\ parked' = parked /\ Running' = Running
  BY <1>1, SameCalls DEF flushed
<1>3. /\ Free(o) /\ Untold(o, Co)
      /\ UNCHANGED <<call, mine, bound, data, timers, after>>
  BY DEF flushed
<1>4. ObjectsOK'
  BY <1>3 DEF IInv, ObjectsOK, Free, Untold
<1>5. SleepersWake'
  BY <1>2, <1>3 DEF IInv, SleepersWake
<1>6. ASSUME ~missed'
      PROVE  /\ OwnersOpen' /\ OwnedOnce' /\ BoundReads' /\ CallbackFits'
             /\ LocalsLive' /\ DataFresh' /\ TimerOwned' /\ Served'
  <2>1. ~missed /\ \A d \in Co : mine[d] # o
    BY <1>3, <1>6 DEF Untold
  <2>2. /\ mine' \in [Co -> Object \cup {None}] /\ \A d \in bound' : mine'[d] # None
    BY <1>4 DEF ObjectsOK
  <2> QED
    BY <1>2, <1>3, <2>1, <2>2, FreedInTouch
<1>7. Served'
  BY <1>6 DEF Served
<1> QED
  BY <1>2, <1>4, <1>5, <1>6, <1>7 DEF IInv, InTouch

\* The object a callback was about is freed when control is back in its caller.
LEMMA ReleaseIInv ==
  ASSUME IInv, NEW c \in Co \cup {Main}, release(c)
  PROVE  IInv'
<1>1. /\ Running = c /\ after[c] \in Object /\ after' = [after EXCEPT ![c] = None]
      /\ UNCHANGED <<sched, call, mine, bound, data, timers>>
      /\ Running \in Co => call[Running] = None
  BY DEF release, IInv, ObjectsOK, CallsOK
<1>2. /\ SchedOK' /\ parked' = parked /\ Running' = Running
      /\ Sched!OnStack' = Sched!OnStack /\ Waiting' = Waiting
  BY <1>1, SameSched DEF IInv
<1>3. CallsOK'
  BY <1>1, <1>2 DEF IInv, CallsOK, ObjectsOK
<1>4. ToldTheTruth'
  BY <1>1, <1>2, UserTold
<1>5. SleepersWake'
  BY <1>1, <1>2 DEF IInv, SleepersWake
<1>6. CASE state[after[c]] = "free"
  <2>1. UNCHANGED <<state, cb, ud, missed>>
    BY <1>6 DEF release, objects
  <2>2. ObjectsOK'
    BY <1>1, <2>1 DEF IInv, ObjectsOK
  <2>3. InTouch'
    BY <1>1, <1>2, <2>1 DEF IInv, InTouch, OwnersOpen, OwnedOnce, BoundReads, CallbackFits,
                            LocalsLive, DataFresh, TimerOwned
  <2>4. Served'
    BY <1>1, <1>2, <2>1 DEF IInv, Served
  <2> QED
    BY <1>2, <1>3, <1>4, <1>5, <2>2, <2>3, <2>4 DEF IInv
<1>7. CASE state[after[c]] # "free"
  <2>1. Free(after[c]) /\ Untold(after[c], Co)
    BY <1>7 DEF release
  <2>2. ObjectsOK'
    BY <1>1, <2>1 DEF IInv, ObjectsOK, Free, Untold
  <2>3. ASSUME ~missed'
        PROVE  /\ OwnersOpen' /\ OwnedOnce' /\ BoundReads' /\ CallbackFits'
               /\ LocalsLive' /\ DataFresh' /\ TimerOwned' /\ Served'
    <3>1. ~missed /\ \A d \in Co : mine[d] # after[c]
      BY <2>1, <2>3 DEF Untold
    <3>2. /\ mine' \in [Co -> Object \cup {None}] /\ \A d \in bound' : mine'[d] # None
      BY <2>2 DEF ObjectsOK
    <3> QED
      BY <1>1, <1>2, <2>1, <3>1, <3>2, FreedInTouch
  <2>4. Served'
    BY <2>3 DEF Served
  <2> QED
    BY <1>2, <1>3, <1>4, <1>5, <2>2, <2>3, <2>4 DEF IInv, InTouch
<1> QED
  BY <1>6, <1>7

\* When the call is over no object points to its local any more.
LEMMA ReturnsIInv ==
  ASSUME IInv, NEW c \in Co, returns(c)
  PROVE  IInv'
<1> DEFINE gone == \/ call[c] = "connect" /\ data[c] # "tcp"
                   \/ call[c] = "read" /\ data[c] \in {"close", "error"}
<1>1. /\ Running = c /\ after[c] = None
      /\ call' = [call EXCEPT ![c] = None]
      /\ data' = [data EXCEPT ![c] = None]
      /\ ud' = [o \in Object |-> IF ud[o] = c THEN Stale ELSE ud[o]]
      /\ mine' = IF gone THEN [mine EXCEPT ![c] = None] ELSE mine
      /\ bound' = IF gone THEN bound \ {c} ELSE bound
      /\ UNCHANGED <<sched, timers, after, state, cb, missed>>
  BY DEF returns
<1> HIDE DEF gone
<1>2. /\ SchedOK' /\ parked' = parked /\ Running' = c
      /\ Sched!OnStack' = Sched!OnStack /\ Waiting' = Waiting
      /\ c \notin parked
  BY <1>1, SameSched, RunningCo DEF IInv
<1>3. \A d \in Co : /\ d # c => call'[d] = call[d] /\ data'[d] = data[d] /\ mine'[d] = mine[d]
                    /\ mine'[d] = mine[d] \/ mine'[d] = None
                    /\ d \in bound' => d \in bound /\ mine'[d] = mine[d]
  BY <1>1 DEF IInv, ObjectsOK
<1>4. call'[c] = None /\ data'[c] = None
  BY <1>1 DEF IInv, ObjectsOK
<1>5. ObjectsOK'
  <2>1. mine' \in [Co -> Object \cup {None}] /\ bound' \subseteq {d \in Co : mine'[d] # None}
    BY <1>1, <1>3 DEF IInv, ObjectsOK
  <2> QED
    BY <1>1, <2>1 DEF IInv, ObjectsOK
<1>6. CallsOK'
  BY <1>1, <1>2, <1>3, <1>4 DEF IInv, CallsOK
<1>7. ToldTheTruth'
  BY <1>2, <1>4, UserTold
<1>8. SleepersWake'
  BY <1>1, <1>2, <1>3, <1>4 DEF IInv, SleepersWake, SchedOK
<1>9. ASSUME ~missed
      PROVE  /\ OwnersOpen' /\ OwnedOnce' /\ BoundReads' /\ CallbackFits'
             /\ LocalsLive' /\ DataFresh' /\ TimerOwned' /\ Served'
  <2>1. /\ OwnersOpen /\ OwnedOnce /\ BoundReads /\ CallbackFits
        /\ LocalsLive /\ DataFresh /\ TimerOwned /\ ObjectsOK /\ Served
    BY <1>9 DEF IInv, InTouch
  <2>2. OwnersOpen' /\ OwnedOnce'
    BY <1>1, <1>3, <1>4, <2>1 DEF OwnersOpen, OwnedOnce, None
  <2>3. BoundReads' /\ CallbackFits'
    BY <1>1, <1>3, <2>1 DEF ObjectsOK, BoundReads, CallbackFits
  <2>4. LocalsLive'
    BY <1>1, <1>3, <2>1 DEF ObjectsOK, LocalsLive
  <2>5. DataFresh'
    BY <1>1, <1>3, <1>4, <2>1 DEF DataFresh
  <2>6. TimerOwned'
    BY <1>1, <1>2, <1>3, <2>1 DEF TimerOwned
  <2>7. Served'
    <3>1. ASSUME NEW d \in parked
          PROVE  /\ d \in Co /\ d # c /\ call'[d] = call[d] /\ mine'[d] = mine[d]
                 /\ call[d] = "read" => ud'[mine[d]] = d
                 /\ call[d] = "connect" => ud'[mine[d]] = d
      <4>1. d \in Co /\ d # c /\ call'[d] = call[d] /\ mine'[d] = mine[d]
        BY <1>2, <1>3 DEF IInv, SchedOK
      <4>2. ASSUME call[d] \in {"read", "connect"} PROVE ud'[mine[d]] = d
        <5>1. ud[mine[d]] = d /\ state[mine[d]] # "free"
          BY <1>9, <2>1, <4>2 DEF Served
        <5>2. mine[d] \in Object
          BY <2>1, <4>1, <4>2 DEF ObjectsOK, OwnersOpen
        <5> QED
          BY <1>1, <4>1, <5>1, <5>2
      <4> QED
        BY <4>1, <4>2
    <3> QED
      BY <1>1, <1>2, <1>9, <2>1, <3>1 DEF Served
  <2> QED
    BY <2>2, <2>3, <2>4, <2>5, <2>6, <2>7
<1>10. Served'
  BY <1>1, <1>9 DEF Served
<1> QED
  BY <1>1, <1>2, <1>5, <1>6, <1>7, <1>8, <1>9, <1>10 DEF IInv, InTouch

\* A coroutine that ends has no call in progress and no timer.
LEMMA FinishIInv ==
  ASSUME IInv, NEW c \in Co, finish(c)
  PROVE  IInv'
<1>1. /\ Running = c /\ after[c] = None /\ call[c] = None
      /\ stack' = Sched!Below /\ parked' = parked
      /\ mine' = [mine EXCEPT ![c] = None] /\ bound' = bound \ {c}
      /\ UNCHANGED <<call, data, timers, after, state, cb, ud, missed>>
  BY DEF finish, User, Sched!Finish, objects
<1>2. Len(stack) > 1 /\ c \notin parked
  BY <1>1, RunningCo DEF IInv
<1>3. /\ SchedOK' /\ Sched!OnStack' = Waiting /\ Waiting' \subseteq Waiting
      /\ Running' \in Waiting
  BY <1>1, <1>2, PopSched DEF IInv
<1>4. Sched!OnStack = Waiting \cup {c} /\ c \notin Waiting
  BY <1>1, StackSets DEF IInv
<1>5. ObjectsOK'
  BY <1>1 DEF IInv, ObjectsOK
<1>6. CallsOK'
  BY <1>1, <1>3, <1>4 DEF IInv, CallsOK
<1>7. ToldTheTruth'
  BY <1>1, <1>3, UserTold DEF IInv, CallsOK
<1>8. SleepersWake'
  BY <1>1 DEF IInv, SleepersWake
<1>9. ASSUME ~missed
      PROVE  /\ OwnersOpen' /\ OwnedOnce' /\ BoundReads' /\ CallbackFits'
             /\ LocalsLive' /\ DataFresh' /\ TimerOwned'
  <2>1. /\ OwnersOpen /\ OwnedOnce /\ BoundReads /\ CallbackFits
        /\ LocalsLive /\ DataFresh /\ TimerOwned /\ ObjectsOK
    BY <1>9 DEF IInv, InTouch
  <2>2. OwnersOpen' /\ OwnedOnce'
    BY <1>1, <2>1 DEF ObjectsOK, OwnersOpen, OwnedOnce, None
  <2>3. BoundReads' /\ CallbackFits'
    BY <1>1, <2>1 DEF ObjectsOK, BoundReads, CallbackFits
  <2>4. LocalsLive'
    BY <1>1, <2>1 DEF ObjectsOK, LocalsLive, None
  <2>5. DataFresh' /\ TimerOwned'
    BY <1>1, <2>1 DEF DataFresh, TimerOwned
  <2> QED
    BY <2>2, <2>3, <2>4, <2>5
<1>10. Served'
  BY <1>1, <1>2 DEF IInv, ObjectsOK, Served, SchedOK
<1> QED
  BY <1>1, <1>3, <1>5, <1>6, <1>7, <1>8, <1>9, <1>10 DEF IInv, InTouch

-----------------------------------------------------------------------------
(* Coroutines that are made, and resumed by the loop. *)

LEMMA NewIInv ==
  ASSUME IInv, NEW c \in Co, cort_new(c)
  PROVE  IInv'
<1>1. Loop /\ Sched!Spawn(c) /\ call' = [call EXCEPT ![c] = "start"]
      /\ UNCHANGED <<mine, bound, data, timers, after, state, cb, ud, missed>>
  BY DEF cort_new, objects
<1>2. /\ SchedOK' /\ parked' = parked \cup {c} /\ c \notin parked /\ c \notin Sched!OnStack
      /\ Sched!OnStack' = Sched!OnStack /\ Waiting' = Waiting /\ Running' = Running
  BY <1>1, SpawnSched DEF IInv
<1>3. Running = Main /\ Waiting = {} /\ Running \notin Co
  BY <1>1, InLoop, ExAssumption DEF IInv
<1>4. call[c] = None /\ after[c] = None
  BY <1>2 DEF IInv, CallsOK
<1>5. ObjectsOK'
  BY <1>1 DEF IInv, ObjectsOK
<1>6. CallsOK'
  BY <1>1, <1>2, <1>3, <1>4 DEF IInv, CallsOK, ObjectsOK
<1>7. ToldTheTruth'
  BY <1>2, <1>3, UserTold
<1>8. SleepersWake'
  BY <1>1, <1>2 DEF IInv, SleepersWake, ObjectsOK, SchedOK
<1>9. ASSUME ~missed
      PROVE  /\ OwnersOpen' /\ OwnedOnce' /\ BoundReads' /\ CallbackFits'
             /\ LocalsLive' /\ DataFresh' /\ TimerOwned'
  <2>1. /\ OwnersOpen /\ OwnedOnce /\ BoundReads /\ CallbackFits
        /\ LocalsLive /\ DataFresh /\ TimerOwned /\ ObjectsOK
    BY <1>9 DEF IInv, InTouch
  <2>2. OwnersOpen' /\ OwnedOnce' /\ BoundReads' /\ CallbackFits'
    BY <1>1, <2>1 DEF OwnersOpen, OwnedOnce, BoundReads, CallbackFits
  <2>3. LocalsLive'
    BY <1>1, <1>4, <2>1 DEF ObjectsOK, LocalsLive, None
  <2>4. DataFresh' /\ TimerOwned'
    BY <1>1, <1>2, <1>3, <2>1 DEF ObjectsOK, DataFresh, TimerOwned
  <2> QED
    BY <2>2, <2>3, <2>4
<1>10. Served'
  BY <1>1, <1>2 DEF IInv, ObjectsOK, Served, SchedOK
<1> QED
  BY <1>1, <1>2, <1>5, <1>6, <1>7, <1>8, <1>9, <1>10 DEF IInv, InTouch

\* A coroutine is resumed by somebody who is in no call.
LEMMA ResumeCalls ==
  ASSUME IInv, NEW c, Sched!Resume(c), UNCHANGED call,
         Running \in Co => call[Running] = None,
         after' \in [Co \cup {Main} -> Object \cup {None}],
         \A d \in Co \cup {Main} : after'[d] = after[d] \/ d = Running
  PROVE  /\ SchedOK' /\ CallsOK'
         /\ c \in parked /\ c \in Co /\ parked' = parked \ {c}
         /\ Running' = c /\ Resumer' = Running
<1>1. /\ SchedOK' /\ c \in parked /\ c \in Co
      /\ parked' = parked \ {c}
      /\ Sched!OnStack' = Sched!OnStack \cup {c}
      /\ Waiting' = Sched!OnStack
      /\ Running' = c /\ Resumer' = Running
  BY ResumeSched DEF IInv
<1>2. Sched!OnStack = Waiting \cup {Running} /\ Sched!OnStack \cap parked = {}
  BY StackSets DEF IInv
<1>3. CallsOK'
  BY <1>1, <1>2 DEF IInv, CallsOK
<1> QED
  BY <1>1, <1>3

LEMMA StartIInv ==
  ASSUME IInv, NEW c \in Co, start(c)
  PROVE  IInv'
<1>1. Running = Main /\ Running \notin Co
  BY InLoop, ExAssumption DEF IInv, start
<1>2. /\ SchedOK' /\ CallsOK' /\ c \in parked /\ parked' = parked \ {c} /\ Running' = c
  BY <1>1, ResumeCalls DEF IInv, ObjectsOK, start
<1>3. /\ call[c] = "start"
      /\ UNCHANGED <<call, mine, bound, data, timers, after, state, cb, ud, missed>>
  BY DEF start, objects
<1>4. ObjectsOK'
  BY <1>3 DEF IInv, ObjectsOK
<1>5. ToldTheTruth'
  <2>1. \A d \in Co : Running' = d => call'[d] # "read" /\ call'[d] # "connect"
    BY <1>2, <1>3
  <2> QED
    BY <2>1 DEF ToldTheTruth
<1>6. SleepersWake' /\ Served'
  BY <1>2, <1>3 DEF IInv, SleepersWake, Served
<1>7. InTouch'
  BY <1>1, <1>2, <1>3 DEF IInv, InTouch, OwnersOpen, OwnedOnce, BoundReads, CallbackFits,
                          LocalsLive, DataFresh, TimerOwned
<1> QED
  BY <1>2, <1>4, <1>5, <1>6, <1>7 DEF IInv

\* The timer of a coroutine resumes it if it is parked, whatever for.
LEMMA TimerIInv ==
  ASSUME IInv, NEW c \in Co, sleep_timer(c)
  PROVE  IInv'
<1>1. Running = Main /\ Running \notin Co
  BY InLoop, ExAssumption DEF IInv, sleep_timer
<1>2. /\ timers' = [timers EXCEPT ![c] = @ - 1] /\ timers[c] > 0
      /\ timers[c] \in 0 .. MaxTimer
      /\ UNCHANGED <<call, mine, bound, data, after, state, cb, ud, missed>>
  BY DEF sleep_timer, objects, IInv, ObjectsOK
<1>3. ObjectsOK'
  BY <1>2, ExAssumption DEF IInv, ObjectsOK
<1>4. CASE c \in parked
  <2>1. Sched!Resume(c)
    BY <1>4 DEF sleep_timer, Resume
  <2>2. /\ SchedOK' /\ CallsOK' /\ parked' = parked \ {c} /\ Running' = c
    BY <1>1, <1>2, <2>1, ResumeCalls DEF IInv, ObjectsOK
  <2>3. SleepersWake' /\ Served'
    BY <1>2, <2>2 DEF IInv, SleepersWake, Served, ObjectsOK, SchedOK
  <2>4. ASSUME ~missed PROVE call[c] = "sleep" /\ timers[c] = 1
    BY <1>2, <2>4 DEF IInv, InTouch, TimerOwned
  <2>5. ToldTheTruth'
    <3>1. ASSUME ~missed', NEW d \in Co, Running' = d
          PROVE  call'[d] # "read" /\ call'[d] # "connect"
      BY <1>2, <2>2, <2>4, <3>1
    <3> QED
      BY <3>1 DEF ToldTheTruth
  <2>6. InTouch'
    <3>1. ASSUME ~missed, NEW d \in Co, timers'[d] > 0 PROVE d # c /\ timers[d] > 0
      BY <1>2, <2>4, <3>1 DEF IInv, ObjectsOK
    <3>2. ~missed => TimerOwned'
      BY <1>2, <2>2, <3>1 DEF IInv, InTouch, ObjectsOK, TimerOwned
    <3>3. ~missed => /\ OwnersOpen' /\ OwnedOnce' /\ BoundReads' /\ CallbackFits'
                     /\ LocalsLive' /\ DataFresh'
      BY <1>1, <1>2 DEF IInv, InTouch, OwnersOpen, OwnedOnce, BoundReads, CallbackFits,
                        LocalsLive, DataFresh
    <3> QED
      BY <1>2, <3>2, <3>3 DEF InTouch
  <2> QED
    BY <1>3, <2>2, <2>3, <2>5, <2>6 DEF IInv
<1>5. CASE c \notin parked
  <2>1. UNCHANGED sched
    BY <1>5 DEF sleep_timer, Resume
  <2>2. /\ SchedOK' /\ CallsOK' /\ ToldTheTruth' /\ parked' = parked /\ Running' = Running
    BY <1>1, <1>2, <2>1, SameCalls
  <2>3. missed
    BY <1>2, <1>5 DEF IInv, InTouch, TimerOwned, ObjectsOK
  <2>4. SleepersWake'
    BY <1>2, <1>5, <2>2 DEF IInv, SleepersWake, ObjectsOK, SchedOK
  <2> QED
    BY <1>2, <1>3, <2>2, <2>3, <2>4 DEF IInv, InTouch, Served
<1> QED
  BY <1>4, <1>5

-----------------------------------------------------------------------------
(* Callbacks. *)

\* A callback of the service: it stores into the local of a call and resumes whoever is
\* parked in it, or it finds a pointer to a call that is over.
LEMMA SignalStep ==
  ASSUME IInv, NEW o \in Object, NEW what \in {"tcp", "data", "close", "error", "same"},
         Signal(o, what), UNCHANGED call,
         Running \in Co => call[Running] = None,
         after' \in [Co \cup {Main} -> Object \cup {None}],
         \A d \in Co \cup {Main} : after'[d] = after[d] \/ d = Running
  PROVE  /\ SchedOK' /\ CallsOK' /\ parked' \subseteq parked
         /\ data' \in [Co -> {None, "tcp", "data", "close", "error"}]
         /\ missed' \in BOOLEAN
         /\ ~missed' =>
              /\ ~missed
              /\ \E d \in parked :
                   /\ ud[o] = d /\ mine[d] = o /\ call[d] \in {"connect", "read"} /\ d \in Co
                   /\ parked' = parked \ {d} /\ Running' = d /\ Resumer' = Running
                   /\ data' = [data EXCEPT ![d] = IF what = "same" THEN None ELSE what]
                   /\ \A e \in Co : data[e] = None
<1> DEFINE Stored(c, w) == data' = [data EXCEPT ![c] = IF w = "same" THEN @ ELSE w]
<1>1. \/ /\ ud[o] # Stale /\ Stored(ud[o], what) /\ Resume(ud[o]) /\ UNCHANGED missed
      \/ /\ missed' = TRUE
         /\ \/ UNCHANGED <<sched, data>>
            \/ \E c \in parked, w \in {what, "same"} : Sched!Resume(c) /\ Stored(c, w)
  BY DEF Signal
<1>2. SchedOK /\ ObjectsOK /\ CallsOK
  BY DEF IInv
<1>3. ASSUME UNCHANGED sched PROVE SchedOK' /\ CallsOK' /\ parked' \subseteq parked
  <2>1. /\ SchedOK' /\ parked' = parked
        /\ Sched!OnStack' = Sched!OnStack /\ Waiting' = Waiting
    BY <1>2, <1>3, SameSched
  <2>2. Running \in Sched!OnStack
    BY <1>2, StackSets
  <2> QED
    BY <1>2, <2>1, <2>2 DEF CallsOK
<1>4. ASSUME NEW c, Sched!Resume(c)
      PROVE  /\ SchedOK' /\ CallsOK' /\ c \in parked /\ c \in Co
             /\ parked' = parked \ {c} /\ Running' = c /\ Resumer' = Running
  BY <1>4, ResumeCalls
<1>5. SchedOK' /\ CallsOK' /\ parked' \subseteq parked
  BY <1>1, <1>3, <1>4 DEF Resume
<1>6. ASSUME NEW c \in Co, NEW w \in {what, "same"}, Stored(c, w)
      PROVE  data' \in [Co -> {None, "tcp", "data", "close", "error"}]
  BY <1>2, <1>6 DEF ObjectsOK
<1>7. data' \in [Co -> {None, "tcp", "data", "close", "error"}] /\ missed' \in BOOLEAN
  <2>1. ud[o] # Stale => ud[o] \in Co
    BY <1>2 DEF ObjectsOK
  <2>2. parked \subseteq Co
    BY <1>2 DEF SchedOK
  <2> QED
    BY <1>1, <1>2, <1>6, <2>1, <2>2 DEF ObjectsOK
<1>8. ASSUME ~missed'
      PROVE  /\ ~missed
             /\ \E d \in parked :
                   /\ ud[o] = d /\ mine[d] = o /\ call[d] \in {"connect", "read"} /\ d \in Co
                   /\ parked' = parked \ {d} /\ Running' = d /\ Resumer' = Running
                   /\ data' = [data EXCEPT ![d] = IF what = "same" THEN None ELSE what]
                   /\ \A e \in Co : data[e] = None
  <2>1. ud[o] # Stale /\ Stored(ud[o], what) /\ Resume(ud[o]) /\ ~missed
    BY <1>1, <1>8
  <2>2. LocalsLive /\ DataFresh
    BY <2>1 DEF IInv, InTouch
  <2>3. mine[ud[o]] = o /\ call[ud[o]] \in {"connect", "read"} /\ ud[o] \in Co
    BY <1>2, <2>1, <2>2 DEF LocalsLive, ObjectsOK
  <2>4. ud[o] \in parked
    <3>1. call[ud[o]] # None
      BY <2>3 DEF None
    <3>2. ud[o] \notin Waiting /\ ud[o] # Running
      BY <1>2, <2>3, <3>1 DEF CallsOK
    <3> QED
      BY <1>2, <2>3, <3>1, <3>2, StackSets DEF CallsOK
  <2>5. Sched!Resume(ud[o])
    BY <2>1, <2>4 DEF Resume
  <2>6. \A e \in Co : data[e] = None
    BY <2>2 DEF DataFresh
  <2>7. data' = [data EXCEPT ![ud[o]] = IF what = "same" THEN None ELSE what]
    BY <2>1, <2>3, <2>6
  <2> QED
    BY <1>4, <2>1, <2>3, <2>4, <2>5, <2>6, <2>7
<1> QED
  BY <1>5, <1>7, <1>8

\* The coroutine that connects is parked in its call.
LEMMA ConnectingCall ==
  ASSUME IInv, ~missed, NEW o \in Object, NEW d \in parked, ud[o] = d, mine[d] = o,
         call[d] \in {"connect", "read"}
  PROVE  (state[o] = "connecting") <=> (call[d] = "connect")
<1>1. CallbackFits /\ Served
  BY DEF IInv, InTouch
<1> QED
  BY <1>1 DEF CallbackFits, Served

LEMMA ConnectedIInv ==
  ASSUME IInv, NEW o \in Tcp, connected(o)
  PROVE  IInv'
<1>1. /\ Running = Main /\ Running \notin Co /\ after[Main] = None /\ o \in Object /\ o # None
  BY InLoop, ExAssumption DEF IInv, connected, Object
<1>2. /\ state[o] = "connecting" /\ Signal(o, "tcp")
      /\ state' = [state EXCEPT ![o] = "connected"]
      /\ cb' = [cb EXCEPT ![o] = None]
      /\ UNCHANGED <<call, mine, bound, timers, after, ud>>
  BY DEF connected
<1> HIDE DEF Signal
<1>3. /\ SchedOK' /\ CallsOK' /\ parked' \subseteq parked
      /\ data' \in [Co -> {None, "tcp", "data", "close", "error"}]
      /\ missed' \in BOOLEAN
  BY <1>1, <1>2, SignalStep DEF IInv, ObjectsOK
<1>4. ObjectsOK'
  BY <1>1, <1>2, <1>3 DEF IInv, ObjectsOK
<1>5. SleepersWake'
  BY <1>2, <1>3 DEF IInv, SleepersWake
<1>6. ASSUME ~missed'
      PROVE  /\ OwnersOpen' /\ OwnedOnce' /\ BoundReads' /\ CallbackFits'
             /\ LocalsLive' /\ DataFresh' /\ TimerOwned' /\ Served' /\ ToldTheTruth'
  <2>1. PICK d \in parked :
          /\ ud[o] = d /\ mine[d] = o /\ call[d] \in {"connect", "read"} /\ d \in Co
          /\ parked' = parked \ {d} /\ Running' = d /\ Resumer' = Running
          /\ data' = [data EXCEPT ![d] = "tcp"]
          /\ \A e \in Co : data[e] = None
    BY <1>1, <1>2, <1>6, SignalStep DEF IInv, ObjectsOK
  <2>2. ~missed
    BY <1>1, <1>2, <1>6, SignalStep DEF IInv, ObjectsOK
  <2>3. /\ OwnersOpen /\ OwnedOnce /\ BoundReads /\ CallbackFits
        /\ LocalsLive /\ DataFresh /\ TimerOwned /\ ObjectsOK /\ Served
    BY <2>2 DEF IInv, InTouch
  <2>4. call[d] = "connect"
    BY <1>1, <1>2, <2>1, <2>2, ConnectingCall
  <2>5. OwnersOpen' /\ OwnedOnce'
    BY <1>2, <2>3 DEF ObjectsOK, OwnersOpen, OwnedOnce
  <2>6. BoundReads'
    BY <1>2, <2>3 DEF ObjectsOK, BoundReads, CallbackFits
  <2>7. CallbackFits'
    BY <1>2, <2>3 DEF ObjectsOK, CallbackFits, None
  <2>8. LocalsLive'
    BY <1>2, <2>3 DEF LocalsLive
  <2>9. DataFresh' /\ TimerOwned'
    BY <1>2, <2>1, <2>3, <2>4 DEF ObjectsOK, DataFresh, TimerOwned, None
  <2>10. Served'
    <3>1. ASSUME NEW e \in parked' PROVE e \in parked /\ mine[e] # o
      BY <1>1, <2>1, <2>3, <3>1 DEF OwnedOnce, IInv, SchedOK
    <3> QED
      BY <1>2, <2>2, <2>3, <3>1 DEF ObjectsOK, Served
  <2>11. ToldTheTruth'
    <3>1. stack'[Len(stack') - 1] = Main
      BY <1>1, <2>1 DEF Resumer
    <3>2. data'[d] = "tcp" /\ mine'[d] = o /\ state'[o] = "connected" /\ after'[Main] # o
      BY <1>1, <1>2, <2>1, <2>3 DEF ObjectsOK
    <3> QED
      BY <1>2, <2>1, <2>4, <3>1, <3>2 DEF ToldTheTruth
  <2> QED
    BY <2>5, <2>6, <2>7, <2>8, <2>9, <2>10, <2>11
<1>7. Served' /\ ToldTheTruth'
  BY <1>6 DEF Served, ToldTheTruth
<1> QED
  BY <1>3, <1>4, <1>5, <1>6, <1>7 DEF IInv, InTouch

\* Nothing is stored when connecting fails: the coroutine finds no socket.
LEMMA ConnectFailedIInv ==
  ASSUME IInv, NEW o \in Tcp, connect_fails(o)
  PROVE  IInv'
<1>1. /\ Running = Main /\ Running \notin Co /\ o \in Object /\ o # None
  BY InLoop, ExAssumption DEF IInv, connect_fails, Object
<1>2. /\ state[o] = "connecting" /\ Signal(o, "same")
      /\ after' = [after EXCEPT ![Main] = o]
      /\ UNCHANGED <<call, mine, bound, timers, state, cb, ud>>
  BY DEF connect_fails, objects
<1> HIDE DEF Signal
<1>3. /\ after' \in [Co \cup {Main} -> Object \cup {None}]
      /\ \A d \in Co \cup {Main} : after'[d] = after[d] \/ d = Running
      /\ after'[Main] = o
  BY <1>1, <1>2 DEF IInv, ObjectsOK
<1>4. /\ SchedOK' /\ CallsOK' /\ parked' \subseteq parked
      /\ data' \in [Co -> {None, "tcp", "data", "close", "error"}]
      /\ missed' \in BOOLEAN
  BY <1>1, <1>2, <1>3, SignalStep
<1>5. ObjectsOK'
  BY <1>2, <1>3, <1>4 DEF IInv, ObjectsOK
<1>6. SleepersWake'
  BY <1>2, <1>4 DEF IInv, SleepersWake
<1>7. ASSUME ~missed'
      PROVE  /\ OwnersOpen' /\ OwnedOnce' /\ BoundReads' /\ CallbackFits'
             /\ LocalsLive' /\ DataFresh' /\ TimerOwned' /\ Served' /\ ToldTheTruth'
  <2>1. PICK d \in parked :
          /\ ud[o] = d /\ mine[d] = o /\ call[d] \in {"connect", "read"} /\ d \in Co
          /\ parked' = parked \ {d} /\ Running' = d /\ Resumer' = Running
          /\ data' = [data EXCEPT ![d] = None]
          /\ \A e \in Co : data[e] = None
    BY <1>1, <1>2, <1>3, <1>7, SignalStep
  <2>2. ~missed
    BY <1>1, <1>2, <1>3, <1>7, SignalStep
  <2>3. /\ OwnersOpen /\ OwnedOnce /\ BoundReads /\ CallbackFits
        /\ LocalsLive /\ DataFresh /\ TimerOwned /\ ObjectsOK /\ Served
    BY <2>2 DEF IInv, InTouch
  <2>4. call[d] = "connect"
    BY <1>1, <1>2, <2>1, <2>2, ConnectingCall
  <2>5. OwnersOpen' /\ OwnedOnce' /\ BoundReads' /\ CallbackFits' /\ LocalsLive'
    BY <1>2, <2>3 DEF OwnersOpen, OwnedOnce, BoundReads, CallbackFits, LocalsLive
  <2>6. DataFresh' /\ TimerOwned'
    BY <1>2, <2>1, <2>3, <2>4 DEF ObjectsOK, DataFresh, TimerOwned, None
  <2>7. Served'
    BY <1>2, <2>1, <2>2, <2>3 DEF Served
  <2>8. ToldTheTruth'
    <3>1. stack'[Len(stack') - 1] = Main
      BY <1>1, <2>1 DEF Resumer
    <3>2. data'[d] = None /\ mine'[d] = o /\ state'[o] = "connecting"
      BY <1>2, <2>1, <2>3 DEF ObjectsOK
    <3> QED
      BY <1>2, <1>3, <2>1, <2>4, <3>1, <3>2 DEF ToldTheTruth, None
  <2> QED
    BY <2>5, <2>6, <2>7, <2>8
<1>8. Served' /\ ToldTheTruth'
  BY <1>7 DEF Served, ToldTheTruth
<1> QED
  BY <1>4, <1>5, <1>6, <1>7, <1>8 DEF IInv, InTouch

\* Data arrives: a reader is resumed, and its object stays.
LEMMA RecvIInv ==
  ASSUME IInv, NEW o \in Object, recv(o)
  PROVE  IInv'
<1>1. /\ Running = Main /\ Running \notin Co /\ after[Main] = None /\ o # None
  BY InLoop, ExAssumption DEF IInv, recv
<1>2. /\ state[o] \in {"connected", "closing"}
      /\ UNCHANGED <<call, mine, bound, timers, after, state, cb, ud>>
  BY DEF recv, objects
<1>3. \/ Signal(o, "data")
      \/ NoSignal(o)
  BY DEF recv, Callback, on_tcp, on_udp, on_fd
<1> HIDE DEF Signal, NoSignal
<1>4. CASE NoSignal(o)
  <2>1. UNCHANGED <<sched, data>> /\ missed' = (missed \/ \E c \in Co : mine[c] = o /\ c # Running)
    BY <1>4 DEF NoSignal
  <2>2. /\ SchedOK' /\ CallsOK' /\ ToldTheTruth' /\ parked' = parked /\ Running' = Running
    BY <1>1, <1>2, <2>1, SameCalls
  <2>3. ObjectsOK'
    BY <1>2, <2>1 DEF IInv, ObjectsOK
  <2>4. SleepersWake' /\ Served'
    BY <1>2, <2>1, <2>2 DEF IInv, SleepersWake, Served
  <2>5. ~missed' => ~missed
    BY <2>1 DEF IInv, ObjectsOK
  <2>6. ~missed => /\ OwnersOpen' /\ OwnedOnce' /\ BoundReads' /\ CallbackFits'
                   /\ LocalsLive' /\ DataFresh' /\ TimerOwned'
    BY <1>2, <2>1, <2>2 DEF IInv, InTouch, OwnersOpen, OwnedOnce, BoundReads, CallbackFits,
                            LocalsLive, DataFresh, TimerOwned
  <2> QED
    BY <2>2, <2>3, <2>4, <2>5, <2>6 DEF IInv, InTouch
<1>5. CASE Signal(o, "data")
  <2>1. /\ after' \in [Co \cup {Main} -> Object \cup {None}]
        /\ \A d \in Co \cup {Main} : after'[d] = after[d] \/ d = Running
    BY <1>2 DEF IInv, ObjectsOK
  <2>2. /\ SchedOK' /\ CallsOK' /\ parked' \subseteq parked
        /\ data' \in [Co -> {None, "tcp", "data", "close", "error"}]
        /\ missed' \in BOOLEAN
    BY <1>1, <1>2, <1>5, <2>1, SignalStep
  <2>3. ObjectsOK'
    BY <1>2, <2>2 DEF IInv, ObjectsOK
  <2>4. SleepersWake'
    BY <1>2, <2>2 DEF IInv, SleepersWake
  <2>5. ASSUME ~missed'
        PROVE  /\ OwnersOpen' /\ OwnedOnce' /\ BoundReads' /\ CallbackFits'
               /\ LocalsLive' /\ DataFresh' /\ TimerOwned' /\ Served' /\ ToldTheTruth'
    <3>1. PICK d \in parked :
            /\ ud[o] = d /\ mine[d] = o /\ call[d] \in {"connect", "read"} /\ d \in Co
            /\ parked' = parked \ {d} /\ Running' = d /\ Resumer' = Running
            /\ data' = [data EXCEPT ![d] = "data"]
            /\ \A e \in Co : data[e] = None
      BY <1>1, <1>2, <1>5, <2>1, <2>5, SignalStep
    <3>2. ~missed
      BY <1>1, <1>2, <1>5, <2>1, <2>5, SignalStep
    <3>3. /\ OwnersOpen /\ OwnedOnce /\ BoundReads /\ CallbackFits
          /\ LocalsLive /\ DataFresh /\ TimerOwned /\ ObjectsOK /\ Served
      BY <3>2 DEF IInv, InTouch
    <3>4. call[d] = "read"
      <4>1. (state[o] = "connecting") <=> (call[d] = "connect")
        BY <3>1, <3>2, ConnectingCall
      <4> QED
        BY <1>2, <3>1, <4>1
    <3>5. OwnersOpen' /\ OwnedOnce' /\ BoundReads' /\ CallbackFits' /\ LocalsLive'
      BY <1>2, <3>3 DEF OwnersOpen, OwnedOnce, BoundReads, CallbackFits, LocalsLive
    <3>6. DataFresh' /\ TimerOwned'
      BY <1>2, <3>1, <3>3, <3>4 DEF ObjectsOK, DataFresh, TimerOwned, None
    <3>7. Served'
      BY <1>2, <3>1, <3>2, <3>3 DEF Served
    <3>8. ToldTheTruth'
      <4>1. stack'[Len(stack') - 1] = Main
        BY <1>1, <3>1 DEF Resumer
      <4>2. /\ data'[d] = "data" /\ mine'[d] = o /\ state'[o] # "free" /\ after'[Main] # o
        BY <1>1, <1>2, <3>1, <3>3 DEF ObjectsOK
      <4> QED
        BY <1>2, <3>1, <3>4, <4>1, <4>2 DEF ToldTheTruth, None
    <3> QED
      BY <3>5, <3>6, <3>7, <3>8
  <2>6. Served' /\ ToldTheTruth'
    BY <2>5 DEF Served, ToldTheTruth
  <2> QED
    BY <2>2, <2>3, <2>4, <2>5, <2>6 DEF IInv, InTouch
<1> QED
  BY <1>3, <1>4, <1>5

\* An object ends: whoever waits for it is told, and x frees it after the callback. x may
\* be a coroutine that gives the object up.
LEMMA EndsIInv ==
  ASSUME IInv, NEW x \in Co \cup {Main}, NEW o \in Object, NEW what \in {"close", "error"},
         Running = x, x \in Co => call[x] = None,
         state[o] \in {"connected", "closing"},
         CallsAndFrees(x, o, what),
         UNCHANGED <<call, timers, objects>>,
         \/ UNCHANGED <<mine, bound>>
         \/ x \in Co /\ Drops(x, o)
  PROVE  IInv'
<1>1. /\ after' = [after EXCEPT ![x] = o] /\ o # None
      /\ UNCHANGED <<call, timers, state, cb, ud>>
  BY ExAssumption DEF CallsAndFrees, objects
<1>2. /\ mine' \in [Co -> Object \cup {None}]
      /\ bound' \subseteq bound /\ \A d \in bound' : mine'[d] = mine[d]
      /\ \A d \in Co : mine'[d] = mine[d] \/ (d = x /\ mine'[d] = None)
  BY DEF Drops, IInv, ObjectsOK
<1>3. \/ cb[o] = "read" /\ Signal(o, what)
      \/ cb[o] = "connect" /\ Signal(o, "same")
      \/ NoSignal(o)
  BY DEF CallsAndFrees, Callback, on_tcp, on_udp, on_fd
<1> HIDE DEF Signal, NoSignal
<1>4. /\ after' \in [Co \cup {Main} -> Object \cup {None}]
      /\ \A d \in Co \cup {Main} : after'[d] = after[d] \/ d = Running
      /\ after'[x] = o
  BY <1>1 DEF IInv, ObjectsOK
<1>5. ~missed /\ x \in Co => \A p \in Object : ud[p] # x
  BY ExAssumption DEF IInv, InTouch, LocalsLive, ObjectsOK, None
<1>6. \A d \in Co : mine'[d] # None => mine'[d] = mine[d]
  BY <1>2
<1>7. ASSUME ~missed
      PROVE  OwnersOpen' /\ OwnedOnce' /\ BoundReads' /\ CallbackFits' /\ LocalsLive'
  <2>1. /\ OwnersOpen /\ OwnedOnce /\ BoundReads /\ CallbackFits
        /\ LocalsLive /\ DataFresh /\ TimerOwned /\ ObjectsOK /\ Served
    BY <1>7 DEF IInv, InTouch
  <2>2. OwnersOpen' /\ OwnedOnce'
    BY <1>1, <1>2, <1>6, <2>1 DEF OwnersOpen, OwnedOnce, None
  <2>3. BoundReads' /\ CallbackFits'
    BY <1>1, <1>2, <2>1 DEF BoundReads, CallbackFits
  <2>4. LocalsLive'
    BY <1>1, <1>2, <1>5, <1>7, <2>1 DEF LocalsLive, ObjectsOK
  <2> QED
    BY <2>2, <2>3, <2>4
<1>8. \A d \in parked : d \in Co /\ d # x /\ mine'[d] = mine[d]
  <2>1. x \notin parked
    BY StackSets DEF IInv
  <2> QED
    BY <1>2, <2>1 DEF IInv, SchedOK
<1>9. CASE NoSignal(o)
  <2>1. /\ UNCHANGED <<sched, data>> /\ missed' \in BOOLEAN /\ (missed => missed')
    BY <1>9 DEF NoSignal, IInv, ObjectsOK
  <2>2. /\ SchedOK' /\ parked' = parked /\ Running' = Running
        /\ Sched!OnStack' = Sched!OnStack /\ Waiting' = Waiting
    BY <2>1, SameSched DEF IInv
  <2>3. CallsOK'
    <3>1. Running \in Sched!OnStack
      BY StackSets DEF IInv
    <3> QED
      BY <1>1, <1>4, <2>2, <3>1 DEF IInv, CallsOK
  <2>4. ToldTheTruth'
    BY <1>1, <2>2, UserTold
  <2>5. ObjectsOK'
    BY <1>1, <1>2, <1>4, <2>1 DEF IInv, ObjectsOK
  <2>6. SleepersWake' /\ Served'
    BY <1>1, <1>8, <2>1, <2>2 DEF IInv, SleepersWake, Served
  <2>7. InTouch'
    BY <1>1, <1>7, <2>1, <2>2 DEF IInv, InTouch, DataFresh, TimerOwned
  <2> QED
    BY <2>2, <2>3, <2>4, <2>5, <2>6, <2>7 DEF IInv
<1>10. ASSUME NEW w \in {what, "same"}, Signal(o, w),
              cb[o] = "read" => w = what, cb[o] # "read" => cb[o] = "connect"
       PROVE  IInv'
  <2>1. /\ SchedOK' /\ CallsOK' /\ parked' \subseteq parked
        /\ data' \in [Co -> {None, "tcp", "data", "close", "error"}]
        /\ missed' \in BOOLEAN
    BY <1>1, <1>4, <1>10, SignalStep
  <2>2. ObjectsOK'
    BY <1>1, <1>2, <1>4, <2>1 DEF IInv, ObjectsOK
  <2>3. SleepersWake'
    BY <1>1, <2>1 DEF IInv, SleepersWake
  <2>4. ASSUME ~missed'
        PROVE  /\ OwnersOpen' /\ OwnedOnce' /\ BoundReads' /\ CallbackFits'
               /\ LocalsLive' /\ DataFresh' /\ TimerOwned' /\ Served' /\ ToldTheTruth'
    <3>1. PICK d \in parked :
            /\ ud[o] = d /\ mine[d] = o /\ call[d] \in {"connect", "read"} /\ d \in Co
            /\ parked' = parked \ {d} /\ Running' = d /\ Resumer' = Running
            /\ data' = [data EXCEPT ![d] = IF w = "same" THEN None ELSE w]
            /\ \A e \in Co : data[e] = None
      BY <1>1, <1>4, <1>10, <2>4, SignalStep
    <3>2. ~missed
      BY <1>1, <1>4, <1>10, <2>4, SignalStep
    <3>3. /\ OwnersOpen /\ OwnedOnce /\ BoundReads /\ CallbackFits
          /\ LocalsLive /\ DataFresh /\ TimerOwned /\ ObjectsOK /\ Served
      BY <3>2 DEF IInv, InTouch
    <3>4. call[d] = "read"
      <4>1. (state[o] = "connecting") <=> (call[d] = "connect")
        BY <3>1, <3>2, ConnectingCall
      <4> QED
        BY <3>1, <4>1
    <3>5. w = what
      BY <1>10, <3>3 DEF CallbackFits
    <3>6. OwnersOpen' /\ OwnedOnce' /\ BoundReads' /\ CallbackFits' /\ LocalsLive'
      BY <1>7, <3>2
    <3>7. DataFresh' /\ TimerOwned'
      BY <1>1, <3>1, <3>3, <3>4 DEF ObjectsOK, DataFresh, TimerOwned, None
    <3>8. Served'
      BY <1>1, <1>8, <3>1, <3>2, <3>3 DEF Served
    <3>9. ToldTheTruth'
      <4>1. stack'[Len(stack') - 1] = x
        BY <3>1 DEF Resumer
      <4>2. /\ data'[d] = what /\ mine'[d] = o /\ state'[o] # "free" /\ after'[x] = o
        BY <1>1, <1>4, <1>8, <3>1, <3>3, <3>5 DEF ObjectsOK
      <4> QED
        BY <1>1, <3>1, <3>4, <4>1, <4>2 DEF ToldTheTruth, None
    <3> QED
      BY <3>6, <3>7, <3>8, <3>9
  <2>5. Served' /\ ToldTheTruth'
    BY <2>4 DEF Served, ToldTheTruth
  <2> QED
    BY <2>1, <2>2, <2>3, <2>4, <2>5 DEF IInv, InTouch
<1> QED
  BY <1>3, <1>9, <1>10

-----------------------------------------------------------------------------
LEMMA InitIInv == Init => IInv
<1> SUFFICES ASSUME Init PROVE IInv
  OBVIOUS
<1>1. SchedOK
  BY DEF Init, SchedOK
<1>2. Running = Main /\ Waiting = {} /\ Main \notin Co
  <2>1. Len(stack) = 1 /\ stack[1] = Main /\ 1 .. 0 = {} /\ Len(stack) - 1 = 0
    BY DEF Init
  <2> QED
    BY <2>1, ExAssumption DEF Running, Sched!Top, Waiting
<1>3. ObjectsOK
  <2>1. 0 \in 0 .. MaxTimer
    BY ExAssumption
  <2>2. /\ bound = {} /\ missed = FALSE /\ timers = [c \in Co |-> 0]
        /\ after = [c \in Co \cup {Main} |-> None]
        /\ call = [c \in Co |-> None] /\ mine = [c \in Co |-> None]
        /\ data = [c \in Co |-> None]
        /\ state = [o \in Object |-> "free"]
        /\ cb = [o \in Object |-> None] /\ ud = [o \in Object |-> Stale]
    BY DEF Init
  <2>3. timers \in [Co -> 0 .. MaxTimer]
    BY <2>1, <2>2
  <2> QED
    BY <2>2, <2>3 DEF ObjectsOK
<1>4. CallsOK /\ SleepersWake
  BY <1>2 DEF Init, CallsOK, SleepersWake
<1>5. InTouch
  BY DEF Init, InTouch, OwnersOpen, OwnedOnce, BoundReads, CallbackFits, LocalsLive,
         DataFresh, TimerOwned, None
<1>6. Served /\ ToldTheTruth
  BY <1>2 DEF Init, Served, ToldTheTruth
<1> QED
  BY <1>1, <1>3, <1>4, <1>5, <1>6 DEF IInv

LEMMA NextIInv == IInv /\ [Next]_vars => IInv'
<1> SUFFICES ASSUME IInv, [Next]_vars PROVE IInv'
  OBVIOUS
<1>1. ASSUME NEW c \in Co,
             \/ cort_new(c) \/ start(c) \/ returns(c) \/ finish(c)
             \/ cort_tcp_connect_fails(c) \/ cort_sleep(c) \/ sleep_timer(c)
      PROVE  IInv'
  BY <1>1, NewIInv, StartIInv, ReturnsIInv, FinishIInv, ConnectFailsIInv, SleepIInv, TimerIInv
<1>2. ASSUME NEW c \in Co, cort_tcp_bind(c) \/ cort_udp_bind(c) \/ cort_fd_bind(c)
      PROVE  IInv'
  BY <1>2, BindIInv DEF cort_tcp_bind, cort_udp_bind, cort_fd_bind, Object
<1>3. ASSUME NEW c \in Co, cort_tcp_read(c) \/ cort_udp_read(c) \/ cort_fd_read(c)
      PROVE  IInv'
  BY <1>3, ReadIInv DEF cort_tcp_read, cort_udp_read, cort_fd_read
<1>4. ASSUME NEW c \in Co, NEW o \in Object, opens(c, o) PROVE IInv'
  BY <1>4, OpensIInv
<1>5. ASSUME NEW c \in Co, NEW o \in Object, send_fails(c, o) PROVE IInv'
  BY <1>5, EndsIInv DEF send_fails, User
<1>6. ASSUME NEW c \in Co, NEW o \in Tcp,
             cort_tcp_connect_immediate(c, o) \/ cort_tcp_connect(c, o)
      PROVE  IInv'
  BY <1>6, ImmediateIInv, ConnectIInv
<1>7. ASSUME NEW c \in Co, NEW o \in Tcp \cup Udp, close(c, o) PROVE IInv'
  <2>1. o \in Object
    BY DEF Object
  <2> QED
    BY <1>7, <2>1, EndsIInv DEF close, User
<1>8. ASSUME NEW c \in Co, NEW o \in Tcp \cup Udp, close_gracefully(c, o) PROVE IInv'
  BY <1>8, GracefulIInv
<1>9. ASSUME NEW c \in Co, NEW o \in Cofd, cofd_unbind(c, o) PROVE IInv'
  BY <1>9, UnbindIInv
<1>10. ASSUME NEW c \in Co \cup {Main}, release(c) PROVE IInv'
  BY <1>10, ReleaseIInv
<1>11. ASSUME NEW o \in Object, recv(o) \/ flushed(o) PROVE IInv'
  BY <1>11, RecvIInv, FlushedIInv
<1>12. ASSUME NEW o \in Object, NEW what \in {"close", "error"}, ends(o, what) PROVE IInv'
  <2>1. Running = Main /\ Main \notin Co
    BY <1>12, InLoop, ExAssumption DEF IInv, ends
  <2> QED
    BY <1>12, <2>1, EndsIInv DEF ends
<1>13. ASSUME NEW o \in Tcp, connected(o) \/ connect_fails(o) PROVE IInv'
  BY <1>13, ConnectedIInv, ConnectFailedIInv
<1>14. CASE UNCHANGED vars
  <2>1. /\ SchedOK' /\ parked' = parked /\ Running' = Running
        /\ Sched!OnStack' = Sched!OnStack /\ Waiting' = Waiting
    BY <1>14, SameSched DEF vars, IInv
  <2>2. UNCHANGED <<stack, call, mine, bound, data, timers, after, state, cb, ud, missed>>
    BY <1>14 DEF vars, sched, objects
  <2>3. ObjectsOK' /\ CallsOK' /\ SleepersWake' /\ Served' /\ ToldTheTruth'
    BY <2>1, <2>2 DEF IInv, ObjectsOK, CallsOK, SleepersWake, Served, ToldTheTruth
  <2>4. InTouch'
    BY <2>1, <2>2 DEF IInv, InTouch, OwnersOpen, OwnedOnce, BoundReads, CallbackFits,
                      LocalsLive, DataFresh, TimerOwned
  <2> QED
    BY <2>1, <2>3, <2>4 DEF IInv
<1> QED
  BY <1>1, <1>2, <1>3, <1>4, <1>5, <1>6, <1>7, <1>8, <1>9, <1>10, <1>11, <1>12, <1>13, <1>14
  DEF Next

THEOREM IInvAlways == Spec => []IInv
BY InitIInv, NextIInv, PTL DEF Spec

\* Every coroutine that sleeps has a timer, whatever resumed it before and whatever it
\* resumed.
THEOREM SleepersWakeAlways == Spec => []SleepersWake
<1>1. IInv => SleepersWake
  BY DEF IInv
<1> QED
  BY <1>1, IInvAlways, PTL

\* As long as nobody missed an event, the object of every parked coroutine is open, calls
\* back into the reads, and points to the local of the call the coroutine is parked in.
THEOREM ServedAlways == Spec => []Served
<1>1. IInv => Served
  BY DEF IInv
<1> QED
  BY <1>1, IInvAlways, PTL

\* As long as nobody missed an event, what a call returns is what happened.
THEOREM ToldTheTruthAlways == Spec => []ToldTheTruth
<1>1. IInv => ToldTheTruth
  BY DEF IInv
<1> QED
  BY <1>1, IInvAlways, PTL

\* The stack is no longer than there are coroutines, and every variable has its type.
THEOREM TypeCorrect == Spec => []TypeOK
<1>1. IInv => TypeOK
  <2> SUFFICES ASSUME IInv PROVE TypeOK
    OBVIOUS
  <2> DEFINE n == Len(stack)
  <2>1. n \in Nat \ {0} /\ stack \in [1 .. n -> Co \cup {Main}]
    BY DEF IInv, SchedOK
  <2>2. stack \in Injection(1 .. n, Co \cup {Main})
    BY <2>1 DEF IInv, SchedOK, Injection, IsInjective
  <2>3. IsFiniteSet(Co \cup {Main}) /\ Cardinality(Co \cup {Main}) = Cardinality(Co) + 1
    BY ExAssumption, FS_AddElement
  <2>4. IsFiniteSet(1 .. n) /\ Cardinality(1 .. n) = n
    BY <2>1, FS_Interval
  <2>5. n <= Cardinality(Co) + 1
    BY <2>2, <2>3, <2>4, FS_Injection
  <2>6. Cardinality(Co) \in Nat
    BY ExAssumption, FS_CardinalityType
  <2> QED
    BY <2>1, <2>5, <2>6 DEF IInv, SchedOK, ObjectsOK, TypeOK
<1> QED
  BY <1>1, IInvAlways, PTL
=============================================================================
