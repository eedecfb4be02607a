-------------------------- MODULE TcpService_proof --------------------------
(***************************************************************************)
(* Proofs about TcpService, for pools, descriptor tables and batches of    *)
(* any size, any depth of callbacks and any set of callbacks.              *)
(*                                                                         *)
(* SlotInv, about the pool and the poll set, is inductive; whatever is on  *)
(* the call stack or in the batch of events, however stale, preserves it.  *)
(* So the proof needs no more of those two than their types.               *)
(*                                                                         *)
(* That a slot is connected only once its connection is made depends on    *)
(* them: Fresh says what the events and the writes in progress refer to    *)
(* when RoomToSpare holds. Without it the stale work of a slot meets the   *)
(* next owner of the slot, and the property fails.                         *)
(***************************************************************************)
EXTENDS TcpService, SequenceTheorems, TLAPS

Links == {"none", "listen", "pending", "up", "refused"}

SlotsTypeOK ==
  /\ state \in [Slot -> COTCP_INVALID .. COTCP_CLOSING]
  /\ fd \in [Slot -> Fd \cup {NoFd}]
  /\ sendbuf \in [Slot -> 0 .. MaxSend]
  /\ fns \in [Slot -> SUBSET Callbacks]
  /\ tcpid \in Slot
  /\ link \in [Fd -> Links]
  /\ ptr \in [Fd -> Slot \cup {NoSlot}]
  /\ pollout \subseteq Fd

SlotInv == SlotsTypeOK /\ PollMatchesSlots /\ UnsentIsWatched /\ ClosingHasData

Frame == [op : Work, s : Slot]
Report == [s : Slot, flags : SUBSET Parts]

CallsTypeOK == events \in Seq(Report) /\ agenda \in Seq(Frame)

IInv == SlotInv /\ CallsTypeOK

USE DEF COTCP_INVALID, COTCP_NEW, COTCP_LISTEN, COTCP_CONNECTING, COTCP_CONNECTED,
        COTCP_CLOSING, Slot, NoSlot, Fd, NoFd

-----------------------------------------------------------------------------
(* The call stack and the batch.                                           *)

\* A call is a sequence of one frame.
LEMMA CallType ==
  ASSUME NEW op \in Work, NEW s \in Slot
  PROVE  Call(op, s) \in Seq(Frame)
BY DEF Call, Frame

LEMMA NotifyType ==
  ASSUME NEW fn, NEW s \in Slot
  PROVE  Notify(fn, s) \in Seq(Frame)
<1>1. "callback" \in Work
  BY DEF Work
<1>2. Call("callback", s) \in Seq(Frame) /\ <<>> \in Seq(Frame)
  BY <1>1, CallType
<1> QED
  BY <1>2 DEF Notify

\* Calls put in front of the rest of the stack.
LEMMA ThenType ==
  ASSUME agenda \in Seq(Frame), agenda # <<>>, NEW calls \in Seq(Frame), Then(calls)
  PROVE  agenda' \in Seq(Frame)
<1>1. Tail(agenda) \in Seq(Frame)
  OBVIOUS
<1> QED
  BY <1>1 DEF Then

LEMMA ReturnType ==
  ASSUME agenda \in Seq(Frame), agenda # <<>>, Return
  PROVE  agenda' \in Seq(Frame)
<1>1. <<>> \in Seq(Frame)
  OBVIOUS
<1> QED
  BY <1>1, ThenType DEF Return

\* An event that was processed leaves the batch.
LEMMA TailType ==
  ASSUME events \in Seq(Report), events # <<>>
  PROVE  Tail(events) \in Seq(Report)
OBVIOUS

-----------------------------------------------------------------------------
(* What the primitives do to the pool and the poll set.                    *)

\* Nothing that SlotInv speaks of changed.
LEMMA SlotSame ==
  ASSUME SlotInv, UNCHANGED <<slots, kernel>>
  PROVE  SlotInv'
BY DEF SlotInv, SlotsTypeOK, PollMatchesSlots, UnsentIsWatched, ClosingHasData, Live,
       slots, kernel

\* An invalid slot takes a descriptor that is not open.
LEMMA AttachInv ==
  ASSUME SlotInv, NEW s \in Slot, NEW f \in Fd, ~Live(s), link[f] = "none",
         NEW st \in {COTCP_LISTEN, COTCP_CONNECTING, COTCP_CONNECTED},
         NEW kind \in Links \ {"none"}, NEW cbs,
         Attach(s, f, st, kind, cbs)
  PROVE  SlotInv'
<1>1. SlotsTypeOK'
  <2>1. (s + 1) % COTCP_SIZE \in Slot
    BY TcpAssumption
  <2>2. cbs \cap Callbacks \in SUBSET Callbacks
    OBVIOUS
  <2> QED
    BY <2>1, <2>2 DEF SlotInv, SlotsTypeOK, Attach
<1>2. \A g \in Fd : ptr[g] = s => link[g] = "none"
  BY DEF SlotInv, PollMatchesSlots
<1>3. \A i \in Slot : Live(i) => fd[i] # f
  BY TcpAssumption DEF SlotInv, PollMatchesSlots
<1>4. PollMatchesSlots'
  BY <1>2, <1>3 DEF SlotInv, SlotsTypeOK, PollMatchesSlots, Attach, Live
<1>5. sendbuf[s] = 0
  <2>1. sendbuf[s] \in 0 .. MaxSend /\ MaxSend \in Nat
    BY TcpAssumption DEF SlotInv, SlotsTypeOK
  <2>2. ~(sendbuf[s] > 0)
    BY DEF SlotInv, UnsentIsWatched, Live
  <2> QED
    BY <2>1, <2>2
<1>6. UnsentIsWatched'
  <2> SUFFICES ASSUME NEW i \in Slot, sendbuf'[i] > 0
               PROVE  /\ state'[i] \in {COTCP_CONNECTED, COTCP_CLOSING}
                      /\ fd'[i] \in pollout'
    BY DEF UnsentIsWatched
  <2>1. sendbuf[i] > 0 /\ i # s
    BY <1>5 DEF Attach
  <2>2. pollout \subseteq pollout'
    BY DEF Attach
  <2> QED
    BY <2>1, <2>2 DEF SlotInv, SlotsTypeOK, UnsentIsWatched, Attach
<1>7. ClosingHasData'
  BY DEF SlotInv, SlotsTypeOK, ClosingHasData, Attach
<1> QED
  BY <1>1, <1>4, <1>6, <1>7 DEF SlotInv

\* A live slot gives up its descriptor.
LEMMA DetachInv ==
  ASSUME SlotInv, NEW s \in Slot, Live(s), Detach(s)
  PROVE  SlotInv'
<1>1. fd[s] \in Fd /\ ptr[fd[s]] = s /\ link[fd[s]] # "none"
  BY TcpAssumption DEF SlotInv, SlotsTypeOK, PollMatchesSlots
<1>2. SlotsTypeOK'
  <2>1. /\ state' \in [Slot -> COTCP_INVALID .. COTCP_CLOSING]
        /\ fd' \in [Slot -> Fd \cup {NoFd}]
        /\ sendbuf' \in [Slot -> 0 .. MaxSend]
    BY TcpAssumption DEF SlotInv, SlotsTypeOK, Detach
  <2>2. fns' \in [Slot -> SUBSET Callbacks] /\ tcpid' \in Slot
    BY DEF SlotInv, SlotsTypeOK, Detach
  <2>3. link' \in [Fd -> Links] /\ ptr' \in [Fd -> Slot \cup {NoSlot}] /\ pollout' \subseteq Fd
    BY DEF SlotInv, SlotsTypeOK, Detach, Links
  <2> QED
    BY <2>1, <2>2, <2>3 DEF SlotsTypeOK
<1>3. \A i \in Slot \ {s} : Live(i) => fd[i] # fd[s]
  BY <1>1 DEF SlotInv, PollMatchesSlots
<1>4. \A g \in Fd \ {fd[s]} : ptr[g] # s
  BY TcpAssumption DEF SlotInv, PollMatchesSlots
<1>5. PollMatchesSlots'
  BY <1>1, <1>3, <1>4 DEF SlotInv, SlotsTypeOK, PollMatchesSlots, Detach, Live
<1>6. UnsentIsWatched'
  BY <1>3 DEF SlotInv, SlotsTypeOK, UnsentIsWatched, Detach, Live
<1>7. ClosingHasData'
  BY DEF SlotInv, SlotsTypeOK, ClosingHasData, Detach
<1> QED
  BY <1>2, <1>5, <1>6, <1>7 DEF SlotInv

\* The data and the write interest of a slot change: one with data left is connected or
\* closing, and watched.
DataStep(s, n) ==
  /\ n \in 0 .. MaxSend
  /\ sendbuf' = [sendbuf EXCEPT ![s] = n]
  /\ \/ pollout' = pollout \cup {fd[s]}
     \/ pollout' = pollout
     \/ pollout' = pollout \ {fd[s]}
  /\ n > 0 => /\ state[s] \in {COTCP_CONNECTED, COTCP_CLOSING}
              /\ fd[s] \in pollout'
  /\ n = 0 => state[s] # COTCP_CLOSING
  /\ UNCHANGED <<state, fd, fns, tcpid, link, ptr>>

LEMMA DataInv ==
  ASSUME SlotInv, NEW s \in Slot, Live(s), NEW n, DataStep(s, n)
  PROVE  SlotInv'
<1> USE DEF DataStep
<1>1. fd[s] \in Fd /\ ptr[fd[s]] = s
  BY DEF SlotInv, PollMatchesSlots
<1>2. SlotsTypeOK'
  BY <1>1 DEF SlotInv, SlotsTypeOK
<1>3. PollMatchesSlots'
  BY DEF SlotInv, PollMatchesSlots, Live
<1>4. \A i \in Slot \ {s} : Live(i) => fd[i] # fd[s]
  BY <1>1 DEF SlotInv, PollMatchesSlots
<1>5. UnsentIsWatched'
  <2> SUFFICES ASSUME NEW i \in Slot, sendbuf'[i] > 0
               PROVE  /\ state'[i] \in {COTCP_CONNECTED, COTCP_CLOSING}
                      /\ fd'[i] \in pollout'
    BY DEF UnsentIsWatched
  <2>1. CASE i = s
    BY <2>1 DEF SlotInv, SlotsTypeOK
  <2>2. CASE i # s
    <3>1. sendbuf[i] > 0
      BY <2>2 DEF SlotInv, SlotsTypeOK
    <3>2. state[i] \in {COTCP_CONNECTED, COTCP_CLOSING} /\ fd[i] \in pollout
      BY <3>1 DEF SlotInv, UnsentIsWatched
    <3>3. fd[i] # fd[s]
      BY <1>4, <2>2, <3>2 DEF Live
    <3> QED
      BY <3>2, <3>3
  <2> QED
    BY <2>1, <2>2
<1>6. ClosingHasData'
  BY DEF SlotInv, SlotsTypeOK, ClosingHasData
<1> QED
  BY <1>2, <1>3, <1>5, <1>6 DEF SlotInv

\* The state of a slot moves on while it keeps its descriptor.
MoveStep(s, st) ==
  /\ st \in {COTCP_CONNECTED, COTCP_CLOSING}
  /\ st = COTCP_CLOSING => sendbuf[s] > 0
  /\ state' = [state EXCEPT ![s] = st]
  /\ fns' \in [Slot -> SUBSET Callbacks]
  /\ UNCHANGED <<fd, sendbuf, tcpid, kernel>>

LEMMA MoveInv ==
  ASSUME SlotInv, NEW s \in Slot, Live(s), NEW st, MoveStep(s, st)
  PROVE  SlotInv'
<1> USE DEF MoveStep
<1>1. SlotsTypeOK'
  BY DEF SlotInv, SlotsTypeOK, kernel
<1>2. \A i \in Slot : Live(i)' <=> Live(i)
  BY DEF SlotInv, SlotsTypeOK, Live
<1>3. PollMatchesSlots'
  BY <1>2 DEF SlotInv, SlotsTypeOK, PollMatchesSlots, kernel
<1>4. UnsentIsWatched' /\ ClosingHasData'
  BY DEF SlotInv, SlotsTypeOK, UnsentIsWatched, ClosingHasData, kernel
<1> QED
  BY <1>1, <1>3, <1>4 DEF SlotInv

-----------------------------------------------------------------------------
LEMMA InitInv == Init => IInv
<1> SUFFICES ASSUME Init PROVE IInv
  OBVIOUS
<1>1. SlotsTypeOK
  BY TcpAssumption DEF Init, SlotsTypeOK, Links
<1>2. PollMatchesSlots /\ UnsentIsWatched /\ ClosingHasData
  BY TcpAssumption DEF Init, PollMatchesSlots, UnsentIsWatched, ClosingHasData, Live
<1>3. CallsTypeOK
  BY DEF Init, CallsTypeOK
<1> QED
  BY <1>1, <1>2, <1>3 DEF IInv, SlotInv

\* The callback of a connection that was made at once goes in front of the stack.
LEMMA CallsFirst ==
  ASSUME agenda \in Seq(Frame), NEW calls \in Seq(Frame)
  PROVE  calls \o agenda \in Seq(Frame)
OBVIOUS

LEMMA UserStep ==
  ASSUME IInv, User
  PROVE  IInv'
<1> USE DEF IInv, CallsTypeOK
<1>w. {"read", "write", "error", "close", "closing", "closing_force", "callback"} = Work
  BY DEF Work
<1>e. <<>> \in Seq(Frame)
  OBVIOUS
<1>1. CASE open_fails
  <2> PICK s \in Slot : /\ tcpid' = (s + 1) % COTCP_SIZE
                        /\ UNCHANGED <<state, fd, sendbuf, fns, kernel, events, agenda>>
    BY <1>1 DEF open_fails
  <2>1. (s + 1) % COTCP_SIZE \in Slot
    BY TcpAssumption
  <2>2. SlotInv'
    BY <2>1 DEF SlotInv, SlotsTypeOK, PollMatchesSlots, UnsentIsWatched, ClosingHasData,
                Live, kernel
  <2> QED
    BY <2>2
<1>2. CASE cotcp_listen
  <2> PICK s \in Slot, f \in Fd : /\ ~Live(s) /\ link[f] = "none"
                                  /\ Attach(s, f, COTCP_LISTEN, "listen", {"connect"})
                                  /\ UNCHANGED <<events, agenda>>
    BY <1>2 DEF cotcp_listen, _cotcp_alloc, Opens
  <2>1. "listen" \in Links \ {"none"}
    BY DEF Links
  <2> QED
    BY <2>1, AttachInv
<1>3. CASE cotcp_connect_inprogress
  <2> PICK s \in Slot, f \in Fd :
        /\ ~Live(s) /\ link[f] = "none"
        /\ Attach(s, f, COTCP_CONNECTING, "pending", {"connect", "error"})
        /\ UNCHANGED <<events, agenda>>
    BY <1>3 DEF cotcp_connect_inprogress, _cotcp_alloc, Opens
  <2>1. "pending" \in Links \ {"none"}
    BY DEF Links
  <2> QED
    BY <2>1, AttachInv
<1>4. CASE cotcp_connect_immediate
  <2> PICK s \in Slot, f \in Fd :
        /\ ~Live(s) /\ link[f] = "none"
        /\ Attach(s, f, COTCP_CONNECTED, "up", {"connect", "error"})
        /\ agenda' = (IF "connect" \in Callbacks THEN Call("callback", s) ELSE <<>>) \o agenda
        /\ UNCHANGED events
    BY <1>4 DEF cotcp_connect_immediate, _cotcp_alloc, Opens
  <2>1. "up" \in Links \ {"none"}
    BY DEF Links
  <2>2. Call("callback", s) \in Seq(Frame)
    BY <1>w, CallType
  <2>3. agenda' \in Seq(Frame)
    BY <2>2, <1>e, CallsFirst
  <2> QED
    BY <2>1, <2>3, AttachInv
<1>5. ASSUME NEW s \in Slot, cotcp_send(s)
      PROVE  IInv'
  <2>1. state[s] = COTCP_CONNECTED /\ sendbuf[s] \in 0 .. MaxSend /\ sendbuf[s] < MaxSend
    BY <1>5 DEF cotcp_send, SlotInv, SlotsTypeOK
  <2> DEFINE n == sendbuf[s] + 1
  <2>2. n \in 0 .. MaxSend /\ n > 0 /\ Live(s)
    BY <2>1, TcpAssumption DEF Live
  <2>3. /\ sendbuf' = [sendbuf EXCEPT ![s] = n]
        /\ pollout' = pollout \cup {fd[s]}
        /\ fd[s] \in pollout'
        /\ UNCHANGED <<state, fd, fns, tcpid, link, ptr>>
    BY <1>5 DEF cotcp_send
  <2> HIDE DEF n
  <2>4. DataStep(s, n)
    BY <2>1, <2>2, <2>3 DEF DataStep
  <2>a. SlotInv'
    BY <2>2, <2>4, DataInv
  <2>5. Call("write", s) \in Seq(Frame)
    BY <1>w, CallType
  <2>6. agenda' \in Seq(Frame) /\ events' = events
    BY <1>5, <2>5, CallsFirst DEF cotcp_send
  <2> QED
    BY <2>a, <2>6
<1>6. ASSUME NEW s \in Slot, NEW force \in BOOLEAN, cotcp_close(s, force)
      PROVE  IInv'
  <2>1. SlotInv' /\ events' = events
    BY <1>6, SlotSame DEF cotcp_close
  <2> DEFINE first == IF sendbuf[s] > 0 THEN Call("write", s) ELSE <<>>
             rest == Call(IF force THEN "closing_force" ELSE "closing", s)
  <2>2. first \in Seq(Frame)
    <3>1. Call("write", s) \in Seq(Frame)
      BY <1>w, CallType
    <3> QED
      BY <3>1, <1>e
  <2>3. rest \in Seq(Frame)
    <3>1. (IF force THEN "closing_force" ELSE "closing") \in Work
      BY <1>w
    <3> QED
      BY <3>1, CallType
  <2>4. agenda' = first \o rest \o agenda
    BY <1>6 DEF cotcp_close
  <2> HIDE DEF first, rest
  <2>5. agenda' \in Seq(Frame)
    BY <2>2, <2>3, <2>4
  <2> QED
    BY <2>1, <2>5
<1>7. ASSUME NEW s \in Slot, NEW fn \in Callbacks, cotcp_on(s, fn)
      PROVE  IInv'
  <2>1. /\ fns' = [fns EXCEPT ![s] = @ \cup {fn}]
        /\ UNCHANGED <<state, fd, sendbuf, tcpid, kernel, events, agenda>>
    BY <1>7 DEF cotcp_on
  <2>2. SlotInv'
    BY <2>1 DEF SlotInv, SlotsTypeOK, PollMatchesSlots, UnsentIsWatched, ClosingHasData,
                Live, kernel
  <2> QED
    BY <2>1, <2>2
<1> QED
  BY <1>1, <1>2, <1>3, <1>4, <1>5, <1>6, <1>7 DEF User

\* A frame with the operation the thread is about to do is on the stack.
LEMMA DoingStack ==
  ASSUME NEW op, NEW s, Doing(op, s)
  PROVE  agenda # <<>>
BY DEF Doing

\* The steps that change nothing but the call stack.
LEMMA CallStep ==
  ASSUME IInv, agenda # <<>>, NEW calls \in Seq(Frame), Then(calls),
         UNCHANGED <<slots, kernel, events>>
  PROVE  IInv'
<1>1. agenda' \in Seq(Frame)
  BY ThenType DEF IInv, CallsTypeOK
<1>2. SlotInv'
  BY SlotSame DEF IInv
<1> QED
  BY <1>1, <1>2 DEF IInv, CallsTypeOK

LEMMA ReturnStep ==
  ASSUME IInv, agenda # <<>>, Return, UNCHANGED <<slots, kernel, events>>
  PROVE  IInv'
<1>1. <<>> \in Seq(Frame)
  OBVIOUS
<1> QED
  BY <1>1, CallStep DEF Return

LEMMA HandlerStep ==
  ASSUME IInv, NEW s \in Slot,
         \/ closing(s) \/ closing_now(s) \/ _cotcp_close(s)
         \/ _cotcp_handle_error(s) \/ _cotcp_handle_read(s) \/ _cotcp_handle_write(s)
  PROVE  IInv'
<1>w. {"read", "write", "error", "close", "closing", "closing_force", "callback"} = Work
  BY DEF Work
<1>c. Call("close", s) \in Seq(Frame) /\ Call("error", s) \in Seq(Frame)
  BY <1>w, CallType
<1>n. \A fn : Notify(fn, s) \in Seq(Frame)
  BY NotifyType
<1>nc. \A fn : Notify(fn, s) \o Call("close", s) \in Seq(Frame)
  BY <1>c, <1>n
<1>e. <<>> \in Seq(Frame)
  OBVIOUS
<1>1. CASE closing(s)
  <2>1. agenda # <<>> /\ Return /\ sendbuf[s] > 0
    BY <1>1 DEF closing, Doing
  <2>2. Live(s) /\ state[s] \in {COTCP_CONNECTED, COTCP_CLOSING}
    BY <2>1 DEF IInv, SlotInv, UnsentIsWatched, Live
  <2>3. /\ state' = [state EXCEPT ![s] = COTCP_CLOSING]
        /\ UNCHANGED <<fd, sendbuf, fns, tcpid, kernel, events>>
    BY <1>1 DEF closing
  <2>4. fns' \in [Slot -> SUBSET Callbacks]
    BY <2>3 DEF IInv, SlotInv, SlotsTypeOK
  <2>a. MoveStep(s, COTCP_CLOSING)
    BY <2>1, <2>3, <2>4 DEF MoveStep
  <2>5. SlotInv'
    BY <2>2, <2>a, MoveInv DEF IInv
  <2>6. agenda' \in Seq(Frame)
    BY <2>1, ReturnType DEF IInv, CallsTypeOK
  <2> QED
    BY <2>3, <2>5, <2>6 DEF IInv, CallsTypeOK
<1>2. CASE closing_now(s)
  BY <1>2, <1>nc, CallStep, DoingStack DEF closing_now
<1>3. CASE _cotcp_close(s)
  <2>1. agenda # <<>> /\ Return
    BY <1>3 DEF _cotcp_close, Doing
  <2>2. CASE Live(s)
    <3>1. Detach(s)
      BY <1>3, <2>2 DEF _cotcp_close
    <3>2. SlotInv'
      BY <2>2, <3>1, DetachInv DEF IInv
    <3>3. agenda' \in Seq(Frame) /\ events' = events
      BY <2>1, <3>1, ReturnType DEF IInv, CallsTypeOK, Detach
    <3> QED
      BY <3>2, <3>3 DEF IInv, CallsTypeOK
  <2>3. CASE ~Live(s)
    <3>1. UNCHANGED <<slots, kernel, events>>
      BY <1>3, <2>3 DEF _cotcp_close
    <3> QED
      BY <2>1, <3>1, ReturnStep
  <2> QED
    BY <2>2, <2>3
<1>4. CASE _cotcp_handle_error(s)
  <2> DEFINE calls == IF Live(s) THEN Notify("error", s) \o Call("close", s) ELSE <<>>
  <2>1. calls \in Seq(Frame)
    BY <1>nc, <1>e
  <2>2. agenda # <<>> /\ Then(calls) /\ UNCHANGED <<slots, kernel, events>>
    BY <1>4 DEF _cotcp_handle_error, Doing
  <2> HIDE DEF calls
  <2> QED
    BY <2>1, <2>2, CallStep
<1>5. CASE _cotcp_handle_read(s)
  <2>1. agenda # <<>> /\ UNCHANGED <<slots, kernel, events>>
    BY <1>5 DEF _cotcp_handle_read, Doing
  <2>2. CASE Live(s)
    <3>1. ReadResults(s) \subseteq {"again", "data", "eof", "error"}
      BY DEF ReadResults
    <3>2. PICK r \in {"again", "data", "eof", "error"} :
            Then(CASE r = "again" -> <<>>
                   [] r = "error" -> Call("error", s)
                   [] r = "eof" -> Notify("close", s) \o Call("close", s)
                   [] r = "data" -> IF state[s] = COTCP_CONNECTED THEN Notify("recv", s)
                                    ELSE <<>>)
      BY <1>5, <2>2, <3>1 DEF _cotcp_handle_read
    <3>3. CASE r = "again"
      BY <2>1, <3>2, <3>3, <1>e, CallStep
    <3>4. CASE r = "error"
      <4>1. Then(Call("error", s))
        BY <3>2, <3>4
      <4> QED
        BY <2>1, <4>1, <1>c, CallStep
    <3>5. CASE r = "eof"
      <4>1. Then(Notify("close", s) \o Call("close", s))
        BY <3>2, <3>5
      <4> QED
        BY <2>1, <4>1, <1>nc, CallStep
    <3>6. CASE r = "data"
      <4>1. Then(Notify("recv", s)) \/ Then(<<>>)
        BY <3>2, <3>6
      <4> QED
        BY <2>1, <4>1, <1>n, <1>e, CallStep
    <3> QED
      BY <3>3, <3>4, <3>5, <3>6
  <2>3. CASE ~Live(s)
    BY <1>5, <2>1, <2>3, ReturnStep DEF _cotcp_handle_read
  <2> QED
    BY <2>2, <2>3
<1>6. CASE write_some(s)
  <2>1. agenda # <<>> /\ Return /\ Live(s) /\ sendbuf[s] > 0
    BY <1>6 DEF write_some, Doing
  <2>2. PICK n \in 1 .. sendbuf[s] : sendbuf' = [sendbuf EXCEPT ![s] = n]
    BY <1>6 DEF write_some
  <2>3. sendbuf[s] \in 0 .. MaxSend /\ MaxSend \in Nat
    BY TcpAssumption DEF IInv, SlotInv, SlotsTypeOK
  <2>4. n \in 0 .. MaxSend /\ n > 0
    BY <2>3
  <2>5. UNCHANGED <<state, fd, fns, tcpid, link, ptr, pollout, events>>
    BY <1>6 DEF write_some, kernel
  <2>6. state[s] \in {COTCP_CONNECTED, COTCP_CLOSING} /\ fd[s] \in pollout'
    BY <2>1, <2>5 DEF IInv, SlotInv, UnsentIsWatched
  <2>7. SlotInv'
    <3>1. DataStep(s, n)
      BY <2>2, <2>4, <2>5, <2>6 DEF DataStep
    <3> QED
      BY <2>1, <3>1, DataInv DEF IInv
  <2>8. agenda' \in Seq(Frame)
    BY <2>1, ReturnType DEF IInv, CallsTypeOK
  <2> QED
    BY <2>5, <2>7, <2>8 DEF IInv, CallsTypeOK
<1>7. CASE write_fails(s)
  BY <1>7, <1>c, CallStep, DoingStack DEF write_fails
<1>8. CASE write_all(s)
  <2>1. agenda # <<>> /\ Return /\ Live(s) /\ _cotcp_check_closing(s)
    BY <1>8 DEF write_all, Doing
  <2>2. CASE state[s] = COTCP_CLOSING
    <3>1. Detach(s)
      BY <2>1, <2>2 DEF _cotcp_check_closing
    <3> QED
      BY <2>1, <3>1, DetachInv, ReturnType DEF IInv, CallsTypeOK, Detach
  <2>3. CASE state[s] # COTCP_CLOSING
    <3>1. /\ pollout' = pollout \ {fd[s]}
          /\ sendbuf' = [sendbuf EXCEPT ![s] = 0]
          /\ UNCHANGED <<state, fd, fns, tcpid, link, ptr, events>>
      BY <2>1, <2>3 DEF _cotcp_check_closing
    <3>2. 0 \in 0 .. MaxSend
      BY TcpAssumption
    <3>3. SlotInv'
      <4>1. DataStep(s, 0)
        BY <2>3, <3>1, <3>2 DEF DataStep
      <4> QED
        BY <2>1, <4>1, DataInv DEF IInv
    <3> QED
      BY <2>1, <3>1, <3>3, ReturnType DEF IInv, CallsTypeOK
  <2> QED
    BY <2>2, <2>3
<1>9. CASE write_invalid(s)
  BY <1>9, ReturnStep, DoingStack DEF write_invalid
<1> QED
  BY <1>1, <1>2, <1>3, <1>4, <1>5, <1>6, <1>7, <1>8, <1>9 DEF _cotcp_handle_write

LEMMA EventStep ==
  ASSUME IInv, NEW s \in Slot, _coios_process_event(s)
  PROVE  IInv'
<1> USE DEF IInv, CallsTypeOK
<1>w. {"read", "write", "error", "close", "closing", "closing_force", "callback"} = Work
  BY DEF Work
<1>e. <<>> \in Seq(Frame)
  OBVIOUS
<1>t. Event(s) => Tail(events) \in Seq(Report)
  BY TailType DEF Event
<1>n. \A fn : Notify(fn, s) \in Seq(Frame)
  BY NotifyType
<1>1. CASE accept_fails(s) \/ accept_refuses(s) \/ event_invalid(s)
  <2>1. Event(s) /\ events' = Tail(events) /\ UNCHANGED <<slots, kernel, agenda>>
    BY <1>1 DEF accept_fails, accept_refuses, event_invalid
  <2> QED
    BY <1>t, <2>1, SlotSame
<1>2. CASE _cotcp_handle_accept(s)
  <2> PICK c \in Slot, f \in Fd :
        /\ ~Live(c) /\ link[f] = "none"
        /\ Attach(c, f, COTCP_CONNECTED, "up", {})
        /\ agenda' = IF "connect" \in fns[s] THEN Call("callback", c) ELSE <<>>
    BY <1>2 DEF _cotcp_handle_accept, _cotcp_alloc, Opens
  <2>1. "up" \in Links \ {"none"}
    BY DEF Links
  <2>2. SlotInv'
    BY <2>1, AttachInv
  <2>3. Call("callback", c) \in Seq(Frame)
    BY <1>w, CallType
  <2>4. agenda' \in Seq(Frame)
    BY <2>3, <1>e
  <2>5. events' \in Seq(Report)
    BY <1>2, <1>t DEF _cotcp_handle_accept
  <2> QED
    BY <2>2, <2>4, <2>5
<1>3. CASE connect_fails(s)
  <2>1. /\ Event(s) /\ events' = Tail(events)
        /\ agenda' = Notify("error", s) \o Call("close", s)
        /\ UNCHANGED <<slots, kernel>>
    BY <1>3 DEF connect_fails
  <2>2. Call("close", s) \in Seq(Frame)
    BY <1>w, CallType
  <2>3. Notify("error", s) \o Call("close", s) \in Seq(Frame)
    BY <1>n, <2>2
  <2> QED
    BY <1>t, <2>1, <2>3, SlotSame
<1>4. CASE _cotcp_handle_connect(s)
  <2>1. /\ Event(s) /\ events' = Tail(events)
        /\ state[s] = COTCP_CONNECTING
        /\ state' = [state EXCEPT ![s] = COTCP_CONNECTED]
        /\ fns' = [fns EXCEPT ![s] = @ \ {"error"}]
        /\ agenda' = Notify("connect", s)
        /\ UNCHANGED <<fd, sendbuf, tcpid, kernel>>
    BY <1>4 DEF _cotcp_handle_connect
  <2>2. fns' \in [Slot -> SUBSET Callbacks]
    BY <2>1 DEF SlotInv, SlotsTypeOK
  <2>a. MoveStep(s, COTCP_CONNECTED)
    BY <2>1, <2>2 DEF MoveStep
  <2>3. SlotInv'
    BY <2>1, <2>a, MoveInv DEF Live
  <2> QED
    BY <1>n, <1>t, <2>1, <2>3
<1>5. CASE event_io(s)
  <2> DEFINE Part(op) == IF op \in Head(events).flags THEN Call(op, s) ELSE <<>>
  <2>1. /\ Event(s) /\ events' = Tail(events)
        /\ agenda' = Part("read") \o Part("write") \o Part("error")
        /\ UNCHANGED <<slots, kernel>>
    BY <1>5 DEF event_io
  <2>2. \A op \in Work : Part(op) \in Seq(Frame)
    BY <1>e, CallType
  <2> HIDE DEF Part
  <2>3. Part("read") \in Seq(Frame) /\ Part("write") \in Seq(Frame) /\ Part("error") \in Seq(Frame)
    BY <1>w, <2>2
  <2>4. agenda' \in Seq(Frame)
    BY <2>1, <2>3
  <2>5. SlotInv'
    BY <2>1, SlotSame
  <2>6. events' \in Seq(Report)
    BY <1>t, <2>1
  <2> QED
    BY <2>4, <2>5, <2>6
<1> QED
  BY <1>1, <1>2, <1>3, <1>4, <1>5 DEF _coios_process_event

LEMMA WaitStep ==
  ASSUME IInv, copoll_wait
  PROVE  IInv'
<1>1. PICK n \in 1 .. MaxEvents :
        \E order \in [1 .. n -> {f \in Fd : ptr[f] # NoSlot}] :
          \E flags \in [1 .. n -> SUBSET Parts] :
            events' = [i \in 1 .. n |-> [s |-> ptr[order[i]], flags |-> flags[i]]]
  BY DEF copoll_wait
<1>2. PICK order \in [1 .. n -> {f \in Fd : ptr[f] # NoSlot}], flags \in [1 .. n -> SUBSET Parts] :
        events' = [i \in 1 .. n |-> [s |-> ptr[order[i]], flags |-> flags[i]]]
  BY <1>1
<1>3. \A f \in Fd : ptr[f] # NoSlot => ptr[f] \in Slot
  BY DEF IInv, SlotInv, SlotsTypeOK
<1>4. \A i \in 1 .. n : [s |-> ptr[order[i]], flags |-> flags[i]] \in Report
  BY <1>3 DEF Report
<1>5. n \in Nat
  OBVIOUS
<1>6. events' \in Seq(Report)
  BY <1>2, <1>4, <1>5
<1>7. SlotInv' /\ agenda' = agenda
  BY SlotSame DEF IInv, copoll_wait
<1> QED
  BY <1>6, <1>7 DEF IInv, CallsTypeOK

LEMMA ConnectionStep ==
  ASSUME IInv, NEW f \in Fd, connection_made(f)
  PROVE  IInv'
<1>1. PICK result \in {"up", "refused"} : link' = [link EXCEPT ![f] = result]
  BY DEF connection_made
<1>2. /\ link[f] = "pending"
      /\ UNCHANGED <<slots, ptr, pollout, events, agenda>>
  BY DEF connection_made
<1>3. SlotsTypeOK'
  BY <1>1, <1>2 DEF IInv, SlotInv, SlotsTypeOK, Links, slots
<1>4. PollMatchesSlots'
  BY <1>1, <1>2 DEF IInv, SlotInv, SlotsTypeOK, PollMatchesSlots, Live, slots
<1>5. UnsentIsWatched' /\ ClosingHasData'
  BY <1>2 DEF IInv, SlotInv, UnsentIsWatched, ClosingHasData, slots
<1> QED
  BY <1>2, <1>3, <1>4, <1>5 DEF IInv, SlotInv, CallsTypeOK

LEMMA NextInv ==
  ASSUME IInv, [Next]_vars
  PROVE  IInv'
<1>1. CASE User
  BY <1>1, UserStep
<1>2. CASE user_returns
  BY <1>2, ReturnStep, DoingStack DEF user_returns
<1>3. CASE copoll_wait
  BY <1>3, WaitStep
<1>4. ASSUME NEW s \in Slot, Handlers(s) PROVE IInv'
  BY <1>4, HandlerStep, EventStep DEF Handlers
<1>5. ASSUME NEW f \in Fd, connection_made(f) PROVE IInv'
  BY <1>5, ConnectionStep
<1>6. CASE UNCHANGED vars
  BY <1>6, SlotSame DEF vars, IInv, CallsTypeOK
<1> QED
  BY <1>1, <1>2, <1>3, <1>4, <1>5, <1>6 DEF Next

-----------------------------------------------------------------------------
(* The life cycle of a slot.                                               *)

SlotsStep == \A s \in Slot : Live(s) /\ Live(s)' => SlotStep(s)

LEMMA SameStep ==
  ASSUME UNCHANGED <<state, fd>>
  PROVE  SlotsStep
BY DEF SlotsStep, SlotStep

LEMMA AttachStep ==
  ASSUME SlotInv, NEW s \in Slot, NEW f, ~Live(s), NEW st, NEW kind, NEW cbs,
         Attach(s, f, st, kind, cbs)
  PROVE  SlotsStep
BY DEF SlotsStep, SlotStep, Attach, SlotInv, SlotsTypeOK, Live

LEMMA DetachStep ==
  ASSUME SlotInv, NEW s \in Slot, Detach(s)
  PROVE  SlotsStep
BY DEF SlotsStep, SlotStep, Detach, SlotInv, SlotsTypeOK, Live

LEMMA NextSlots ==
  ASSUME IInv, Next
  PROVE  SlotsStep
<1> USE DEF IInv
<1>1. CASE User
  <2>1. CASE open_fails
    BY <2>1, SameStep DEF open_fails
  <2>2. CASE cotcp_listen
    BY <2>2, AttachStep DEF cotcp_listen, _cotcp_alloc
  <2>3. CASE cotcp_connect_inprogress
    BY <2>3, AttachStep DEF cotcp_connect_inprogress, _cotcp_alloc
  <2>4. CASE cotcp_connect_immediate
    BY <2>4, AttachStep DEF cotcp_connect_immediate, _cotcp_alloc
  <2>5. ASSUME NEW s \in Slot, cotcp_send(s) PROVE SlotsStep
    BY <2>5, SameStep DEF cotcp_send
  <2>6. ASSUME NEW s \in Slot, NEW force \in BOOLEAN, cotcp_close(s, force)
        PROVE  SlotsStep
    BY <2>6, SameStep DEF cotcp_close, slots
  <2>7. ASSUME NEW s \in Slot, NEW fn \in Callbacks, cotcp_on(s, fn) PROVE SlotsStep
    BY <2>7, SameStep DEF cotcp_on
  <2> QED
    BY <1>1, <2>1, <2>2, <2>3, <2>4, <2>5, <2>6, <2>7 DEF User
<1>2. CASE user_returns \/ copoll_wait
  BY <1>2, SameStep DEF user_returns, copoll_wait, slots
<1>3. ASSUME NEW f \in Fd, connection_made(f) PROVE SlotsStep
  BY <1>3, SameStep DEF connection_made, slots
<1>4. ASSUME NEW s \in Slot, Handlers(s) PROVE SlotsStep
  <2>1. CASE closing(s)
    <3>1. sendbuf[s] > 0
      BY <2>1 DEF closing
    <3>2. state[s] \in {COTCP_CONNECTED, COTCP_CLOSING}
      BY <3>1 DEF SlotInv, UnsentIsWatched
    <3>3. state' = [state EXCEPT ![s] = COTCP_CLOSING] /\ fd' = fd
      BY <2>1 DEF closing
    <3> QED
      BY <3>2, <3>3 DEF SlotsStep, SlotStep, SlotInv, SlotsTypeOK
  <2>2. CASE _cotcp_handle_connect(s)
    <3>1. /\ state[s] = COTCP_CONNECTING
          /\ state' = [state EXCEPT ![s] = COTCP_CONNECTED]
          /\ fd' = fd
      BY <2>2 DEF _cotcp_handle_connect
    <3> QED
      BY <3>1 DEF SlotsStep, SlotStep, SlotInv, SlotsTypeOK
  <2>3. CASE _cotcp_handle_accept(s)
    BY <2>3, AttachStep DEF _cotcp_handle_accept, _cotcp_alloc
  <2>4. CASE _cotcp_close(s)
    BY <2>4, DetachStep, SameStep DEF _cotcp_close, slots
  <2>5. CASE write_all(s)
    BY <2>5, DetachStep, SameStep DEF write_all, _cotcp_check_closing
  <2>6. CASE write_some(s) \/ write_fails(s) \/ write_invalid(s)
    BY <2>6, SameStep DEF write_some, write_fails, write_invalid, slots
  <2>7. CASE closing_now(s) \/ _cotcp_handle_error(s) \/ _cotcp_handle_read(s)
    BY <2>7, SameStep DEF closing_now, _cotcp_handle_error, _cotcp_handle_read, slots
  <2>8. CASE \/ accept_fails(s) \/ accept_refuses(s) \/ event_invalid(s)
             \/ connect_fails(s) \/ event_io(s)
    BY <2>8, SameStep DEF accept_fails, accept_refuses, event_invalid, connect_fails,
                          event_io, slots
  <2> QED
    BY <1>4, <2>1, <2>2, <2>3, <2>4, <2>5, <2>6, <2>7, <2>8
       DEF Handlers, _cotcp_handle_write, _coios_process_event
<1> QED
  BY <1>1, <1>2, <1>3, <1>4 DEF Next

-----------------------------------------------------------------------------
(* Connections. When the pool hands out no slot that a frame of the call   *)
(* stack or an event of the batch refers to, an event for a connection     *)
(* that is being made is about that connection, which has been decided,    *)
(* and no write is in progress for it.                                     *)

SocketsFresh == /\ ConnectedIsEstablished
                /\ ConnectingIsWatched
                /\ \A s \in Slot : state[s] = COTCP_CONNECTING => link[fd[s]] # "listen"

EventsFresh == \A x \in Range(events) :
  state[x.s] = COTCP_CONNECTING => link[fd[x.s]] # "pending"

WritesFresh == \A x \in Range(agenda) : x.op = "write" => state[x.s] # COTCP_CONNECTING

Fresh == SocketsFresh /\ EventsFresh /\ WritesFresh

\* What the call stack and the batch refer to is slots.
LEMMA References ==
  ASSUME CallsTypeOK
  PROVE  /\ Range(agenda) \subseteq Frame /\ Range(events) \subseteq Report
         /\ Referenced = {x.s : x \in Range(agenda)} \cup {x.s : x \in Range(events)}
         /\ Referenced \subseteq Slot
<1>1. Range(agenda) \subseteq Frame /\ Range(events) \subseteq Report
  BY RangeOfSeq DEF CallsTypeOK
<1>2. Referenced = {x.s : x \in Range(agenda)} \cup {x.s : x \in Range(events)}
  BY DEF Referenced, Range
<1>3. (\A x \in Frame : x.s \in Slot) /\ (\A x \in Report : x.s \in Slot)
  BY DEF Frame, Report
<1> QED
  BY <1>1, <1>2, <1>3

\* A slot that is referred to is no connection that has begun since, and what was decided
\* about it stays.
RefsOld ==
  \A r \in Referenced : state'[r] = COTCP_CONNECTING =>
    /\ state[r] = COTCP_CONNECTING
    /\ fd'[r] = fd[r]
    /\ link[fd[r]] # "pending" => link'[fd[r]] # "pending"

\* The calls that are added to the stack write only what is connected.
CallsFresh(calls) == \A x \in Range(calls) : x.op = "write" => state'[x.s] # COTCP_CONNECTING

LEMMA RefsKept ==
  ASSUME CallsTypeOK, EventsFresh, WritesFresh, RefsOld, NEW calls, CallsFresh(calls),
         Range(agenda') \subseteq Range(agenda) \cup Range(calls),
         Range(events') \subseteq Range(events)
  PROVE  EventsFresh' /\ WritesFresh'
<1>1. \A x \in Range(agenda) \cup Range(events) : x.s \in Referenced
  BY References
<1>2. EventsFresh'
  BY <1>1 DEF EventsFresh, RefsOld
<1>3. WritesFresh'
  BY <1>1 DEF WritesFresh, RefsOld, CallsFresh
<1> QED
  BY <1>2, <1>3

LEMMA TailRange ==
  ASSUME NEW S, NEW q \in Seq(S), q # <<>>
  PROVE  Range(Tail(q)) \subseteq Range(q)
<1>1. /\ Tail(q) \in Seq(S) /\ Len(Tail(q)) = Len(q) - 1
      /\ \A i \in 1 .. Len(Tail(q)) : Tail(q)[i] = q[i + 1]
  BY HeadTailProperties
<1>2. Range(q) = {q[i] : i \in 1 .. Len(q)}
  BY RangeEquality
<1>3. Range(Tail(q)) = {Tail(q)[i] : i \in 1 .. Len(Tail(q))}
  BY <1>1, RangeEquality
<1>4. \A i \in 1 .. Len(Tail(q)) : i + 1 \in 1 .. Len(q)
  BY <1>1
<1> QED
  BY <1>1, <1>2, <1>3, <1>4

\* The frames of the stack after calls were put in front of it, or of what follows its
\* first frame.
LEMMA StackRange ==
  ASSUME CallsTypeOK, NEW calls \in Seq(Frame),
         \/ agenda' = calls \o agenda
         \/ agenda # <<>> /\ Then(calls)
  PROVE  Range(agenda') \subseteq Range(agenda) \cup Range(calls)
<1>1. agenda \in Seq(Frame)
  BY DEF CallsTypeOK
<1>2. CASE agenda' = calls \o agenda
  BY <1>1, <1>2, RangeConcatenation
<1>3. CASE agenda # <<>> /\ Then(calls)
  <2>1. Tail(agenda) \in Seq(Frame)
    BY <1>1, <1>3
  <2>2. Range(agenda') = Range(calls) \cup Range(Tail(agenda))
    BY <1>3, <2>1, RangeConcatenation DEF Then
  <2> QED
    BY <1>1, <1>3, <2>2, TailRange
<1> QED
  BY <1>2, <1>3

LEMMA CallRange ==
  ASSUME NEW op, NEW s
  PROVE  Range(Call(op, s)) = {[op |-> op, s |-> s]}
BY DEF Call, Range

\* Calls that are no writes, or writes of slots that are not connecting.
LEMMA CallFresh ==
  ASSUME NEW op, NEW s, op # "write" \/ state'[s] # COTCP_CONNECTING
  PROVE  CallsFresh(Call(op, s))
<1>1. [op |-> op, s |-> s].op = op /\ [op |-> op, s |-> s].s = s
  OBVIOUS
<1> QED
  BY <1>1, CallRange DEF CallsFresh

LEMMA NoCallFresh == CallsFresh(<<>>)
BY DEF CallsFresh, Range

LEMMA NotifyFresh ==
  ASSUME NEW fn, NEW s
  PROVE  CallsFresh(Notify(fn, s))
<1>1. CallsFresh(Call("callback", s))
  BY CallFresh
<1> QED
  BY <1>1, NoCallFresh DEF Notify

LEMMA TwoCallsFresh ==
  ASSUME NEW a \in Seq(Frame), NEW b \in Seq(Frame), CallsFresh(a), CallsFresh(b)
  PROVE  CallsFresh(a \o b)
<1>1. Range(a \o b) = Range(a) \cup Range(b)
  BY RangeConcatenation
<1> QED
  BY <1>1 DEF CallsFresh
\* The slots, the descriptors and what they are did not change.
LEMMA SameFresh ==
  ASSUME SocketsFresh, UNCHANGED <<state, fd, link>>,
         \A s \in Slot : state[s] = COTCP_CONNECTING /\ fd[s] \in pollout => fd[s] \in pollout'
  PROVE  SocketsFresh' /\ RefsOld
BY DEF SocketsFresh, ConnectedIsEstablished, ConnectingIsWatched, RefsOld

LEMMA AttachFresh ==
  ASSUME SlotInv, CallsTypeOK, SocketsFresh, NEW s \in Slot, NEW f \in Fd, s \notin Referenced,
         ~Live(s), link[f] = "none", NEW st, NEW kind, NEW cbs,
         \/ st = COTCP_LISTEN /\ kind = "listen"
         \/ st = COTCP_CONNECTING /\ kind = "pending"
         \/ st = COTCP_CONNECTED /\ kind = "up",
         Attach(s, f, st, kind, cbs)
  PROVE  SocketsFresh' /\ RefsOld
<1>1. /\ state' = [state EXCEPT ![s] = st] /\ fd' = [fd EXCEPT ![s] = f]
      /\ link' = [link EXCEPT ![f] = kind]
      /\ pollout' = IF st = COTCP_CONNECTING THEN pollout \cup {f} ELSE pollout
  BY DEF Attach
<1>2. /\ state \in [Slot -> COTCP_INVALID .. COTCP_CLOSING]
      /\ fd \in [Slot -> Fd \cup {NoFd}] /\ link \in [Fd -> Links]
  BY DEF SlotInv, SlotsTypeOK
<1>3. \A i \in Slot \ {s} : state'[i] = state[i] /\ fd'[i] = fd[i]
  BY <1>1, <1>2
<1>4. \A i \in Slot : Live(i) => fd[i] # f /\ fd[i] \in Fd
  BY TcpAssumption DEF SlotInv, PollMatchesSlots
<1>5. \A i \in Slot \ {s} : Live(i) => link'[fd[i]] = link[fd[i]]
  BY <1>1, <1>2, <1>4
<1>6. state'[s] = st /\ fd'[s] = f /\ link'[f] = kind /\ pollout \subseteq pollout'
  BY <1>1, <1>2
<1>7. SocketsFresh'
  BY <1>1, <1>3, <1>5, <1>6
     DEF SocketsFresh, ConnectedIsEstablished, ConnectingIsWatched, Live
<1>8. RefsOld
  BY <1>3, <1>5, References DEF RefsOld, Live
<1> QED
  BY <1>7, <1>8

LEMMA DetachFresh ==
  ASSUME SlotInv, CallsTypeOK, SocketsFresh, NEW s \in Slot, Live(s), Detach(s)
  PROVE  SocketsFresh' /\ RefsOld
<1>1. /\ state' = [state EXCEPT ![s] = COTCP_INVALID] /\ fd' = [fd EXCEPT ![s] = NoFd]
      /\ link' = [link EXCEPT ![fd[s]] = "none"] /\ pollout' = pollout \ {fd[s]}
  BY DEF Detach
<1>2. /\ state \in [Slot -> COTCP_INVALID .. COTCP_CLOSING]
      /\ fd \in [Slot -> Fd \cup {NoFd}] /\ link \in [Fd -> Links]
  BY DEF SlotInv, SlotsTypeOK
<1>3. state'[s] = COTCP_INVALID /\ \A i \in Slot \ {s} : state'[i] = state[i] /\ fd'[i] = fd[i]
  BY <1>1, <1>2
<1>4. \A i \in Slot \ {s} : Live(i) => fd[i] # fd[s] /\ fd[i] \in Fd
  BY DEF SlotInv, PollMatchesSlots
<1>5. \A i \in Slot \ {s} : Live(i) => link'[fd[i]] = link[fd[i]]
  BY <1>1, <1>2, <1>4
<1>6. SocketsFresh'
  BY <1>1, <1>3, <1>4, <1>5
     DEF SocketsFresh, ConnectedIsEstablished, ConnectingIsWatched, Live
<1>7. RefsOld
  BY <1>3, <1>5, References DEF RefsOld, Live
<1> QED
  BY <1>6, <1>7

\* A connection was made, or is being closed.
LEMMA MoveFresh ==
  ASSUME SlotInv, CallsTypeOK, SocketsFresh, NEW s \in Slot, NEW st, fd' = fd, link' = link,
         pollout' = pollout, state' = [state EXCEPT ![s] = st],
         \/ st = COTCP_CLOSING
         \/ st = COTCP_CONNECTED /\ link[fd[s]] = "up"
  PROVE  SocketsFresh' /\ RefsOld
<1>1. state'[s] = st /\ \A i \in Slot \ {s} : state'[i] = state[i]
  BY DEF SlotInv, SlotsTypeOK
<1>2. SocketsFresh'
  BY <1>1 DEF SocketsFresh, ConnectedIsEstablished, ConnectingIsWatched
<1>3. RefsOld
  BY <1>1, References DEF RefsOld
<1> QED
  BY <1>2, <1>3

\* The conclusion of every step.
LEMMA FreshAgain ==
  ASSUME CallsTypeOK, Fresh, SocketsFresh', RefsOld, NEW calls \in Seq(Frame),
         CallsFresh(calls),
         \/ agenda' = calls \o agenda
         \/ agenda # <<>> /\ Then(calls)
         \/ agenda' = calls
         \/ agenda' = agenda,
         \/ events' = events
         \/ events # <<>> /\ events' = Tail(events)
  PROVE  Fresh'
<1>1. Range(agenda') \subseteq Range(agenda) \cup Range(calls)
  BY StackRange
<1>2. Range(events') \subseteq Range(events)
  BY TailRange DEF CallsTypeOK
<1> QED
  BY <1>1, <1>2, RefsKept DEF Fresh

LEMMA UserFresh ==
  ASSUME RoomToSpare, IInv, Fresh, User
  PROVE  Fresh'
<1> USE DEF IInv
<1>w. {"read", "write", "error", "close", "closing", "closing_force", "callback"} = Work
  BY DEF Work
<1>e. <<>> \in Seq(Frame) /\ CallsFresh(<<>>)
  BY NoCallFresh
<1>f. SocketsFresh
  BY DEF Fresh
<1>1. CASE open_fails
  <2>1. UNCHANGED <<state, fd, link, pollout, events, agenda>>
    BY <1>1 DEF open_fails, kernel
  <2>2. SocketsFresh' /\ RefsOld
    BY <1>f, <2>1, SameFresh
  <2> QED
    BY <1>e, <2>1, <2>2, FreshAgain
<1>2. CASE cotcp_listen
  <2> PICK s \in Slot, f \in Fd : /\ ~Live(s) /\ link[f] = "none" /\ s \notin Referenced
                                  /\ Attach(s, f, COTCP_LISTEN, "listen", {"connect"})
                                  /\ UNCHANGED <<events, agenda>>
    BY <1>2 DEF cotcp_listen, _cotcp_alloc, Opens
  <2>1. SocketsFresh' /\ RefsOld
    BY <1>f, AttachFresh
  <2> QED
    BY <1>e, <2>1, FreshAgain
<1>3. CASE cotcp_connect_inprogress
  <2> PICK s \in Slot, f \in Fd :
        /\ ~Live(s) /\ link[f] = "none" /\ s \notin Referenced
        /\ Attach(s, f, COTCP_CONNECTING, "pending", {"connect", "error"})
        /\ UNCHANGED <<events, agenda>>
    BY <1>3 DEF cotcp_connect_inprogress, _cotcp_alloc, Opens
  <2>1. SocketsFresh' /\ RefsOld
    BY <1>f, AttachFresh
  <2> QED
    BY <1>e, <2>1, FreshAgain
<1>4. CASE cotcp_connect_immediate
  <2> PICK s \in Slot, f \in Fd :
        /\ ~Live(s) /\ link[f] = "none" /\ s \notin Referenced
        /\ Attach(s, f, COTCP_CONNECTED, "up", {"connect", "error"})
        /\ agenda' = (IF "connect" \in Callbacks THEN Call("callback", s) ELSE <<>>) \o agenda
        /\ events' = events
    BY <1>4 DEF cotcp_connect_immediate, _cotcp_alloc, Opens
  <2>1. SocketsFresh' /\ RefsOld
    BY <1>f, AttachFresh
  <2> DEFINE calls == IF "connect" \in Callbacks THEN Call("callback", s) ELSE <<>>
  <2>2. Call("callback", s) \in Seq(Frame) /\ CallsFresh(Call("callback", s))
    BY <1>w, CallType, CallFresh
  <2>3. calls \in Seq(Frame) /\ CallsFresh(calls) /\ agenda' = calls \o agenda
    BY <1>e, <2>2
  <2> HIDE DEF calls
  <2> QED
    BY <2>1, <2>3, FreshAgain
<1>5. ASSUME NEW s \in Slot, cotcp_send(s) PROVE Fresh'
  <2>1. /\ state[s] = COTCP_CONNECTED /\ pollout' = pollout \cup {fd[s]}
        /\ agenda' = Call("write", s) \o agenda
        /\ UNCHANGED <<state, fd, link, events>>
    BY <1>5 DEF cotcp_send
  <2>2. SocketsFresh' /\ RefsOld
    BY <1>f, <2>1, SameFresh
  <2>3. Call("write", s) \in Seq(Frame) /\ CallsFresh(Call("write", s))
    <3>1. state'[s] # COTCP_CONNECTING
      BY <2>1
    <3> QED
      BY <1>w, <3>1, CallType, CallFresh
  <2> QED
    BY <2>1, <2>2, <2>3, FreshAgain
<1>6. ASSUME NEW s \in Slot, NEW force \in BOOLEAN, cotcp_close(s, force) PROVE Fresh'
  <2> DEFINE first == IF sendbuf[s] > 0 THEN Call("write", s) ELSE <<>>
             op == IF force THEN "closing_force" ELSE "closing"
  <2>1. UNCHANGED <<state, fd, link, pollout, events>> /\ agenda' = first \o Call(op, s) \o agenda
    BY <1>6 DEF cotcp_close, slots, kernel
  <2>2. SocketsFresh' /\ RefsOld
    BY <1>f, <2>1, SameFresh
  <2>3. first \in Seq(Frame) /\ CallsFresh(first)
    <3>1. CASE sendbuf[s] > 0
      <4>1. state'[s] # COTCP_CONNECTING
        BY <2>1, <3>1 DEF SlotInv, UnsentIsWatched
      <4>2. Call("write", s) \in Seq(Frame) /\ CallsFresh(Call("write", s))
        BY <1>w, <4>1, CallType, CallFresh
      <4> QED
        BY <3>1, <4>2
    <3>2. CASE ~(sendbuf[s] > 0)
      BY <1>e, <3>2
    <3> QED
      BY <3>1, <3>2
  <2>4. op \in Work /\ op # "write"
    BY <1>w
  <2> HIDE DEF op, first
  <2>5. Call(op, s) \in Seq(Frame) /\ CallsFresh(Call(op, s))
    BY <2>4, CallType, CallFresh
  <2>6. first \o Call(op, s) \in Seq(Frame) /\ CallsFresh(first \o Call(op, s))
    BY <2>3, <2>5, TwoCallsFresh
  <2> QED
    BY <2>1, <2>2, <2>6, FreshAgain
<1>7. ASSUME NEW s \in Slot, NEW fn \in Callbacks, cotcp_on(s, fn) PROVE Fresh'
  <2>1. UNCHANGED <<state, fd, link, pollout, events, agenda>>
    BY <1>7 DEF cotcp_on, kernel
  <2>2. SocketsFresh' /\ RefsOld
    BY <1>f, <2>1, SameFresh
  <2> QED
    BY <1>e, <2>1, <2>2, FreshAgain
<1> QED
  BY <1>1, <1>2, <1>3, <1>4, <1>5, <1>6, <1>7 DEF User
LEMMA HandlerFresh ==
  ASSUME IInv, Fresh, NEW s \in Slot,
         \/ closing(s) \/ closing_now(s) \/ _cotcp_close(s)
         \/ _cotcp_handle_error(s) \/ _cotcp_handle_read(s) \/ _cotcp_handle_write(s)
  PROVE  Fresh'
<1> USE DEF IInv
<1>w. {"read", "write", "error", "close", "closing", "closing_force", "callback"} = Work
  BY DEF Work
<1>e. <<>> \in Seq(Frame) /\ CallsFresh(<<>>)
  BY NoCallFresh
<1>f. SocketsFresh
  BY DEF Fresh
<1>c. /\ Call("close", s) \in Seq(Frame) /\ CallsFresh(Call("close", s))
      /\ Call("error", s) \in Seq(Frame) /\ CallsFresh(Call("error", s))
  BY <1>w, CallType, CallFresh
<1>n. \A fn : /\ Notify(fn, s) \in Seq(Frame) /\ CallsFresh(Notify(fn, s))
              /\ Notify(fn, s) \o Call("close", s) \in Seq(Frame)
              /\ CallsFresh(Notify(fn, s) \o Call("close", s))
  <2> SUFFICES ASSUME NEW fn
               PROVE  /\ Notify(fn, s) \in Seq(Frame) /\ CallsFresh(Notify(fn, s))
                      /\ Notify(fn, s) \o Call("close", s) \in Seq(Frame)
                      /\ CallsFresh(Notify(fn, s) \o Call("close", s))
    OBVIOUS
  <2>1. Notify(fn, s) \in Seq(Frame) /\ CallsFresh(Notify(fn, s))
    BY NotifyType, NotifyFresh
  <2>2. CallsFresh(Notify(fn, s) \o Call("close", s))
    BY <1>c, <2>1, TwoCallsFresh
  <2> QED
    BY <1>c, <2>1, <2>2
\* The steps that change nothing but the call stack.
<1>1. ASSUME NEW calls \in Seq(Frame), CallsFresh(calls), agenda # <<>>, Then(calls),
             UNCHANGED <<state, fd, link, pollout, events>>
      PROVE  Fresh'
  <2>1. SocketsFresh' /\ RefsOld
    BY <1>1, <1>f, SameFresh
  <2> QED
    BY <1>1, <2>1, FreshAgain
\* The steps that return from a frame.
<1>2. ASSUME agenda # <<>>, Return, events' = events, SocketsFresh' /\ RefsOld
      PROVE  Fresh'
  <2>1. Then(<<>>)
    BY <1>2 DEF Return
  <2> QED
    BY <1>2, <1>e, <2>1, FreshAgain
<1>3. CASE closing(s)
  <2>1. /\ agenda # <<>> /\ Return /\ events' = events
        /\ UNCHANGED <<fd, link, pollout>> /\ state' = [state EXCEPT ![s] = COTCP_CLOSING]
    BY <1>3 DEF closing, Doing, kernel
  <2>2. SocketsFresh' /\ RefsOld
    BY <1>f, <2>1, MoveFresh
  <2> QED
    BY <1>2, <2>1, <2>2
<1>4. CASE closing_now(s)
  <2>1. /\ agenda # <<>> /\ Then(Notify("close", s) \o Call("close", s))
        /\ UNCHANGED <<state, fd, link, pollout, events>>
    BY <1>4 DEF closing_now, Doing, slots, kernel
  <2> QED
    BY <1>n, <1>1, <2>1
<1>5. CASE _cotcp_close(s)
  <2>1. agenda # <<>> /\ Return
    BY <1>5 DEF _cotcp_close, Doing
  <2>2. CASE Live(s)
    <3>1. Detach(s)
      BY <1>5, <2>2 DEF _cotcp_close
    <3>2. SocketsFresh' /\ RefsOld /\ events' = events
      BY <1>f, <2>2, <3>1, DetachFresh DEF Detach
    <3> QED
      BY <1>2, <2>1, <3>2
  <2>3. CASE ~Live(s)
    <3>1. UNCHANGED <<state, fd, link, pollout, events>>
      BY <1>5, <2>3 DEF _cotcp_close, slots, kernel
    <3>2. SocketsFresh' /\ RefsOld
      BY <1>f, <3>1, SameFresh
    <3> QED
      BY <1>2, <2>1, <3>1, <3>2
  <2> QED
    BY <2>2, <2>3
<1>6. CASE _cotcp_handle_error(s)
  <2> DEFINE calls == IF Live(s) THEN Notify("error", s) \o Call("close", s) ELSE <<>>
  <2>1. calls \in Seq(Frame) /\ CallsFresh(calls)
    BY <1>n, <1>e
  <2>2. agenda # <<>> /\ Then(calls) /\ UNCHANGED <<state, fd, link, pollout, events>>
    BY <1>6 DEF _cotcp_handle_error, Doing, slots, kernel
  <2> HIDE DEF calls
  <2> QED
    BY <1>1, <2>1, <2>2
<1>7. CASE _cotcp_handle_read(s)
  <2>1. agenda # <<>> /\ UNCHANGED <<state, fd, link, pollout, events>>
    BY <1>7 DEF _cotcp_handle_read, Doing, slots, kernel
  <2>2. \/ Then(<<>>)
        \/ Then(Call("error", s))
        \/ Then(Notify("close", s) \o Call("close", s))
        \/ Then(Notify("recv", s))
    <3>1. CASE ~Live(s)
      BY <1>7, <3>1 DEF _cotcp_handle_read, Return
    <3>2. CASE Live(s)
      <4>1. ReadResults(s) \subseteq {"again", "data", "eof", "error"}
        BY DEF ReadResults
      <4>2. PICK r \in {"again", "data", "eof", "error"} :
              Then(CASE r = "again" -> <<>>
                     [] r = "error" -> Call("error", s)
                     [] r = "eof" -> Notify("close", s) \o Call("close", s)
                     [] r = "data" -> IF state[s] = COTCP_CONNECTED THEN Notify("recv", s)
                                      ELSE <<>>)
        BY <1>7, <3>2, <4>1 DEF _cotcp_handle_read
      <4> QED
        BY <4>2
    <3> QED
      BY <3>1, <3>2
  <2>3. PICK calls \in Seq(Frame) : CallsFresh(calls) /\ Then(calls)
    BY <1>c, <1>e, <1>n, <2>2
  <2> QED
    BY <1>1, <2>1, <2>3
<1>8. CASE write_some(s)
  <2>1. /\ agenda # <<>> /\ Return /\ UNCHANGED <<state, fd, link, pollout, events>>
    BY <1>8 DEF write_some, Doing, kernel
  <2>2. SocketsFresh' /\ RefsOld
    BY <1>f, <2>1, SameFresh
  <2> QED
    BY <1>2, <2>1, <2>2
<1>9. CASE write_fails(s)
  <2>1. /\ agenda # <<>> /\ Then(Call("error", s))
        /\ UNCHANGED <<state, fd, link, pollout, events>>
    BY <1>9 DEF write_fails, Doing, slots, kernel
  <2> QED
    BY <1>c, <1>1, <2>1
<1>10. CASE write_all(s)
  <2>1. Doing("write", s) /\ agenda # <<>> /\ Return /\ Live(s) /\ _cotcp_check_closing(s)
    BY <1>10 DEF write_all, Doing
  <2>2. CASE state[s] = COTCP_CLOSING
    <3>1. Detach(s)
      BY <2>1, <2>2 DEF _cotcp_check_closing
    <3>2. SocketsFresh' /\ RefsOld /\ events' = events
      BY <1>f, <2>1, <3>1, DetachFresh DEF Detach
    <3> QED
      BY <1>2, <2>1, <3>2
  <2>3. CASE state[s] # COTCP_CLOSING
    <3>1. /\ pollout' = pollout \ {fd[s]} /\ UNCHANGED <<state, fd, link, events>>
      BY <2>1, <2>3 DEF _cotcp_check_closing
    <3>2. state[s] # COTCP_CONNECTING
      <4>1. agenda \in Seq(Frame) /\ agenda # <<>> /\ Head(agenda) = [op |-> "write", s |-> s]
        BY <2>1 DEF CallsTypeOK, Doing
      <4>2. 1 \in DOMAIN agenda /\ agenda[1] = [op |-> "write", s |-> s]
        BY <4>1
      <4>3. [op |-> "write", s |-> s] \in Range(agenda)
        BY <4>2 DEF Range
      <4> QED
        BY <4>3 DEF Fresh, WritesFresh
    <3>3. \A i \in Slot : state[i] = COTCP_CONNECTING => fd[i] # fd[s]
      BY <2>1, <3>2 DEF SlotInv, PollMatchesSlots, Live
    <3>4. SocketsFresh' /\ RefsOld
      BY <1>f, <3>1, <3>3, SameFresh
    <3> QED
      BY <1>2, <2>1, <3>1, <3>4
  <2> QED
    BY <2>2, <2>3
<1>11. CASE write_invalid(s)
  <2>1. /\ agenda # <<>> /\ Return /\ UNCHANGED <<state, fd, link, pollout, events>>
    BY <1>11 DEF write_invalid, Doing, slots, kernel
  <2>2. SocketsFresh' /\ RefsOld
    BY <1>f, <2>1, SameFresh
  <2> QED
    BY <1>2, <2>1, <2>2
<1> QED
  BY <1>3, <1>4, <1>5, <1>6, <1>7, <1>8, <1>9, <1>10, <1>11 DEF _cotcp_handle_write
LEMMA EventFresh ==
  ASSUME RoomToSpare, IInv, Fresh, NEW s \in Slot, _coios_process_event(s)
  PROVE  Fresh'
<1> USE DEF IInv
<1>w. {"read", "write", "error", "close", "closing", "closing_force", "callback"} = Work
  BY DEF Work
<1>e. <<>> \in Seq(Frame) /\ CallsFresh(<<>>)
  BY NoCallFresh
<1>f. SocketsFresh
  BY DEF Fresh
<1>n. \A fn : Notify(fn, s) \in Seq(Frame) /\ CallsFresh(Notify(fn, s))
  BY NotifyType, NotifyFresh
<1>1. CASE accept_fails(s) \/ accept_refuses(s) \/ event_invalid(s)
  <2>1. /\ events # <<>> /\ events' = Tail(events)
        /\ UNCHANGED <<state, fd, link, pollout, agenda>>
    BY <1>1 DEF accept_fails, accept_refuses, event_invalid, Event, slots, kernel
  <2>2. SocketsFresh' /\ RefsOld
    BY <1>f, <2>1, SameFresh
  <2> QED
    BY <1>e, <2>1, <2>2, FreshAgain
<1>2. CASE _cotcp_handle_accept(s)
  <2> PICK c \in Slot, f \in Fd :
        /\ ~Live(c) /\ link[f] = "none" /\ c \notin Referenced
        /\ Attach(c, f, COTCP_CONNECTED, "up", {})
        /\ agenda' = IF "connect" \in fns[s] THEN Call("callback", c) ELSE <<>>
    BY <1>2 DEF _cotcp_handle_accept, _cotcp_alloc, Opens
  <2>1. SocketsFresh' /\ RefsOld
    BY <1>f, AttachFresh
  <2>2. Call("callback", c) \in Seq(Frame) /\ CallsFresh(Call("callback", c))
    BY <1>w, CallType, CallFresh
  <2>3. PICK calls \in Seq(Frame) : CallsFresh(calls) /\ agenda' = calls
    BY <1>e, <2>2
  <2>4. events # <<>> /\ events' = Tail(events)
    BY <1>2 DEF _cotcp_handle_accept, Event
  <2> QED
    BY <2>1, <2>3, <2>4, FreshAgain
<1>3. CASE connect_fails(s)
  <2>1. /\ events # <<>> /\ events' = Tail(events)
        /\ agenda' = Notify("error", s) \o Call("close", s)
        /\ UNCHANGED <<state, fd, link, pollout>>
    BY <1>3 DEF connect_fails, Event, slots, kernel
  <2>2. SocketsFresh' /\ RefsOld
    BY <1>f, <2>1, SameFresh
  <2>3. Call("close", s) \in Seq(Frame) /\ CallsFresh(Call("close", s))
    BY <1>w, CallType, CallFresh
  <2>4. /\ Notify("error", s) \o Call("close", s) \in Seq(Frame)
        /\ CallsFresh(Notify("error", s) \o Call("close", s))
    <3>1. Notify("error", s) \in Seq(Frame) /\ CallsFresh(Notify("error", s))
      BY <1>n
    <3> QED
      BY <2>3, <3>1, TwoCallsFresh
  <2> QED
    BY <2>1, <2>2, <2>4, FreshAgain
<1>4. CASE _cotcp_handle_connect(s)
  <2>1. /\ events # <<>> /\ events' = Tail(events) /\ Head(events).s = s
        /\ state[s] = COTCP_CONNECTING /\ link[fd[s]] # "refused"
        /\ state' = [state EXCEPT ![s] = COTCP_CONNECTED]
        /\ agenda' = Notify("connect", s)
        /\ UNCHANGED <<fd, link, pollout>>
    BY <1>4 DEF _cotcp_handle_connect, Event, kernel
  <2>2. link[fd[s]] # "pending"
    <3>1. 1 \in DOMAIN events /\ events[1].s = s
      BY <2>1 DEF CallsTypeOK
    <3>2. events[1] \in Range(events)
      BY <3>1 DEF Range
    <3> QED
      BY <2>1, <3>1, <3>2 DEF Fresh, EventsFresh
  <2>3. link[fd[s]] # "listen"
    BY <1>f, <2>1 DEF SocketsFresh
  <2>4. fd[s] \in Fd /\ link[fd[s]] \in Links /\ link[fd[s]] # "none"
    <3>1. Live(s)
      BY <2>1 DEF Live
    <3>2. fd[s] \in Fd /\ ptr[fd[s]] = s
      BY <3>1 DEF SlotInv, PollMatchesSlots
    <3>3. link[fd[s]] # "none"
      BY <3>2, TcpAssumption DEF SlotInv, PollMatchesSlots
    <3> QED
      BY <3>2, <3>3 DEF SlotInv, SlotsTypeOK
  <2>5. link[fd[s]] = "up"
    BY <2>1, <2>2, <2>3, <2>4 DEF Links
  <2>6. SocketsFresh' /\ RefsOld
    BY <1>f, <2>1, <2>5, MoveFresh
  <2> QED
    BY <1>n, <2>1, <2>6, FreshAgain
<1>5. CASE event_io(s)
  <2> DEFINE Part(op) == IF op \in Head(events).flags THEN Call(op, s) ELSE <<>>
  <2>1. /\ events # <<>> /\ events' = Tail(events)
        /\ agenda' = Part("read") \o Part("write") \o Part("error")
        /\ UNCHANGED <<state, fd, link, pollout>>
        /\ state'[s] # COTCP_CONNECTING
    BY <1>5 DEF event_io, Event, slots, kernel
  <2>2. \A op \in Work : Part(op) \in Seq(Frame) /\ CallsFresh(Part(op))
    BY <1>e, <2>1, CallType, CallFresh
  <2> HIDE DEF Part
  <2>3. /\ Part("read") \in Seq(Frame) /\ Part("write") \in Seq(Frame)
        /\ Part("error") \in Seq(Frame)
        /\ CallsFresh(Part("read")) /\ CallsFresh(Part("write")) /\ CallsFresh(Part("error"))
    BY <1>w, <2>2
  <2>4. /\ Part("read") \o Part("write") \in Seq(Frame)
        /\ CallsFresh(Part("read") \o Part("write"))
    BY <2>3, TwoCallsFresh
  <2>5. /\ Part("read") \o Part("write") \o Part("error") \in Seq(Frame)
        /\ CallsFresh(Part("read") \o Part("write") \o Part("error"))
    <3> DEFINE first == Part("read") \o Part("write")
               last == Part("error")
    <3>1. /\ first \in Seq(Frame) /\ CallsFresh(first)
          /\ last \in Seq(Frame) /\ CallsFresh(last)
      BY <2>3, <2>4
    <3> HIDE DEF first, last
    <3>2. first \o last \in Seq(Frame) /\ CallsFresh(first \o last)
      BY <3>1, TwoCallsFresh
    <3> QED
      BY <3>2 DEF first, last
  <2>6. SocketsFresh' /\ RefsOld
    BY <1>f, <2>1, SameFresh
  <2> QED
    BY <2>1, <2>5, <2>6, FreshAgain
<1> QED
  BY <1>1, <1>2, <1>3, <1>4, <1>5 DEF _coios_process_event

LEMMA WaitFresh ==
  ASSUME IInv, Fresh, copoll_wait
  PROVE  Fresh'
<1>1. UNCHANGED <<state, fd, link, pollout, agenda>>
  BY DEF copoll_wait, slots, kernel
<1>2. PICK n \in 1 .. MaxEvents :
        \E order \in [1 .. n -> {f \in Fd : ptr[f] # NoSlot}] :
          \E flags \in [1 .. n -> SUBSET Parts] :
            /\ \A i \in 1 .. n : flags[i] \in Reports(order[i])
            /\ events' = [i \in 1 .. n |-> [s |-> ptr[order[i]], flags |-> flags[i]]]
  BY DEF copoll_wait
<1>3. PICK order \in [1 .. n -> {f \in Fd : ptr[f] # NoSlot}], flags \in [1 .. n -> SUBSET Parts] :
        /\ \A i \in 1 .. n : flags[i] \in Reports(order[i])
        /\ events' = [i \in 1 .. n |-> [s |-> ptr[order[i]], flags |-> flags[i]]]
  BY <1>2
<1>4. \A i \in 1 .. n : link[order[i]] # "pending"
  BY <1>3 DEF Reports
<1>5. \A f \in Fd : ptr[f] # NoSlot => fd[ptr[f]] = f
  BY DEF IInv, SlotInv, PollMatchesSlots
<1>6. \A i \in 1 .. n : events'[i].s = ptr[order[i]] /\ fd[ptr[order[i]]] = order[i]
  BY <1>3, <1>5
<1>7. Range(events') = {events'[i] : i \in 1 .. n}
  BY <1>3 DEF Range
<1>8. EventsFresh'
  BY <1>1, <1>4, <1>6, <1>7 DEF EventsFresh
<1>9. SocketsFresh' /\ WritesFresh'
  BY <1>1 DEF Fresh, SocketsFresh, ConnectedIsEstablished, ConnectingIsWatched, WritesFresh
<1> QED
  BY <1>8, <1>9 DEF Fresh

LEMMA ConnectionFresh ==
  ASSUME IInv, Fresh, NEW f \in Fd, connection_made(f)
  PROVE  Fresh'
<1>1. PICK result \in {"up", "refused"} : link' = [link EXCEPT ![f] = result]
  BY DEF connection_made
<1>2. /\ link[f] = "pending" /\ UNCHANGED <<state, fd, pollout, events, agenda>>
  BY DEF connection_made, slots
<1>3. \A s \in Slot : Live(s) => fd[s] \in Fd
  BY DEF IInv, SlotInv, PollMatchesSlots
<1>4. \A s \in Slot : Live(s) => link'[fd[s]] = IF fd[s] = f THEN result ELSE link[fd[s]]
  BY <1>1, <1>3 DEF IInv, SlotInv, SlotsTypeOK
<1>5. SocketsFresh'
  BY <1>2, <1>4
     DEF Fresh, SocketsFresh, ConnectedIsEstablished, ConnectingIsWatched, Live
<1>6. RefsOld
  <2>1. Referenced \subseteq Slot
    BY References DEF IInv
  <2> QED
    BY <1>2, <1>4, <2>1 DEF RefsOld, Live
<1>7. <<>> \in Seq(Frame) /\ CallsFresh(<<>>)
  BY NoCallFresh
<1> QED
  BY <1>2, <1>5, <1>6, <1>7, FreshAgain DEF IInv

LEMMA NextFresh ==
  ASSUME RoomToSpare, IInv, Fresh, [Next]_vars
  PROVE  Fresh'
<1>1. ASSUME UNCHANGED <<state, fd, link, pollout, events>>,
             agenda' = agenda \/ (agenda # <<>> /\ Return)
      PROVE  Fresh'
  <2>1. SocketsFresh' /\ RefsOld
    BY <1>1, SameFresh DEF Fresh
  <2>2. <<>> \in Seq(Frame) /\ CallsFresh(<<>>)
    BY NoCallFresh
  <2>3. agenda' = agenda \/ (agenda # <<>> /\ Then(<<>>))
    BY <1>1 DEF Return
  <2> QED
    BY <1>1, <2>1, <2>2, <2>3, FreshAgain DEF IInv
<1>2. CASE User
  BY <1>2, UserFresh
<1>3. CASE user_returns
  BY <1>1, <1>3, DoingStack DEF user_returns, slots, kernel
<1>4. CASE copoll_wait
  BY <1>4, WaitFresh
<1>5. ASSUME NEW s \in Slot, Handlers(s) PROVE Fresh'
  BY <1>5, HandlerFresh, EventFresh DEF Handlers
<1>6. ASSUME NEW f \in Fd, connection_made(f) PROVE Fresh'
  BY <1>6, ConnectionFresh
<1>7. CASE UNCHANGED vars
  BY <1>1, <1>7 DEF vars, slots, kernel
<1> QED
  BY <1>2, <1>3, <1>4, <1>5, <1>6, <1>7 DEF Next

LEMMA InitFresh == Init => Fresh
<1> SUFFICES ASSUME Init PROVE Fresh
  OBVIOUS
<1>1. SocketsFresh
  BY DEF Init, SocketsFresh, ConnectedIsEstablished, ConnectingIsWatched
<1>2. EventsFresh /\ WritesFresh
  BY DEF Init, EventsFresh, WritesFresh, Range
<1> QED
  BY <1>1, <1>2 DEF Fresh

-----------------------------------------------------------------------------
(* Theorems.                                                               *)

\* The inductive invariant holds: whatever user code calls from inside callbacks and
\* whatever stale events are delivered, the pool and the poll set stay consistent.
THEOREM Invariance == Spec => []IInv
BY InitInv, NextInv, PTL DEF Spec

\* Type correctness of the service.
THEOREM TypeCorrect == Spec => []TypeOK
<1>1. IInv => TypeOK
  BY DEF IInv, SlotInv, SlotsTypeOK, CallsTypeOK, TypeOK, Links, Report, Frame
<1> QED
  BY <1>1, Invariance, PTL

\* Every open descriptor has exactly one slot, which is the one epoll reports for it:
\* _cotcp_alloc, _cotcp_close and _cotcp_free leak none and close none twice.
THEOREM PollMatchesSlotsAlways == Spec => []PollMatchesSlots
<1>1. IInv => PollMatchesSlots
  BY DEF IInv, SlotInv
<1> QED
  BY <1>1, Invariance, PTL

\* Data that cotcp_send could not send at once is watched for.
THEOREM UnsentIsWatchedAlways == Spec => []UnsentIsWatched
<1>1. IInv => UnsentIsWatched
  BY DEF IInv, SlotInv
<1> QED
  BY <1>1, Invariance, PTL

\* cotcp_close leaves a socket in the closing state only with data to send.
THEOREM ClosingHasDataAlways == Spec => []ClosingHasData
<1>1. IInv => ClosingHasData
  BY DEF IInv, SlotInv
<1> QED
  BY <1>1, Invariance, PTL

\* A slot in use keeps its descriptor, and its state only moves on.
THEOREM LifeCycleAlways == Spec => LifeCycle
<1>1. IInv /\ [Next]_vars => [\A s \in Slot : Live(s) /\ Live(s)' => SlotStep(s)]_vars
  BY NextSlots DEF SlotsStep
<1> QED
  BY <1>1, Invariance, PTL DEF Spec, LifeCycle

\* When no slot is handed out that stale work refers to, a slot is connected only once its
\* connection is made: the events that _coios_process_event takes for the answer of
\* connect are the answer.
THEOREM ConnectedIsEstablishedAlways == RoomToSpare => (Spec => []ConnectedIsEstablished)
<1> SUFFICES ASSUME RoomToSpare PROVE Spec => []ConnectedIsEstablished
  OBVIOUS
<1>1. IInv /\ Fresh /\ [Next]_vars => Fresh'
  BY NextFresh
<1>2. Spec => []Fresh
  BY <1>1, InitFresh, Invariance, PTL DEF Spec
<1>3. Fresh => ConnectedIsEstablished
  BY DEF Fresh, SocketsFresh
<1> QED
  BY <1>2, <1>3, PTL

\* Under the same condition no write in progress for an earlier connection turns off the
\* EPOLLOUT that reports the outcome of connect.
THEOREM ConnectingIsWatchedAlways == RoomToSpare => (Spec => []ConnectingIsWatched)
<1> SUFFICES ASSUME RoomToSpare PROVE Spec => []ConnectingIsWatched
  OBVIOUS
<1>1. IInv /\ Fresh /\ [Next]_vars => Fresh'
  BY NextFresh
<1>2. Spec => []Fresh
  BY <1>1, InitFresh, Invariance, PTL DEF Spec
<1>3. Fresh => ConnectingIsWatched
  BY DEF Fresh, SocketsFresh
<1> QED
  BY <1>2, <1>3, PTL
=============================================================================
