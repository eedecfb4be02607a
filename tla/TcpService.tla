----------------------------- MODULE TcpService -----------------------------
(***************************************************************************)
(* The TCP half of src/co_ioservice.c on the epoll wrapper of              *)
(* src/co_poll.h and the loop of src/co_loop.c: a pool of COTCP_SIZE       *)
(* slots, the poll set, the batch of events epoll_wait returned, and the   *)
(* callbacks, which run inside the handlers and call the service again.    *)
(*                                                                         *)
(* One thread runs it all; "agenda" is its call stack, the next thing to   *)
(* do first. A handler that calls back, or calls another handler, puts the *)
(* call in front of what it has left to do itself. The kernel's part       *)
(* (which descriptors are ready, what read and write return) is chosen.    *)
(***************************************************************************)
EXTENDS Integers, Sequences, FiniteSets

CONSTANTS COTCP_SIZE,    \* slots of the pool
          MaxFd,         \* descriptors of the process
          MaxSend,       \* bound: pieces of data in a send buffer
          MaxEvents,     \* events epoll_wait returns at most
          MaxNest,       \* bound: user code that deep in callbacks makes no call
          Callbacks,     \* the callbacks the user registers
          RoomToSpare    \* the pool never hands out a slot that work not yet done
                         \* refers to (it is far from full)

ASSUME TcpAssumption ==
  /\ COTCP_SIZE \in Nat \ {0}
  /\ MaxFd \in Nat /\ MaxSend \in Nat /\ MaxEvents \in Nat /\ MaxNest \in Nat
  /\ Callbacks \subseteq {"connect", "recv", "error", "close"}
  /\ RoomToSpare \in BOOLEAN

COTCP_INVALID == 0
COTCP_NEW == 1
COTCP_LISTEN == 2
COTCP_CONNECTING == 3
COTCP_CONNECTED == 4
COTCP_CLOSING == 5

Slot == 0 .. COTCP_SIZE - 1
NoSlot == COTCP_SIZE
Fd == 1 .. MaxFd
NoFd == 0

VARIABLES state,    \* tcp->state
          fd,       \* tcp->fd
          sendbuf,  \* pieces of data in tcp->sendbuf
          fns,      \* the callbacks that are set
          tcpid,    \* ss->tcpid, modulo COTCP_SIZE
          link,     \* kernel: what each descriptor is
          ptr,      \* kernel: data.ptr of each descriptor in the poll set
          pollout,  \* kernel: the descriptors registered with EPOLLOUT
          events,   \* events of the batch that are not processed yet
          agenda    \* the call stack

slots == <<state, fd, sendbuf, fns, tcpid>>
kernel == <<link, ptr, pollout>>
vars == <<slots, kernel, events, agenda>>

-----------------------------------------------------------------------------
(* The call stack.                                                         *)

Work == {"read", "write", "error", "close", "closing", "closing_force", "callback"}
Parts == {"read", "write", "error"}

Call(op, s) == <<[op |-> op, s |-> s]>>

\* The thread is about to do op on slot s.
Doing(op, s) == agenda # <<>> /\ Head(agenda) = [op |-> op, s |-> s]

\* It goes on with calls, then with what was left to do.
Then(calls) == agenda' = calls \o Tail(agenda)

Return == Then(<<>>)

\* if (tcp->fn) tcp->fn(tcp)
Notify(fn, s) == IF fn \in fns[s] THEN Call("callback", s) ELSE <<>>

Nesting == Cardinality({i \in DOMAIN agenda : agenda[i].op = "callback"})

\* User code runs in callbacks and, between batches, in timers and the idle callback.
UserCode == /\ IF agenda = <<>> THEN events = <<>> ELSE Head(agenda).op = "callback"
            /\ Nesting <= MaxNest

-----------------------------------------------------------------------------
(* The pool and the poll set.                                              *)

Live(s) == state[s] # COTCP_INVALID

\* Distance from the slot at which the next scan begins.
Turn(s) == (s - tcpid + COTCP_SIZE) % COTCP_SIZE

Referenced == {agenda[i].s : i \in DOMAIN agenda} \cup {events[i].s : i \in DOMAIN events}

\* Faulty variant: the scan takes the next slot whatever its state.
_cotcp_alloc_Unchecked(s) == Turn(s) = 0

\* The scan takes the first invalid slot.
_cotcp_alloc(s) ==
  /\ ~Live(s)
  /\ \A i \in Slot : ~Live(i) => Turn(s) <= Turn(i)
  /\ RoomToSpare => s \notin Referenced

PoolFull == \A s \in Slot : Live(s)

\* The kernel gives out the lowest free descriptor.
Opens(f) == /\ link[f] = "none"
            /\ \A g \in Fd : link[g] = "none" => f <= g

\* Faulty variant: the index of the next scan is not reduced.
Attach_NoModulo(s, f, st, kind, cbs) ==
  /\ state' = [state EXCEPT ![s] = st]
  /\ fd' = [fd EXCEPT ![s] = f]
  /\ fns' = [fns EXCEPT ![s] = cbs \cap Callbacks]
  /\ tcpid' = s + 1
  /\ link' = [link EXCEPT ![f] = kind]
  /\ ptr' = [ptr EXCEPT ![f] = s]
  /\ pollout' = IF st = COTCP_CONNECTING THEN pollout \cup {f} ELSE pollout
  /\ UNCHANGED sendbuf

\* Faulty variant: EPOLLOUT is not requested for a connection that is being made.
Attach_NotWatched(s, f, st, kind, cbs) ==
  /\ state' = [state EXCEPT ![s] = st]
  /\ fd' = [fd EXCEPT ![s] = f]
  /\ fns' = [fns EXCEPT ![s] = cbs \cap Callbacks]
  /\ tcpid' = (s + 1) % COTCP_SIZE
  /\ link' = [link EXCEPT ![f] = kind]
  /\ ptr' = [ptr EXCEPT ![f] = s]
  /\ pollout' = pollout
  /\ UNCHANGED sendbuf

\* Slot s becomes the owner of f, which is registered for reading and, while a
\* connection is being made, for writing.
Attach(s, f, st, kind, cbs) ==
  /\ state' = [state EXCEPT ![s] = st]
  /\ fd' = [fd EXCEPT ![s] = f]
  /\ fns' = [fns EXCEPT ![s] = cbs \cap Callbacks]
  /\ tcpid' = (s + 1) % COTCP_SIZE
  /\ link' = [link EXCEPT ![f] = kind]
  /\ ptr' = [ptr EXCEPT ![f] = s]
  /\ pollout' = IF st = COTCP_CONNECTING THEN pollout \cup {f} ELSE pollout
  /\ UNCHANGED sendbuf

\* copoll_del, close and _cotcp_free.
Detach(s) ==
  /\ state' = [state EXCEPT ![s] = COTCP_INVALID]
  /\ fd' = [fd EXCEPT ![s] = NoFd]
  /\ sendbuf' = [sendbuf EXCEPT ![s] = 0]
  /\ fns' = [fns EXCEPT ![s] = {}]
  /\ link' = [link EXCEPT ![fd[s]] = "none"]
  /\ ptr' = [ptr EXCEPT ![fd[s]] = NoSlot]
  /\ pollout' = pollout \ {fd[s]}
  /\ UNCHANGED <<tcpid, events>>

-----------------------------------------------------------------------------
Init == /\ state = [s \in Slot |-> COTCP_INVALID]
        /\ fd = [s \in Slot |-> NoFd]
        /\ sendbuf = [s \in Slot |-> 0]
        /\ fns = [s \in Slot |-> {}]
        /\ tcpid = 0
        /\ link = [f \in Fd |-> "none"]
        /\ ptr = [f \in Fd |-> NoSlot]
        /\ pollout = {}
        /\ events = <<>>
        /\ agenda = <<>>

(* What user code calls.                                                   *)

\* No address could be bound or connected to: the slot is released again.
open_fails == \E s \in Slot :
  /\ UserCode
  /\ _cotcp_alloc(s)
  /\ tcpid' = (s + 1) % COTCP_SIZE
  /\ UNCHANGED <<state, fd, sendbuf, fns, kernel, events, agenda>>

cotcp_listen == \E s \in Slot, f \in Fd :
  /\ UserCode
  /\ _cotcp_alloc(s)
  /\ Opens(f)
  /\ Attach(s, f, COTCP_LISTEN, "listen", {"connect"})
  /\ UNCHANGED <<events, agenda>>

cotcp_connect_inprogress == \E s \in Slot, f \in Fd :
  /\ UserCode
  /\ _cotcp_alloc(s)
  /\ Opens(f)
  /\ Attach(s, f, COTCP_CONNECTING, "pending", {"connect", "error"})
  /\ UNCHANGED <<events, agenda>>

\* connect succeeds at once: fn_connect is called before cotcp_connect returns.
cotcp_connect_immediate == \E s \in Slot, f \in Fd :
  /\ UserCode
  /\ _cotcp_alloc(s)
  /\ Opens(f)
  /\ Attach(s, f, COTCP_CONNECTED, "up", {"connect", "error"})
  /\ agenda' = (IF "connect" \in Callbacks THEN Call("callback", s) ELSE <<>>) \o agenda
  /\ UNCHANGED events

\* Faulty variant: the caller counts on the attempt to send at once.
cotcp_send_NotWatched(s) ==
  /\ UserCode
  /\ state[s] = COTCP_CONNECTED
  /\ sendbuf[s] < MaxSend
  /\ sendbuf' = [sendbuf EXCEPT ![s] = @ + 1]
  /\ agenda' = Call("write", s) \o agenda
  /\ UNCHANGED <<state, fd, fns, tcpid, kernel, events>>

\* The data is put into the buffer, EPOLLOUT requested and a first attempt made.
cotcp_send(s) ==
  /\ UserCode
  /\ state[s] = COTCP_CONNECTED
  /\ sendbuf[s] < MaxSend
  /\ sendbuf' = [sendbuf EXCEPT ![s] = @ + 1]
  /\ pollout' = pollout \cup {fd[s]}
  /\ agenda' = Call("write", s) \o agenda
  /\ UNCHANGED <<state, fd, fns, tcpid, link, ptr, events>>

\* Data in the buffer is tried once more before the decision.
cotcp_close(s, force) ==
  /\ UserCode
  /\ state[s] > COTCP_NEW /\ state[s] < COTCP_CLOSING
  /\ agenda' = (IF sendbuf[s] > 0 THEN Call("write", s) ELSE <<>>)
                 \o Call(IF force THEN "closing_force" ELSE "closing", s) \o agenda
  /\ UNCHANGED <<slots, kernel, events>>

\* cotcp_on_error, cotcp_on_recv and cotcp_on_close.
cotcp_on(s, fn) ==
  /\ UserCode
  /\ fn \in Callbacks \ ({"connect"} \cup fns[s])
  /\ state[s] > (IF fn = "recv" THEN COTCP_LISTEN ELSE COTCP_NEW)
  /\ state[s] < COTCP_CLOSING
  /\ fns' = [fns EXCEPT ![s] = @ \cup {fn}]
  /\ UNCHANGED <<state, fd, sendbuf, tcpid, kernel, events, agenda>>

user_returns ==
  /\ \E s \in Slot : Doing("callback", s)
  /\ Return
  /\ UNCHANGED <<slots, kernel, events>>

User == \/ open_fails
        \/ cotcp_listen
        \/ cotcp_connect_inprogress
        \/ cotcp_connect_immediate
        \/ \E s \in Slot : \/ cotcp_send(s)
                           \/ \E force \in BOOLEAN : cotcp_close(s, force)
                           \/ \E fn \in Callbacks : cotcp_on(s, fn)

-----------------------------------------------------------------------------
(* The handlers.                                                           *)

\* Faulty variant: the attempt to send may have emptied the buffer.
closing_NoRetest(s) ==
  /\ Doing("closing", s)
  /\ state' = [state EXCEPT ![s] = COTCP_CLOSING]
  /\ Return
  /\ UNCHANGED <<fd, sendbuf, fns, tcpid, kernel, events>>

\* cotcp_close after the attempt to send: the socket stays open for the data left.
closing(s) ==
  /\ Doing("closing", s)
  /\ sendbuf[s] > 0
  /\ state' = [state EXCEPT ![s] = COTCP_CLOSING]
  /\ Return
  /\ UNCHANGED <<fd, sendbuf, fns, tcpid, kernel, events>>

closing_now(s) ==
  /\ Doing("closing_force", s) \/ (Doing("closing", s) /\ sendbuf[s] = 0)
  /\ Then(Notify("close", s) \o Call("close", s))
  /\ UNCHANGED <<slots, kernel, events>>

_cotcp_close(s) ==
  /\ Doing("close", s)
  /\ Return
  /\ IF Live(s) THEN Detach(s) ELSE UNCHANGED <<slots, kernel, events>>

_cotcp_handle_error(s) ==
  /\ Doing("error", s)
  /\ Then(IF Live(s) THEN Notify("error", s) \o Call("close", s) ELSE <<>>)
  /\ UNCHANGED <<slots, kernel, events>>

\* What read may return; a descriptor that is not a connection cannot be read.
ReadResults(s) == CASE link[fd[s]] = "up" -> {"again", "data", "eof", "error"}
                    [] link[fd[s]] = "pending" -> {"again"}
                    [] OTHER -> {"error"}

\* Data is dropped unless the socket is connected.
_cotcp_handle_read(s) ==
  /\ Doing("read", s)
  /\ IF Live(s)
     THEN \E r \in ReadResults(s) :
            Then(CASE r = "again" -> <<>>
                   [] r = "error" -> Call("error", s)
                   [] r = "eof" -> Notify("close", s) \o Call("close", s)
                   [] r = "data" -> IF state[s] = COTCP_CONNECTED THEN Notify("recv", s)
                                    ELSE <<>>)
     ELSE Return
  /\ UNCHANGED <<slots, kernel, events>>

\* write takes only some of the data, or none (EAGAIN).
write_some(s) ==
  /\ Doing("write", s)
  /\ Live(s) /\ sendbuf[s] > 0
  /\ \E n \in 1 .. sendbuf[s] : /\ link[fd[s]] = "up" \/ n = sendbuf[s]
                                /\ sendbuf' = [sendbuf EXCEPT ![s] = n]
  /\ Return
  /\ UNCHANGED <<state, fd, fns, tcpid, kernel, events>>

write_fails(s) ==
  /\ Doing("write", s)
  /\ Live(s) /\ sendbuf[s] > 0
  /\ Then(Call("error", s))
  /\ UNCHANGED <<slots, kernel, events>>

\* Faulty variant: EPOLLOUT is turned off, the socket is not closed.
_cotcp_check_closing_Forgets(s) ==
  /\ pollout' = pollout \ {fd[s]}
  /\ sendbuf' = [sendbuf EXCEPT ![s] = 0]
  /\ UNCHANGED <<state, fd, fns, tcpid, link, ptr, events>>

\* All data is sent.
_cotcp_check_closing(s) ==
  IF state[s] = COTCP_CLOSING
  THEN Detach(s)
  ELSE /\ pollout' = pollout \ {fd[s]}
       /\ sendbuf' = [sendbuf EXCEPT ![s] = 0]
       /\ UNCHANGED <<state, fd, fns, tcpid, link, ptr, events>>

write_all(s) ==
  /\ Doing("write", s)
  /\ Live(s)
  /\ sendbuf[s] > 0 => link[fd[s]] = "up"
  /\ _cotcp_check_closing(s)
  /\ Return

write_invalid(s) ==
  /\ Doing("write", s)
  /\ ~Live(s)
  /\ Return
  /\ UNCHANGED <<slots, kernel, events>>

_cotcp_handle_write(s) ==
  write_some(s) \/ write_fails(s) \/ write_all(s) \/ write_invalid(s)

-----------------------------------------------------------------------------
(* The events.                                                             *)

\* What epoll_wait may report of f. An error raises all the flags that are asked for.
Reports(f) ==
  LET Asked == {"read", "error"} \cup (IF f \in pollout THEN {"write"} ELSE {})
  IN  CASE link[f] = "listen" -> {{"read"}}
        [] link[f] = "up" -> {Asked} \cup (SUBSET (Asked \ {"error"}) \ {{}})
        [] link[f] = "refused" -> {Asked}
        [] OTHER -> {}

copoll_wait ==
  /\ agenda = <<>> /\ events = <<>>
  /\ \E n \in 1 .. MaxEvents :
     \E order \in [1 .. n -> {f \in Fd : ptr[f] # NoSlot}] :
       /\ \A i, j \in 1 .. n : order[i] = order[j] => i = j
       /\ \E flags \in [1 .. n -> SUBSET Parts] :
            /\ \A i \in 1 .. n : flags[i] \in Reports(order[i])
            /\ events' = [i \in 1 .. n |-> [s |-> ptr[order[i]], flags |-> flags[i]]]
  /\ UNCHANGED <<slots, kernel, agenda>>

\* The next event of the batch belongs to slot s.
Event(s) == agenda = <<>> /\ events # <<>> /\ Head(events).s = s

accept_fails(s) ==
  /\ Event(s)
  /\ state[s] = COTCP_LISTEN
  /\ events' = Tail(events)
  /\ UNCHANGED <<slots, kernel, agenda>>

\* "too many tcp": the new descriptor is closed at once.
accept_refuses(s) ==
  /\ Event(s)
  /\ state[s] = COTCP_LISTEN
  /\ PoolFull
  /\ \E f \in Fd : Opens(f)
  /\ events' = Tail(events)
  /\ UNCHANGED <<slots, kernel, agenda>>

\* fn_connect of the listening socket is called with the new one.
_cotcp_handle_accept(s) ==
  /\ Event(s)
  /\ state[s] = COTCP_LISTEN
  /\ \E c \in Slot, f \in Fd :
       /\ _cotcp_alloc(c)
       /\ Opens(f)
       /\ Attach(c, f, COTCP_CONNECTED, "up", {})
       /\ agenda' = IF "connect" \in fns[s] THEN Call("callback", c) ELSE <<>>
       /\ events' = Tail(events)

connect_fails(s) ==
  /\ Event(s)
  /\ state[s] = COTCP_CONNECTING
  /\ link[fd[s]] = "refused"
  /\ events' = Tail(events)
  /\ agenda' = Notify("error", s) \o Call("close", s)
  /\ UNCHANGED <<slots, kernel>>

\* Faulty variant: SO_ERROR is not looked at.
_cotcp_handle_connect_NoCheck(s) ==
  /\ Event(s)
  /\ state[s] = COTCP_CONNECTING
  /\ state' = [state EXCEPT ![s] = COTCP_CONNECTED]
  /\ fns' = [fns EXCEPT ![s] = @ \ {"error"}]
  /\ events' = Tail(events)
  /\ agenda' = Notify("connect", s)
  /\ UNCHANGED <<fd, sendbuf, tcpid, kernel>>

\* SO_ERROR is 0. The error callback given to cotcp_connect is dropped.
_cotcp_handle_connect(s) ==
  /\ Event(s)
  /\ state[s] = COTCP_CONNECTING
  /\ link[fd[s]] # "refused"
  /\ state' = [state EXCEPT ![s] = COTCP_CONNECTED]
  /\ fns' = [fns EXCEPT ![s] = @ \ {"error"}]
  /\ events' = Tail(events)
  /\ agenda' = Notify("connect", s)
  /\ UNCHANGED <<fd, sendbuf, tcpid, kernel>>

\* The slot was released after epoll_wait returned.
event_invalid(s) ==
  /\ Event(s)
  /\ ~Live(s)
  /\ events' = Tail(events)
  /\ UNCHANGED <<slots, kernel, agenda>>

event_io(s) ==
  /\ Event(s)
  /\ state[s] \in {COTCP_NEW, COTCP_CONNECTED, COTCP_CLOSING}
  /\ LET Part(op) == IF op \in Head(events).flags THEN Call(op, s) ELSE <<>>
     IN  agenda' = Part("read") \o Part("write") \o Part("error")
  /\ events' = Tail(events)
  /\ UNCHANGED <<slots, kernel>>

_coios_process_event(s) ==
  \/ accept_fails(s) \/ accept_refuses(s) \/ _cotcp_handle_accept(s)
  \/ connect_fails(s) \/ _cotcp_handle_connect(s)
  \/ event_invalid(s) \/ event_io(s)

\* The kernel finishes a connection attempt.
connection_made(f) ==
  /\ link[f] = "pending"
  /\ \E result \in {"up", "refused"} : link' = [link EXCEPT ![f] = result]
  /\ UNCHANGED <<slots, ptr, pollout, events, agenda>>

-----------------------------------------------------------------------------
Handlers(s) == \/ closing(s) \/ closing_now(s)
               \/ _cotcp_close(s)
               \/ _cotcp_handle_error(s)
               \/ _cotcp_handle_read(s)
               \/ _cotcp_handle_write(s)
               \/ _coios_process_event(s)

Next == \/ User
        \/ user_returns
        \/ copoll_wait
        \/ \E s \in Slot : Handlers(s)
        \/ \E f \in Fd : connection_made(f)

Spec == Init /\ [][Next]_vars

\* The kernel keeps reporting that the socket of slot s can be written.
reports_writable(s) ==
  copoll_wait /\ \E i \in DOMAIN events' : /\ events'[i].s = s
                                          /\ "write" \in events'[i].flags

\* Every callback makes finitely many calls and returns, and the thread goes on with the
\* loop. A peer that goes on reading makes the socket writable again and again, until a
\* write takes all that is left.
FairSpec == /\ Spec
            /\ \A n \in 1 .. MaxNest + 1 : SF_vars(user_returns /\ Nesting = n)
            /\ WF_vars(\E s \in Slot : Handlers(s))
            /\ \A s \in Slot : SF_vars(reports_writable(s)) /\ SF_vars(write_all(s))

-----------------------------------------------------------------------------
TypeOK ==
  /\ state \in [Slot -> COTCP_INVALID .. COTCP_CLOSING]
  /\ fd \in [Slot -> Fd \cup {NoFd}]
  /\ sendbuf \in [Slot -> 0 .. MaxSend]
  /\ fns \in [Slot -> SUBSET Callbacks]
  /\ tcpid \in Slot
  /\ link \in [Fd -> {"none", "listen", "pending", "up", "refused"}]
  /\ ptr \in [Fd -> Slot \cup {NoSlot}]
  /\ pollout \subseteq Fd
  /\ events \in Seq([s : Slot, flags : SUBSET Parts])
  /\ agenda \in Seq([op : Work, s : Slot])

\* The open descriptors are those of the live slots, each registered in the poll set
\* with the address of its own slot: none leaks, none is shared or closed twice, and no
\* event arrives for a slot that does not own the descriptor.
PollMatchesSlots ==
  /\ \A s \in Slot : Live(s) => fd[s] \in Fd /\ ptr[fd[s]] = s
  /\ \A f \in Fd : IF link[f] = "none" THEN ptr[f] = NoSlot
                   ELSE ptr[f] \in Slot /\ Live(ptr[f]) /\ fd[ptr[f]] = f

\* Data that is not sent yet belongs to a connection that is watched for writing: no
\* data is left in a buffer that nothing will empty.
UnsentIsWatched ==
  \A s \in Slot : sendbuf[s] > 0 => /\ state[s] \in {COTCP_CONNECTED, COTCP_CLOSING}
                                    /\ fd[s] \in pollout

\* A socket that is being closed gracefully still has data to send: it is closed by the
\* write that sends the last of it, so none stays in this state for good.
ClosingHasData == \A s \in Slot : state[s] = COTCP_CLOSING => sendbuf[s] > 0

\* A step that keeps the descriptor of slot s and at most moves its state on.
SlotStep(s) ==
  /\ fd'[s] = fd[s]
  /\ state'[s] # state[s] => <<state[s], state'[s]>> \in
       {<<COTCP_CONNECTING, COTCP_CONNECTED>>, <<COTCP_CONNECTED, COTCP_CLOSING>>}

\* Between its allocation and its release a slot keeps its descriptor, and its state only
\* goes from connecting to connected and from connected to closing: neither a listening
\* socket nor one without a connection is ever left in the closing state.
LifeCycle == [][\A s \in Slot : Live(s) /\ Live(s)' => SlotStep(s)]_vars

\* A slot only becomes connected when its connection exists, as fn_tcp_connect_t says
\* in co_ioservice.h.
ConnectedIsEstablished ==
  \A s \in Slot : state[s] = COTCP_CONNECTED => link[fd[s]] = "up"

\* A connection that is being made is watched for writing, which is how epoll reports
\* that it was made: otherwise fn_connect is not called on success, as co_ioservice.h:100
\* says it is.
ConnectingIsWatched ==
  \A s \in Slot : state[s] = COTCP_CONNECTING => fd[s] \in pollout

\* A socket that is being closed gracefully is closed in the end.
GracefulCloseEnds == \A s \in Slot : state[s] = COTCP_CLOSING ~> state[s] # COTCP_CLOSING
=============================================================================
