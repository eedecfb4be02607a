----------------------------- MODULE IoService -----------------------------
(***************************************************************************)
(* The UDP and FD halves of src/co_ioservice.c on the epoll wrapper of     *)
(* src/co_poll.h. An FD object lends the service a descriptor of the       *)
(* user's, for as long as it is bound; a UDP object owns its descriptor.   *)
(*                                                                         *)
(* As in TcpService one thread runs everything, "agenda" is its call stack *)
(* and the callbacks call the service again. The datagrams a UDP socket    *)
(* could not send yet are a linked list, followed here pointer by pointer. *)
(***************************************************************************)
EXTENDS Integers, Sequences, FiniteSets

CONSTANTS COUDP_SIZE, COFD_SIZE,    \* slots of the two pools
          MaxFd,         \* descriptors of the process
          UserFd,        \* those the user opened itself
          Buffer,        \* bound: the buffers of datagrams
          MaxSend,       \* bound: pieces of data in the send buffer of an FD
          MaxEvents,     \* events epoll_wait returns at most
          MaxNest,       \* bound: user code that deep in callbacks makes no call
          Callbacks,     \* the callbacks the user registers
          UserData       \* what the user may have stored in fd->ud of an FD object

COUDP_INVALID == 0
COUDP_NEW == 1
COUDP_CLOSING == 2
COFD_INVALID == 0
COFD_NEW == 1
COFD_BIND == 2

Udp == 0 .. COUDP_SIZE - 1
Cofd == COUDP_SIZE .. COUDP_SIZE + COFD_SIZE - 1
Object == Udp \cup Cofd
NoObject == COUDP_SIZE + COFD_SIZE
Wild == NoObject + 1      \* a pointer that is not the address of an object
Fd == 1 .. MaxFd
NoFd == 0
Nil == "nil"

ASSUME IoAssumption ==
  /\ COUDP_SIZE \in Nat \ {0} /\ COFD_SIZE \in Nat \ {0}
  /\ MaxFd \in Nat /\ MaxSend \in Nat /\ MaxEvents \in Nat /\ MaxNest \in Nat
  /\ UserFd \subseteq 1 .. MaxFd
  /\ Callbacks \subseteq {"recv", "error", "close"}
  /\ UserData \subseteq Object \cup {Wild} /\ UserData # {}
  /\ IsFiniteSet(Buffer) /\ Nil \notin Buffer

VARIABLES state,     \* object->state
          fd,        \* object->fd
          fns,       \* the callbacks that are set
          udpid,     \* ss->udpid, modulo COUDP_SIZE
          fdid,      \* ss->fdid, modulo COFD_SIZE
          head,      \* udp->sendlist.head
          tail,      \* udp->sendlist.tail
          next,      \* wb->next of every buffer
          used,      \* the buffers that are allocated
          sendbuf,   \* pieces of data in fd->sendbuf
          opened,    \* kernel: the descriptors that are open
          ptr,       \* kernel: data.ptr of each descriptor in the poll set
          pollout,   \* kernel: the descriptors registered with EPOLLOUT
          events,    \* events of the batch that are not processed yet
          agenda     \* the call stack

pools == <<state, fd, fns, udpid, fdid>>
sendlist == <<head, tail, next, used>>
kernel == <<opened, ptr, pollout>>
vars == <<pools, sendlist, sendbuf, kernel, events, agenda>>

-----------------------------------------------------------------------------
(* The call stack.                                                         *)

Work == {"read", "write", "error", "close", "closing", "closing_force", "callback"}
Parts == {"read", "write", "error"}

Call(op, o) == <<[op |-> op, o |-> o]>>

\* The thread is about to do op on object o.
Doing(op, o) == agenda # <<>> /\ Head(agenda) = [op |-> op, o |-> o]

\* It goes on with calls, then with what was left to do.
Then(calls) == agenda' = calls \o Tail(agenda)

Return == Then(<<>>)

\* if (udp->fn) udp->fn(udp)
Notify(fn, o) == IF fn \in fns[o] THEN Call("callback", o) ELSE <<>>

Nesting == Cardinality({i \in DOMAIN agenda : agenda[i].op = "callback"})

\* User code runs in callbacks and, between batches, in timers and the idle callback.
UserCode == /\ IF agenda = <<>> THEN events = <<>> ELSE Head(agenda).op = "callback"
            /\ Nesting <= MaxNest

-----------------------------------------------------------------------------
(* The pools, the poll set and the send lists.                             *)

Live(o) == state[o] # COUDP_INVALID

\* The scan of a pool takes the first invalid object from where the last one ended.
_coudp_alloc(u) ==
  LET Turn(i) == (i - udpid + COUDP_SIZE) % COUDP_SIZE
  IN  ~Live(u) /\ \A i \in Udp : ~Live(i) => Turn(u) <= Turn(i)

_cofd_alloc(o) ==
  LET Turn(i) == (i - COUDP_SIZE - fdid + COFD_SIZE) % COFD_SIZE
  IN  ~Live(o) /\ \A i \in Cofd : ~Live(i) => Turn(o) <= Turn(i)

\* The kernel gives out the lowest free descriptor.
Opens(f) == f \notin opened /\ \A g \in Fd : g \notin opened => f <= g

\* Faulty variant: the callbacks and the state are cleared, the poll set is not.
Clear_StillPolled(o) ==
  /\ state' = [state EXCEPT ![o] = COUDP_INVALID]
  /\ fd' = [fd EXCEPT ![o] = NoFd]
  /\ fns' = [fns EXCEPT ![o] = {}]
  /\ pollout' = pollout \ {fd[o]}
  /\ UNCHANGED <<udpid, fdid, events, ptr>>

\* Object o becomes live with descriptor f, registered for reading.
Attach(o, f, st) ==
  /\ state' = [state EXCEPT ![o] = st]
  /\ fd' = [fd EXCEPT ![o] = f]
  /\ opened' = opened \cup {f}
  /\ ptr' = [ptr EXCEPT ![f] = o]
  /\ UNCHANGED <<fns, sendlist, sendbuf, pollout, events, agenda>>

\* What copoll_del and the memset of _coudp_free and _cofd_free clear.
Clear(o) ==
  /\ state' = [state EXCEPT ![o] = COUDP_INVALID]
  /\ fd' = [fd EXCEPT ![o] = NoFd]
  /\ fns' = [fns EXCEPT ![o] = {}]
  /\ ptr' = [ptr EXCEPT ![fd[o]] = NoObject]
  /\ pollout' = pollout \ {fd[o]}
  /\ UNCHANGED <<udpid, fdid, events>>

\* The buffers from b on.
Chain(b) == LET at[k \in 0 .. Cardinality(Buffer)] ==
                  IF k = 0 THEN b
                  ELSE IF at[k - 1] = Nil THEN Nil ELSE next[at[k - 1]]
                last == Cardinality({k \in DOMAIN at : at[k] # Nil})
            IN  [k \in 1 .. last |-> at[k - 1]]

Listed(u) == {Chain(head[u])[k] : k \in DOMAIN Chain(head[u])}

\* Every buffer of the list is released; its fields are dead, and next is Nil here.
_udpbuffer_free(u) ==
  /\ used' = used \ Listed(u)
  /\ next' = [b \in Buffer |-> IF b \in Listed(u) THEN Nil ELSE next[b]]
  /\ head' = [head EXCEPT ![u] = Nil]
  /\ tail' = [tail EXCEPT ![u] = Nil]

\* Faulty variant: the list keeps its old tail.
_udpbuffer_add_OldTail(u, b) ==
  /\ used' = used \cup {b}
  /\ IF head[u] = Nil
     THEN /\ head' = [head EXCEPT ![u] = b]
          /\ tail' = [tail EXCEPT ![u] = b]
          /\ next' = [next EXCEPT ![b] = Nil]
     ELSE /\ next' = [next EXCEPT ![b] = Nil, ![tail[u]] = b]
          /\ UNCHANGED <<head, tail>>

\* A new buffer b at the end of the list.
_udpbuffer_add(u, b) ==
  /\ used' = used \cup {b}
  /\ tail' = [tail EXCEPT ![u] = b]
  /\ IF head[u] = Nil
     THEN /\ head' = [head EXCEPT ![u] = b]
          /\ next' = [next EXCEPT ![b] = Nil]
     ELSE /\ next' = [next EXCEPT ![b] = Nil, ![tail[u]] = b]
          /\ UNCHANGED head

\* Faulty variant: the descriptor is closed as that of a socket is.
DetachFd_Closes(o) == /\ Clear(o)
                      /\ sendbuf' = [sendbuf EXCEPT ![o] = 0]
                      /\ opened' = opened \ {fd[o]}
                      /\ UNCHANGED sendlist

\* _coudp_close: the descriptor is closed as well.
DetachUdp(u) == /\ Clear(u)
                /\ opened' = opened \ {fd[u]}
                /\ _udpbuffer_free(u)
                /\ UNCHANGED sendbuf

\* cofd_unbind: the descriptor stays open.
DetachFd(o) == /\ Clear(o)
               /\ sendbuf' = [sendbuf EXCEPT ![o] = 0]
               /\ UNCHANGED <<opened, sendlist>>

-----------------------------------------------------------------------------
Init == /\ state = [o \in Object |-> COUDP_INVALID]
        /\ fd = [o \in Object |-> NoFd]
        /\ fns = [o \in Object |-> {}]
        /\ udpid = 0
        /\ fdid = 0
        /\ head = [u \in Udp |-> Nil]
        /\ tail = [u \in Udp |-> Nil]
        /\ next = [b \in Buffer |-> Nil]
        /\ used = {}
        /\ sendbuf = [o \in Cofd |-> 0]
        /\ opened = UserFd
        /\ ptr = [f \in Fd |-> NoObject]
        /\ pollout = {}
        /\ events = <<>>
        /\ agenda = <<>>

(* What user code calls.                                                   *)

\* No address could be bound: the slot is released again.
coudp_new_fails == \E u \in Udp :
  /\ UserCode
  /\ _coudp_alloc(u)
  /\ udpid' = (u + 1) % COUDP_SIZE
  /\ UNCHANGED <<state, fd, fns, fdid, sendlist, sendbuf, kernel, events, agenda>>

coudp_new == \E u \in Udp, f \in Fd :
  /\ UserCode
  /\ _coudp_alloc(u)
  /\ Opens(f)
  /\ Attach(u, f, COUDP_NEW)
  /\ udpid' = (u + 1) % COUDP_SIZE
  /\ UNCHANGED fdid

\* The datagram is put into the list, EPOLLOUT requested and a first attempt made.
coudp_send(u) == \E b \in Buffer :
  /\ UserCode
  /\ state[u] = COUDP_NEW
  /\ b \notin used
  /\ _udpbuffer_add(u, b)
  /\ pollout' = pollout \cup {fd[u]}
  /\ agenda' = Call("write", u) \o agenda
  /\ UNCHANGED <<pools, sendbuf, opened, ptr, events>>

\* Datagrams in the list are tried once more before the decision.
coudp_close(u, force) ==
  /\ UserCode
  /\ state[u] \in COUDP_NEW .. COUDP_CLOSING - 1
  /\ agenda' = (IF head[u] # Nil THEN Call("write", u) ELSE <<>>)
                 \o Call(IF force THEN "closing_force" ELSE "closing", u) \o agenda
  /\ UNCHANGED <<pools, sendlist, sendbuf, kernel, events>>

\* A descriptor of the user's that is not bound to another object.
cofd_bind == \E o \in Cofd, f \in UserFd :
  /\ UserCode
  /\ _cofd_alloc(o)
  /\ ptr[f] = NoObject
  /\ Attach(o, f, COFD_BIND)
  /\ fdid' = (o - COUDP_SIZE + 1) % COFD_SIZE
  /\ UNCHANGED udpid

cofd_unbind(o) ==
  /\ UserCode
  /\ state[o] = COFD_BIND
  /\ DetachFd(o)
  /\ UNCHANGED agenda

\* copoll_request_write of an FD object registers fd->ud, which the user may set at any
\* time, in place of the object.
RequestWrite(o, enable) ==
  /\ pollout' = IF enable THEN pollout \cup {fd[o]} ELSE pollout \ {fd[o]}
  /\ \E ud \in UserData : ptr' = [ptr EXCEPT ![fd[o]] = ud]

\* Faulty variant: the caller counts on the attempt to send at once.
cofd_send_NotWatched(o) ==
  /\ UserCode
  /\ state[o] = COFD_BIND
  /\ sendbuf[o] < MaxSend
  /\ sendbuf' = [sendbuf EXCEPT ![o] = @ + 1]
  /\ agenda' = Call("write", o) \o agenda
  /\ UNCHANGED <<pools, sendlist, kernel, events>>

cofd_send(o) ==
  /\ UserCode
  /\ state[o] = COFD_BIND
  /\ sendbuf[o] < MaxSend
  /\ sendbuf' = [sendbuf EXCEPT ![o] = @ + 1]
  /\ RequestWrite(o, TRUE)
  /\ agenda' = Call("write", o) \o agenda
  /\ UNCHANGED <<pools, sendlist, opened, events>>

\* The user sets callback fn of an object.
SetCallback(o, fn) ==
  /\ UserCode
  /\ fn \notin fns[o]
  /\ fns' = [fns EXCEPT ![o] = @ \cup {fn}]
  /\ UNCHANGED <<state, fd, udpid, fdid, sendlist, sendbuf, kernel, events, agenda>>

\* coudp_on_error, coudp_on_recv and coudp_on_close; cofd_on_error and so on.
coudp_on(u, fn) == state[u] = COUDP_NEW /\ SetCallback(u, fn)
cofd_on(o, fn) == state[o] = COFD_BIND /\ SetCallback(o, fn)

user_returns ==
  /\ \E o \in Object : Doing("callback", o)
  /\ Return
  /\ UNCHANGED <<pools, sendlist, sendbuf, kernel, events>>

User == \/ coudp_new_fails
        \/ coudp_new
        \/ cofd_bind
        \/ \E u \in Udp : coudp_send(u) \/ \E force \in BOOLEAN : coudp_close(u, force)
        \/ \E o \in Cofd : cofd_unbind(o) \/ cofd_send(o)
        \/ \E u \in Udp, fn \in Callbacks : coudp_on(u, fn)
        \/ \E o \in Cofd, fn \in Callbacks : cofd_on(o, fn)

-----------------------------------------------------------------------------
(* The handlers.                                                           *)

\* Faulty variant: the attempt to send may have emptied the list.
closing_NoRetest(u) ==
  /\ Doing("closing", u)
  /\ state' = [state EXCEPT ![u] = COUDP_CLOSING]
  /\ Return
  /\ UNCHANGED <<fd, fns, udpid, fdid, sendlist, sendbuf, kernel, events>>

\* coudp_close after the attempt to send: the socket stays for the datagrams left.
closing(u) ==
  /\ Doing("closing", u)
  /\ head[u] # Nil
  /\ state' = [state EXCEPT ![u] = COUDP_CLOSING]
  /\ Return
  /\ UNCHANGED <<fd, fns, udpid, fdid, sendlist, sendbuf, kernel, events>>

closing_now(u) ==
  /\ Doing("closing_force", u) \/ (Doing("closing", u) /\ head[u] = Nil)
  /\ Then(Notify("close", u) \o Call("close", u))
  /\ UNCHANGED <<pools, sendlist, sendbuf, kernel, events>>

\* _coudp_close or, for an FD, cofd_unbind from a handler.
_co_close(o) ==
  /\ Doing("close", o)
  /\ Return
  /\ IF ~Live(o) THEN UNCHANGED <<pools, sendlist, sendbuf, kernel, events>>
     ELSE IF o \in Udp THEN DetachUdp(o) ELSE DetachFd(o)

\* The callback for errors, then the close.
HandleError(o) ==
  /\ Doing("error", o)
  /\ Then(IF Live(o) THEN Notify("error", o) \o Call("close", o) ELSE <<>>)
  /\ UNCHANGED <<pools, sendlist, sendbuf, kernel, events>>

_coudp_handle_error(u) == HandleError(u)
_cofd_handle_error(o) == HandleError(o)

\* There is nothing to read, an error, the end, or data. An empty datagram is taken for
\* the end.
HandleRead(o) ==
  /\ Doing("read", o)
  /\ IF Live(o)
     THEN \/ Return
          \/ Then(Call("error", o))
          \/ Then(Notify("close", o) \o Call("close", o))
          \/ Then(Notify("recv", o))
     ELSE Return
  /\ UNCHANGED <<pools, sendlist, sendbuf, kernel, events>>

_coudp_handle_read(u) == HandleRead(u)
_cofd_handle_read(o) == HandleRead(o)

\* The list is empty: the tail is cleared, then the socket closed or EPOLLOUT dropped.
_coudp_check_closing(u) ==
  IF state[u] = COUDP_CLOSING
  THEN DetachUdp(u)
  ELSE /\ tail' = [tail EXCEPT ![u] = Nil]
       /\ pollout' = pollout \ {fd[u]}
       /\ UNCHANGED <<pools, head, next, used, sendbuf, opened, ptr, events>>

\* Faulty variant: the buffer is released while it is still the first of the list.
datagram_sent_Stays(u) ==
  /\ Doing("write", u)
  /\ Live(u) /\ head[u] # Nil
  /\ used' = used \ {head[u]}
  /\ UNCHANGED <<pools, head, tail, next, sendbuf, kernel, events, agenda>>

\* One turn of the loop of _coudp_handle_write: sendto takes the first datagram.
datagram_sent(u) ==
  /\ Doing("write", u)
  /\ Live(u) /\ head[u] # Nil
  /\ head' = [head EXCEPT ![u] = next[head[u]]]
  /\ next' = [next EXCEPT ![head[u]] = Nil]
  /\ used' = used \ {head[u]}
  /\ UNCHANGED <<pools, tail, sendbuf, kernel, events, agenda>>

\* sendto takes nothing (EAGAIN) or a part of the first datagram, which stays.
datagram_waits(u) ==
  /\ Doing("write", u)
  /\ Live(u) /\ head[u] # Nil
  /\ Return
  /\ UNCHANGED <<pools, sendlist, sendbuf, kernel, events>>

datagrams_done(u) ==
  /\ Doing("write", u)
  /\ Live(u) /\ head[u] = Nil
  /\ _coudp_check_closing(u)
  /\ Return

\* write takes some of an FD's data, or none.
fd_write_some(o) ==
  /\ Doing("write", o)
  /\ sendbuf[o] > 0
  /\ \E n \in 1 .. sendbuf[o] : sendbuf' = [sendbuf EXCEPT ![o] = n]
  /\ Return
  /\ UNCHANGED <<pools, sendlist, kernel, events>>

fd_write_all(o) ==
  /\ Doing("write", o)
  /\ Live(o)
  /\ sendbuf' = [sendbuf EXCEPT ![o] = 0]
  /\ RequestWrite(o, FALSE)
  /\ Return
  /\ UNCHANGED <<pools, sendlist, opened, events>>

write_fails(o) ==
  /\ Doing("write", o)
  /\ Live(o)
  /\ IF o \in Udp THEN head[o] # Nil ELSE sendbuf[o] > 0
  /\ Then(Call("error", o))
  /\ UNCHANGED <<pools, sendlist, sendbuf, kernel, events>>

write_invalid(o) ==
  /\ Doing("write", o)
  /\ ~Live(o)
  /\ Return
  /\ UNCHANGED <<pools, sendlist, sendbuf, kernel, events>>

_coudp_handle_write(u) == datagram_sent(u) \/ datagram_waits(u) \/ datagrams_done(u)

_cofd_handle_write(o) == fd_write_some(o) \/ fd_write_all(o)

-----------------------------------------------------------------------------
(* The events.                                                             *)

\* What epoll_wait may report of f: what it is registered for, and errors.
Reports(f) ==
  SUBSET ({"read", "error"} \cup (IF f \in pollout THEN {"write"} ELSE {})) \ {{}}

\* An event with a pointer that is no object has no defined behaviour: none is reported.
copoll_wait ==
  /\ agenda = <<>> /\ events = <<>>
  /\ \E n \in 1 .. MaxEvents :
     \E order \in [1 .. n -> {f \in Fd : ptr[f] \in Object}] :
       /\ \A i, j \in 1 .. n : order[i] = order[j] => i = j
       /\ \E flags \in [1 .. n -> SUBSET Parts] :
            /\ \A i \in 1 .. n : flags[i] \in Reports(order[i])
            /\ events' = [i \in 1 .. n |-> [o |-> ptr[order[i]], flags |-> flags[i]]]
  /\ UNCHANGED <<pools, sendlist, sendbuf, kernel, agenda>>

\* Faulty variant: the states of the UDP objects are told by their own names.
Handled_NewOnly(o) ==
  IF o \in Udp THEN state[o] = COUDP_NEW ELSE state[o] = COFD_BIND

\* The states whose events are handled: those of a UDP object are tested by the names of
\* the FD's states.
Handled(o) ==
  IF o \in Udp THEN state[o] \in {COFD_BIND, COFD_NEW} ELSE state[o] = COFD_BIND

_coios_process_event(o) ==
  /\ agenda = <<>> /\ events # <<>> /\ Head(events).o = o
  /\ LET Part(op) == IF Handled(o) /\ op \in Head(events).flags THEN Call(op, o) ELSE <<>>
     IN  agenda' = Part("read") \o Part("write") \o Part("error")
  /\ events' = Tail(events)
  /\ UNCHANGED <<pools, sendlist, sendbuf, kernel>>

-----------------------------------------------------------------------------
Handlers(o) == \/ _co_close(o)
               \/ write_fails(o)
               \/ write_invalid(o)
               \/ _coios_process_event(o)

UdpHandlers(u) == \/ closing(u)
                  \/ closing_now(u)
                  \/ _coudp_handle_error(u)
                  \/ _coudp_handle_read(u)
                  \/ _coudp_handle_write(u)

FdHandlers(o) == \/ _cofd_handle_error(o)
                 \/ _cofd_handle_read(o)
                 \/ _cofd_handle_write(o)

Next == \/ User
        \/ user_returns
        \/ copoll_wait
        \/ \E o \in Object : Handlers(o)
        \/ \E u \in Udp : UdpHandlers(u)
        \/ \E o \in Cofd : FdHandlers(o)

Spec == Init /\ [][Next]_vars

\* The kernel keeps reporting that the descriptor of u can be written.
reports_writable(u) ==
  copoll_wait /\ \E i \in DOMAIN events' : /\ events'[i].o = u
                                          /\ "write" \in events'[i].flags

\* Every callback makes finitely many calls and returns, and the thread goes on with the
\* loop. The kernel has room for a datagram again and again.
FairSpec ==
  /\ Spec
  /\ \A n \in 1 .. MaxNest + 1 : SF_vars(user_returns /\ Nesting = n)
  /\ WF_vars((\E o \in Object : Handlers(o)) \/ (\E u \in Udp : UdpHandlers(u))
             \/ (\E o \in Cofd : FdHandlers(o)))
  /\ \A u \in Udp : SF_vars(reports_writable(u)) /\ SF_vars(datagram_sent(u))

-----------------------------------------------------------------------------
TypeOK ==
  /\ state \in [Object -> 0 .. 2]
  /\ fd \in [Object -> Fd \cup {NoFd}]
  /\ fns \in [Object -> SUBSET Callbacks]
  /\ udpid \in 0 .. COUDP_SIZE - 1
  /\ fdid \in 0 .. COFD_SIZE - 1
  /\ head \in [Udp -> Buffer \cup {Nil}]
  /\ tail \in [Udp -> Buffer \cup {Nil}]
  /\ next \in [Buffer -> Buffer \cup {Nil}]
  /\ used \subseteq Buffer
  /\ sendbuf \in [Cofd -> 0 .. MaxSend]
  /\ opened \subseteq Fd
  /\ ptr \in [Fd -> Object \cup {NoObject, Wild}]
  /\ pollout \subseteq Fd
  /\ events \in Seq([o : Object, flags : SUBSET Parts])
  /\ agenda \in Seq([op : Work, o : Object])

\* Every event belongs to the object that owns the descriptor: a live object's descriptor
\* is registered with the address of the object. So it is said of every object; cofd_send
\* does not keep it.
EventsReachOwner == \A o \in Object : Live(o) => ptr[fd[o]] = o

\* The poll set is that of the live objects, over unbinding, binding again and closing
\* in the middle of a batch: each of them is registered, on a descriptor that is open, a
\* UDP object with its own address and an FD object with that or with what its user
\* stored in fd->ud; and no descriptor is registered that no live object has.
PollMatchesObjects ==
  /\ \A o \in Object : Live(o) => /\ fd[o] \in opened
                                  /\ ptr[fd[o]] \in {o} \cup (IF o \in Cofd THEN UserData ELSE {})
  /\ \A f \in Fd : ptr[f] # NoObject => \E o \in Object : Live(o) /\ fd[o] = f

\* The service closes its own descriptors, and never one of the user's.
OpenMatchesUdp == opened = UserFd \cup {fd[u] : u \in {v \in Udp : Live(v)}}

\* Each buffer is in the list of one live socket or is free: none leaks, none is sent or
\* released twice; the tail of a list is its last buffer.
SendListSound ==
  /\ used = UNION {Listed(u) : u \in Udp}
  /\ \A u, v \in Udp : u # v => Listed(u) \cap Listed(v) = {}
  /\ \A u \in Udp : head[u] # Nil => /\ Live(u)
                                     /\ tail[u] = Chain(head[u])[Len(Chain(head[u]))]

\* What is not sent yet belongs to a live object that is watched for writing.
UnsentIsWatched ==
  /\ \A u \in Udp : head[u] # Nil => fd[u] \in pollout
  /\ \A o \in Cofd : sendbuf[o] > 0 => state[o] = COFD_BIND /\ fd[o] \in pollout

\* A UDP socket that is being closed gracefully still has datagrams to send, unless the
\* write that will close it is in progress.
ClosingHasData ==
  \A u \in Udp : state[u] = COUDP_CLOSING =>
    head[u] # Nil \/ \E i \in DOMAIN agenda : agenda[i] = [op |-> "write", o |-> u]

\* Refinement: datagrams leave a socket in the order they were accepted, each once.
SQ == INSTANCE SendQueue WITH Socket <- Udp, Datagram <- Buffer,
                              queue <- [u \in Udp |-> Chain(head[u])]

InOrder == SQ!Spec

\* A UDP socket that is being closed gracefully is closed in the end.
GracefulCloseEnds == \A u \in Udp : state[u] = COUDP_CLOSING ~> state[u] # COUDP_CLOSING
=============================================================================
