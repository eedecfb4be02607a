---------------------------- MODULE CoRoutineEx ----------------------------
(***************************************************************************)
(* The blocking calls of src/co_routineex.c: cort_tcp_connect, cort_sleep  *)
(* and the three reads park the coroutine that calls them until a callback *)
(* of the IO service or a timer resumes it.                                *)
(*                                                                         *)
(* The scheduler is CallStack, which CoRoutine implements. An object is a  *)
(* TCP socket, a UDP socket or an FD of the IO service; the timer service  *)
(* fires a timer once, some time after it was added.                       *)
(*                                                                         *)
(* object->ud points to a local of the call the coroutine is parked in.    *)
(* When the call returns, the pointer stays and the local is gone: what a  *)
(* callback does through it then is up to what lies there (Signal).        *)
(***************************************************************************)
EXTENDS Integers, Sequences, FiniteSets

CONSTANTS Co,          \* coroutines
          Main,        \* the main coroutine, which runs the loop
          Tcp, Udp, Cofd,   \* objects of the IO service
          MaxTimer     \* bound: timers of one coroutine

Object == Tcp \cup Udp \cup Cofd
None == "none"
Stale == "stale"      \* not the address of a local of a call in progress

ASSUME ExAssumption ==
  /\ IsFiniteSet(Co) /\ Main \notin Co /\ Stale \notin Co
  /\ Tcp \cap Udp = {} /\ Cofd \cap (Tcp \cup Udp) = {} /\ None \notin Object
  /\ MaxTimer \in Nat

VARIABLES stack, parked,   \* the scheduler, see CallStack
          call,     \* the call each coroutine is in, if any
          mine,     \* the object a coroutine has
          bound,    \* the coroutines that called cort_xxx_bind for their object
          data,     \* what callbacks stored in the local of the call
          timers,   \* how many sleeps of each coroutine the timer service still has
          after,    \* the object each coroutine releases when control returns to it
          state,    \* object->state
          cb,       \* the callbacks of the object: none, of the connect, or of the reads
          ud,       \* object->ud: the coroutine whose call the local is of
          missed    \* history: somebody was not told of an event, or the wrong one was

Sched == INSTANCE CallStack WITH Ids <- Co

sched == <<stack, parked>>
objects == <<state, cb, ud>>
vars == <<sched, call, mine, bound, data, timers, after, objects, missed>>

-----------------------------------------------------------------------------
Running == Sched!Top

\* Coroutine c executes code of the user's.
User(c) == Running = c /\ after[c] = None /\ call[c] = None

\* The loop takes the next event or timer.
Loop == stack = <<Main>> /\ after[Main] = None

\* cort_resume does nothing for a coroutine that is not suspended.
Resume(c) == IF c \in parked THEN Sched!Resume(c) ELSE UNCHANGED sched

\* A callback stores what happened in the local of a call and resumes its coroutine. If
\* the call is over, it finds whatever lies there, and may resume any coroutine.
Signal(o, what) ==
  LET Stored(c, w) == data' = [data EXCEPT ![c] = IF w = "same" THEN @ ELSE w]
  IN  IF ud[o] # Stale
      THEN Stored(ud[o], what) /\ Resume(ud[o]) /\ UNCHANGED missed
      ELSE /\ missed' = TRUE
           /\ \/ UNCHANGED <<sched, data>>
              \/ \E c \in parked, w \in {what, "same"} : Sched!Resume(c) /\ Stored(c, w)

\* Nobody is called: a coroutine that has the object does not learn of it.
NoSignal(o) ==
  /\ missed' = (missed \/ \E c \in Co : mine[c] = o /\ c # Running)
  /\ UNCHANGED <<sched, data>>

-----------------------------------------------------------------------------
Init == /\ stack = <<Main>>
        /\ parked = {}
        /\ call = [c \in Co |-> None]
        /\ mine = [c \in Co |-> None]
        /\ bound = {}
        /\ data = [c \in Co |-> None]
        /\ timers = [c \in Co |-> 0]
        /\ after = [c \in Co \cup {Main} |-> None]
        /\ state = [o \in Object |-> "free"]
        /\ cb = [o \in Object |-> None]
        /\ ud = [o \in Object |-> Stale]
        /\ missed = FALSE

(* What coroutines do.                                                     *)

\* The user creates a coroutine, and later resumes it for the first time.
cort_new(c) ==
  /\ Loop
  /\ Sched!Spawn(c)
  /\ call' = [call EXCEPT ![c] = "start"]
  /\ UNCHANGED <<mine, bound, data, timers, after, objects, missed>>

start(c) ==
  /\ Loop
  /\ call[c] = "start"
  /\ Sched!Resume(c)
  /\ UNCHANGED <<call, mine, bound, data, timers, after, objects, missed>>

\* It gets an accepted socket, a new UDP socket or an FD.
opens(c, o) ==
  /\ User(c)
  /\ mine[c] = None /\ state[o] = "free"
  /\ mine' = [mine EXCEPT ![c] = o]
  /\ state' = [state EXCEPT ![o] = "connected"]
  /\ UNCHANGED <<sched, call, bound, data, timers, after, cb, ud, missed>>

\* The coroutine yields inside a call.
Park(c, what) == /\ call' = [call EXCEPT ![c] = what]
                 /\ Sched!Yield

\* cotcp_connect fails: its result is not looked at.
cort_tcp_connect_fails(c) ==
  /\ User(c)
  /\ mine[c] = None
  /\ Park(c, "connect")
  /\ missed' = TRUE
  /\ UNCHANGED <<mine, bound, data, timers, after, objects>>

\* It connects at once: the callback finds the coroutine running, which then yields.
cort_tcp_connect_immediate(c, o) ==
  /\ User(c)
  /\ mine[c] = None /\ state[o] = "free"
  /\ mine' = [mine EXCEPT ![c] = o]
  /\ state' = [state EXCEPT ![o] = "connected"]
  /\ cb' = [cb EXCEPT ![o] = "connect"]
  /\ ud' = [ud EXCEPT ![o] = c]
  /\ data' = [data EXCEPT ![c] = "tcp"]
  /\ Park(c, "connect")
  /\ missed' = TRUE
  /\ UNCHANGED <<bound, timers, after>>

cort_tcp_connect(c, o) ==
  /\ User(c)
  /\ mine[c] = None /\ state[o] = "free"
  /\ mine' = [mine EXCEPT ![c] = o]
  /\ state' = [state EXCEPT ![o] = "connecting"]
  /\ cb' = [cb EXCEPT ![o] = "connect"]
  /\ ud' = [ud EXCEPT ![o] = c]
  /\ Park(c, "connect")
  /\ UNCHANGED <<bound, data, timers, after, missed>>

\* The running coroutine sets the callbacks of its object; a closed one refuses them.
Bind(c) ==
  /\ User(c)
  /\ c \notin bound
  /\ bound' = bound \cup {c}
  /\ IF state[mine[c]] = "connected"
     THEN cb' = [cb EXCEPT ![mine[c]] = "read"] /\ UNCHANGED missed
     ELSE UNCHANGED cb /\ missed' = TRUE
  /\ UNCHANGED <<sched, call, mine, data, timers, after, state, ud>>

cort_tcp_bind(c) == mine[c] \in Tcp /\ Bind(c)
cort_udp_bind(c) == mine[c] \in Udp /\ Bind(c)
cort_fd_bind(c) == mine[c] \in Cofd /\ Bind(c)

\* Faulty variant: the object keeps the pointer it has.
Read_KeepsUd(c) ==
  /\ User(c)
  /\ c \in bound
  /\ Park(c, "read")
  /\ UNCHANGED <<mine, bound, data, timers, after, objects, missed>>

\* The running coroutine has the callbacks find the local of this call, and yields.
Read(c) ==
  /\ User(c)
  /\ c \in bound
  /\ ud' = [ud EXCEPT ![mine[c]] = c]
  /\ Park(c, "read")
  /\ UNCHANGED <<mine, bound, data, timers, after, state, cb, missed>>

cort_tcp_read(c) == mine[c] \in Tcp /\ Read(c)
cort_udp_read(c) == mine[c] \in Udp /\ Read(c)
cort_fd_read(c) == mine[c] \in Cofd /\ Read(c)

\* Faulty variant: a sleep of no time needs no timer.
cort_sleep_ZeroAtOnce(c) ==
  /\ User(c)
  /\ \E ms \in 0 .. MaxTimer - timers[c] :
       timers' = [timers EXCEPT ![c] = @ + (IF ms = 0 THEN 0 ELSE 1)]
  /\ Park(c, "sleep")
  /\ UNCHANGED <<mine, bound, data, after, objects, missed>>

cort_sleep(c) ==
  /\ User(c)
  /\ timers[c] < MaxTimer
  /\ timers' = [timers EXCEPT ![c] = @ + 1]
  /\ Park(c, "sleep")
  /\ UNCHANGED <<mine, bound, data, after, objects, missed>>

\* The call returns. A coroutine that is told that its object is gone forgets it.
returns(c) ==
  /\ Running = c /\ after[c] = None
  /\ call[c] # None
  /\ call' = [call EXCEPT ![c] = None]
  /\ data' = [data EXCEPT ![c] = None]
  /\ ud' = [o \in Object |-> IF ud[o] = c THEN Stale ELSE ud[o]]
  /\ LET gone == \/ call[c] = "connect" /\ data[c] # "tcp"
                 \/ call[c] = "read" /\ data[c] \in {"close", "error"}
     IN  /\ mine' = IF gone THEN [mine EXCEPT ![c] = None] ELSE mine
         /\ bound' = IF gone THEN bound \ {c} ELSE bound
  /\ UNCHANGED <<sched, timers, after, state, cb, missed>>

finish(c) ==
  /\ User(c)
  /\ Sched!Finish
  /\ mine' = [mine EXCEPT ![c] = None]
  /\ bound' = bound \ {c}
  /\ UNCHANGED <<call, data, timers, after, objects, missed>>

-----------------------------------------------------------------------------
(* What happens to objects.                                                *)

\* The callbacks of the reads: on_tcp_recv, on_tcp_close and on_tcp_error, and so on.
on_tcp(o, what) == o \in Tcp /\ Signal(o, what)
on_udp(o, what) == o \in Udp /\ Signal(o, what)
on_fd(o, what) == o \in Cofd /\ Signal(o, what)

\* The service calls fn_recv, fn_close or fn_error of the object, if it is set. Of a
\* connect that succeeded at once fn_error is left, on_tcp_connect_error.
Callback(o, what) ==
  \/ cb[o] = "read" /\ (on_tcp(o, what) \/ on_udp(o, what) \/ on_fd(o, what))
  \/ cb[o] = "connect" /\ what = "error" /\ Signal(o, "same")
  \/ cb[o] = "connect" /\ what # "error" /\ NoSignal(o)
  \/ cb[o] = None /\ NoSignal(o)

\* The service calls back and, when the callback is over, frees the object.
CallsAndFrees(c, o, what) == Callback(o, what) /\ after' = [after EXCEPT ![c] = o]

\* Coroutine c gives up object o.
Drops(c, o) ==
  /\ mine' = IF mine[c] = o THEN [mine EXCEPT ![c] = None] ELSE mine
  /\ bound' = IF mine[c] = o THEN bound \ {c} ELSE bound

\* A write fails, and cotcp_send, coudp_send or cofd_send reports it by the callback.
send_fails(c, o) ==
  /\ User(c)
  /\ state[o] = "connected"
  /\ CallsAndFrees(c, o, "error")
  /\ UNCHANGED <<call, mine, bound, timers, objects>>

\* cotcp_close or coudp_close, with nothing left to send.
close(c, o) ==
  /\ User(c)
  /\ state[o] = "connected"
  /\ CallsAndFrees(c, o, "close")
  /\ Drops(c, o)
  /\ UNCHANGED <<call, timers, objects>>

\* The same, with data to send first.
close_gracefully(c, o) ==
  /\ User(c)
  /\ state[o] = "connected"
  /\ state' = [state EXCEPT ![o] = "closing"]
  /\ Drops(c, o)
  /\ UNCHANGED <<sched, call, data, timers, after, cb, ud, missed>>

\* The object is gone. An owner that still has it was not told.
Free(o) ==
  /\ state' = [state EXCEPT ![o] = "free"]
  /\ cb' = [cb EXCEPT ![o] = None]
  /\ ud' = [ud EXCEPT ![o] = Stale]

Untold(o, owners) == missed' = (missed \/ \E c \in owners : mine[c] = o)

\* cofd_unbind calls nobody.
cofd_unbind(c, o) ==
  /\ User(c)
  /\ state[o] = "connected"
  /\ Free(o)
  /\ Drops(c, o)
  /\ Untold(o, Co \ {c})
  /\ UNCHANGED <<sched, call, data, timers, after>>

\* Control is back in the code that called the callback: the object is freed.
release(c) ==
  /\ Running = c /\ after[c] # None
  /\ after' = [after EXCEPT ![c] = None]
  /\ IF state[after[c]] = "free"
     THEN UNCHANGED <<objects, missed>>
     ELSE Free(after[c]) /\ Untold(after[c], Co)
  /\ UNCHANGED <<sched, call, mine, bound, data, timers>>

-----------------------------------------------------------------------------
(* What the loop calls.                                                    *)

connected(o) ==
  /\ Loop
  /\ state[o] = "connecting"
  /\ state' = [state EXCEPT ![o] = "connected"]
  /\ cb' = [cb EXCEPT ![o] = None]
  /\ Signal(o, "tcp")
  /\ UNCHANGED <<call, mine, bound, timers, after, ud>>

\* Faulty variant: the error callback stores the socket, as on_tcp_connected does.
connect_fails_Stores(o) ==
  /\ Loop
  /\ state[o] = "connecting"
  /\ Signal(o, "tcp")
  /\ after' = [after EXCEPT ![Main] = o]
  /\ UNCHANGED <<call, mine, bound, timers, objects>>

connect_fails(o) ==
  /\ Loop
  /\ state[o] = "connecting"
  /\ Signal(o, "same")
  /\ after' = [after EXCEPT ![Main] = o]
  /\ UNCHANGED <<call, mine, bound, timers, objects>>

\* A TCP socket that is closing throws away what it reads.
recv(o) ==
  /\ Loop
  /\ state[o] = "connected" \/ (state[o] = "closing" /\ o \notin Tcp)
  /\ Callback(o, "data")
  /\ UNCHANGED <<call, mine, bound, timers, after, objects>>

\* The peer closed, or reading or writing failed.
ends(o, what) ==
  /\ Loop
  /\ state[o] \in {"connected", "closing"}
  /\ CallsAndFrees(Main, o, what)
  /\ UNCHANGED <<call, mine, bound, timers, objects>>

\* The last data is sent: a closing object is freed, and nobody is called.
flushed(o) ==
  /\ Loop
  /\ state[o] = "closing"
  /\ Free(o)
  /\ Untold(o, Co)
  /\ UNCHANGED <<sched, call, mine, bound, data, timers, after>>

\* _on_sleep_timer
sleep_timer(c) ==
  /\ Loop
  /\ timers[c] > 0
  /\ timers' = [timers EXCEPT ![c] = @ - 1]
  /\ Resume(c)
  /\ UNCHANGED <<call, mine, bound, data, after, objects, missed>>

-----------------------------------------------------------------------------
Next ==
  \/ \E c \in Co :
       \/ cort_new(c) \/ start(c) \/ returns(c) \/ finish(c)
       \/ cort_tcp_connect_fails(c) \/ cort_sleep(c) \/ sleep_timer(c)
       \/ cort_tcp_bind(c) \/ cort_udp_bind(c) \/ cort_fd_bind(c)
       \/ cort_tcp_read(c) \/ cort_udp_read(c) \/ cort_fd_read(c)
       \/ \E o \in Object : opens(c, o) \/ send_fails(c, o)
       \/ \E o \in Tcp : cort_tcp_connect_immediate(c, o) \/ cort_tcp_connect(c, o)
       \/ \E o \in Tcp \cup Udp : close(c, o) \/ close_gracefully(c, o)
       \/ \E o \in Cofd : cofd_unbind(c, o)
  \/ \E c \in Co \cup {Main} : release(c)
  \/ \E o \in Object :
       \/ recv(o) \/ flushed(o)
       \/ \E what \in {"close", "error"} : ends(o, what)
  \/ \E o \in Tcp : connected(o) \/ connect_fails(o)

Spec == Init /\ [][Next]_vars

-----------------------------------------------------------------------------
\* Type invariant of the calls and objects that co_routineex.c works with.
TypeOK ==
  /\ Len(stack) \in 1 .. Cardinality(Co) + 1
  /\ parked \subseteq Co
  /\ call \in [Co -> {None, "start", "connect", "read", "sleep"}]
  /\ mine \in [Co -> Object \cup {None}]
  /\ bound \subseteq {c \in Co : mine[c] # None}
  /\ data \in [Co -> {None, "tcp", "data", "close", "error"}]
  /\ timers \in [Co -> 0 .. MaxTimer]
  /\ after \in [Co \cup {Main} -> Object \cup {None}]
  /\ state \in [Object -> {"free", "connecting", "connected", "closing"}]
  /\ cb \in [Object -> {None, "connect", "read"}]
  /\ ud \in [Object -> Co \cup {Stale}]
  /\ missed \in BOOLEAN

\* cort_sleep yields after it added a timer, and a timer resumes whoever waits, whatever
\* for: still, a coroutine that sleeps always has a timer that will resume it.
SleepersWake == \A c \in parked : call[c] = "sleep" => timers[c] > 0

\* As long as nothing happened to an object between two reads of its coroutine, somebody
\* holds the end that resumes a coroutine parked in a read or a connect: the object is
\* open, its callbacks are those of the read, and its ud is the local of this call.
Served ==
  ~missed => \A c \in parked :
    LET o == mine[c]
    IN  /\ call[c] = "read" => state[o] # "free" /\ cb[o] = "read" /\ ud[o] = c
        /\ call[c] = "connect" => state[o] = "connecting" /\ ud[o] = c

\* As long as nothing happened between reads, a call that is about to return was resumed
\* by a callback and says what is the case: there is data of a socket still open, or
\* whoever resumed frees the object next; a connect gave a socket that is connected.
ToldTheTruth ==
  ~missed => \A c \in Co : Running = c /\ after[c] = None =>
    LET o == mine[c]
        freed == after[stack[Len(stack) - 1]] = o
    IN  /\ call[c] = "read" => /\ data[c] # None
                               /\ data[c] = "data" <=> ~freed
                               /\ state[o] # "free"
        /\ call[c] = "connect" => /\ data[c] = "tcp" <=> ~freed
                                  /\ data[c] = "tcp" <=> state[o] = "connected"

\* A coroutine is parked in cort_tcp_connect only while its connection is being made: the
\* call blocks "until it is connected or cannot be" (co_routineex.h:27).
ConnectBlocksWhileConnecting ==
  \A c \in parked : call[c] = "connect" =>
    \E o \in Tcp : state[o] = "connecting" /\ ud[o] = c
=============================================================================
