----------------------------- MODULE CoRoutine -----------------------------
(***************************************************************************)
(* The coroutine scheduler of src/co_routine.c: the slot table of cosched  *)
(* and the status, resumer and saved context of every cort.                *)
(*                                                                         *)
(* One step is one call made by the code that executes in the coroutine    *)
(* "running": cort_new, cort_resume, cort_yield, the return of its         *)
(* function (the tail of cofunc), and cort_open / cort_close around them.  *)
(* Calls the code refuses with -1 (a resume of a coroutine that is not     *)
(* suspended, a yield of the main coroutine) change nothing and are        *)
(* stuttering steps.                                                       *)
(***************************************************************************)
EXTENDS Integers, Sequences, FiniteSets

CONSTANTS DEFAULT_COROUTINE,    \* slots of a new scheduler
          MaxCap                \* bound: the table is not grown beyond it

ASSUME CapAssumption ==
  /\ DEFAULT_COROUTINE \in Nat \ {0}
  /\ MaxCap \in Nat
  /\ DEFAULT_COROUTINE <= MaxCap

VARIABLES open,       \* a scheduler exists
          nco,        \* S->nco: coroutines that are not dead
          cap,        \* S->cap: slots of S->co
          running,    \* S->running
          status,     \* S->co[i]->status, or NULL where S->co[i] is NULL
          pco,        \* S->co[i]->pco: who resumed i last
          ctx         \* S->co[i]->ctx: where its saved context continues

vars == <<open, nco, cap, running, status, pco, ctx>>

MAIN_CO_ID == 0

NULL              == "NULL"
CO_STATUS_DEAD    == "DEAD"
CO_STATUS_SUSPEND == "SUSPEND"
CO_STATUS_RUNNING == "RUNNING"
CO_STATUS_NORMAL  == "NORMAL"

Statuses == {CO_STATUS_DEAD, CO_STATUS_SUSPEND, CO_STATUS_RUNNING, CO_STATUS_NORMAL}

Slots == 0 .. cap - 1

\* What a saved context continues with: the coroutine's function, the code
\* after its cort_yield, or the code after its cort_resume(of).
Context == [at : {"none", "entry", "yield", "resume"}, of : Nat]

NoContext        == [at |-> "none",   of |-> 0]
EntryContext     == [at |-> "entry",  of |-> 0]
YieldContext     == [at |-> "yield",  of |-> 0]
ResumeContext(id) == [at |-> "resume", of |-> id]

\* A slot cort_new may take: never used, or its coroutine is dead.
Free(id) == status[id] \in {NULL, CO_STATUS_DEAD}

Live == {id \in Slots : ~Free(id)}

\* Coroutines inside a call chain: the running one and the ones that wait for a
\* cort_resume of theirs to return.
Active == {id \in Slots : status[id] \in {CO_STATUS_RUNNING, CO_STATUS_NORMAL}}

cort_status(id) == IF status[id] = NULL THEN CO_STATUS_DEAD ELSE status[id]

-----------------------------------------------------------------------------
Init == /\ open = FALSE
        /\ nco = 0
        /\ cap = 0
        /\ running = MAIN_CO_ID
        /\ status = [i \in {} |-> NULL]
        /\ pco = [i \in {} |-> 0]
        /\ ctx = [i \in {} |-> NoContext]

\* The scheduler with its main coroutine, the only one without a function.
cort_open ==
  /\ ~open
  /\ open' = TRUE
  /\ nco' = 1
  /\ cap' = DEFAULT_COROUTINE
  /\ running' = MAIN_CO_ID
  /\ status' = [i \in 0 .. DEFAULT_COROUTINE - 1 |->
                  IF i = MAIN_CO_ID THEN CO_STATUS_RUNNING ELSE NULL]
  /\ pco' = [i \in 0 .. DEFAULT_COROUTINE - 1 |-> 0]
  /\ ctx' = [i \in 0 .. DEFAULT_COROUTINE - 1 |-> NoContext]

\* Asserts that the main coroutine calls it; every slot is released, suspended
\* coroutines included.
cort_close ==
  /\ open
  /\ running = MAIN_CO_ID
  /\ open' = FALSE
  /\ nco' = 0
  /\ cap' = 0
  /\ running' = MAIN_CO_ID
  /\ status' = [i \in {} |-> NULL]
  /\ pco' = [i \in {} |-> 0]
  /\ ctx' = [i \in {} |-> NoContext]

\* Faulty variant: the coroutine is not counted.
Occupy_NotCounted(cid, n) ==
  /\ nco' = nco
  /\ cap' = n
  /\ status' = [i \in 0 .. n - 1 |-> IF i = cid THEN CO_STATUS_SUSPEND
                                     ELSE IF i < cap THEN status[i] ELSE NULL]
  /\ pco' = [i \in 0 .. n - 1 |-> IF i < cap THEN pco[i] ELSE 0]
  /\ ctx' = [i \in 0 .. n - 1 |-> IF i = cid THEN EntryContext
                                  ELSE IF i < cap THEN ctx[i] ELSE NoContext]
  /\ UNCHANGED <<open, running>>

\* Faulty variant: a reused slot keeps the context of the coroutine that died.
Occupy_KeepsContext(cid, n) ==
  /\ nco' = nco + 1
  /\ cap' = n
  /\ status' = [i \in 0 .. n - 1 |-> IF i = cid THEN CO_STATUS_SUSPEND
                                     ELSE IF i < cap THEN status[i] ELSE NULL]
  /\ pco' = [i \in 0 .. n - 1 |-> IF i < cap THEN pco[i] ELSE 0]
  /\ ctx' = [i \in 0 .. n - 1 |-> IF i < cap /\ status[i] # NULL THEN ctx[i]
                                  ELSE IF i = cid THEN EntryContext ELSE NoContext]
  /\ UNCHANGED <<open, running>>

\* The coroutine put in slot cid of a table of n slots. The resumer of a reused
\* slot is left as it was.
Occupy(cid, n) ==
  /\ nco' = nco + 1
  /\ cap' = n
  /\ status' = [i \in 0 .. n - 1 |-> IF i = cid THEN CO_STATUS_SUSPEND
                                     ELSE IF i < cap THEN status[i] ELSE NULL]
  /\ pco' = [i \in 0 .. n - 1 |-> IF i < cap THEN pco[i] ELSE 0]
  /\ ctx' = [i \in 0 .. n - 1 |-> IF i = cid THEN EntryContext
                                  ELSE IF i < cap THEN ctx[i] ELSE NoContext]
  /\ UNCHANGED <<open, running>>

\* The slot the scan of cort_new visits at its i-th iteration.
Probe(i) == (i + nco) % cap

\* cort_new when nco >= cap: the table doubles and the first new slot is taken.
cort_new_grow ==
  /\ open
  /\ nco >= cap
  /\ 2 * cap <= MaxCap
  /\ Occupy(cap, 2 * cap)

\* cort_new otherwise: the first free slot of the scan from nco on, if any.
cort_new_scan ==
  /\ open
  /\ nco < cap
  /\ \E i \in Slots : /\ Free(Probe(i))
                      /\ \A j \in 0 .. i - 1 : ~Free(Probe(j))
                      /\ Occupy(Probe(i), cap)

\* Faulty variant: the resumer is recorded for a new slot only.
cort_resume_StaleResumer(id) ==
  /\ open
  /\ status[id] = CO_STATUS_SUSPEND
  /\ status' = [status EXCEPT ![running] = CO_STATUS_NORMAL, ![id] = CO_STATUS_RUNNING]
  /\ pco' = [pco EXCEPT ![id] = IF pco[id] = MAIN_CO_ID THEN running ELSE pco[id]]
  /\ ctx' = [ctx EXCEPT ![running] = ResumeContext(id)]
  /\ running' = id
  /\ UNCHANGED <<open, nco, cap>>

\* Faulty variant: a coroutine that waits for its own cort_resume can be resumed.
cort_resume_NoCheck(id) ==
  /\ open
  /\ id # running
  /\ status[id] \in {CO_STATUS_SUSPEND, CO_STATUS_NORMAL}
  /\ status' = [status EXCEPT ![running] = CO_STATUS_NORMAL, ![id] = CO_STATUS_RUNNING]
  /\ pco' = [pco EXCEPT ![id] = running]
  /\ ctx' = [ctx EXCEPT ![running] = ResumeContext(id)]
  /\ running' = id
  /\ UNCHANGED <<open, nco, cap>>

\* The running coroutine's cort_resume(id) up to the switch into id.
cort_resume(id) ==
  /\ open
  /\ status[id] = CO_STATUS_SUSPEND
  /\ status' = [status EXCEPT ![running] = CO_STATUS_NORMAL, ![id] = CO_STATUS_RUNNING]
  /\ pco' = [pco EXCEPT ![id] = running]
  /\ ctx' = [ctx EXCEPT ![running] = ResumeContext(id)]
  /\ running' = id
  /\ UNCHANGED <<open, nco, cap>>

\* Faulty variant: the resumer stays NORMAL.
cort_yield_ResumerNormal ==
  /\ open
  /\ running # MAIN_CO_ID
  /\ status' = [status EXCEPT ![running] = CO_STATUS_SUSPEND]
  /\ ctx' = [ctx EXCEPT ![running] = YieldContext]
  /\ running' = pco[running]
  /\ UNCHANGED <<open, nco, cap, pco>>

\* The running coroutine's cort_yield up to the switch into its resumer.
cort_yield ==
  /\ open
  /\ running # MAIN_CO_ID
  /\ status' = [status EXCEPT ![running] = CO_STATUS_SUSPEND,
                              ![pco[running]] = CO_STATUS_RUNNING]
  /\ ctx' = [ctx EXCEPT ![running] = YieldContext]
  /\ running' = pco[running]
  /\ UNCHANGED <<open, nco, cap, pco>>

\* Faulty variant: the dead coroutine is still counted.
cofunc_return_StillCounted ==
  /\ open
  /\ running # MAIN_CO_ID
  /\ status' = [status EXCEPT ![running] = CO_STATUS_DEAD,
                              ![pco[running]] = CO_STATUS_RUNNING]
  /\ running' = pco[running]
  /\ UNCHANGED <<open, nco, cap, pco, ctx>>

\* The running coroutine's function returns: the tail of cofunc. Its context is
\* saved in a local that nobody loads.
cofunc_return ==
  /\ open
  /\ running # MAIN_CO_ID
  /\ status' = [status EXCEPT ![running] = CO_STATUS_DEAD,
                              ![pco[running]] = CO_STATUS_RUNNING]
  /\ nco' = nco - 1
  /\ running' = pco[running]
  /\ UNCHANGED <<open, cap, pco, ctx>>

Next == \/ cort_open
        \/ cort_close
        \/ cort_new_grow
        \/ cort_new_scan
        \/ \E id \in Slots : cort_resume(id)
        \/ cort_yield
        \/ cofunc_return

Spec == Init /\ [][Next]_vars

-----------------------------------------------------------------------------
\* Every variable has the type of its field; the three tables have cap slots.
TypeOK ==
  /\ open \in BOOLEAN
  /\ nco \in Nat
  /\ cap \in 0 .. MaxCap
  /\ running \in Nat
  /\ status \in [Slots -> Statuses \cup {NULL}]
  /\ pco \in [Slots -> Nat]
  /\ ctx \in [Slots -> Context]

\* The links that cort_yield and cofunc follow (co->pco) lead from the running
\* coroutine through every coroutine inside a call chain down to the main one, and
\* pass each of them once: control can neither be lost nor go round in a circle,
\* although pco is never cleared and slots of dead coroutines are reused.
IsChain(s, n, act, link, last) ==
  /\ n >= 1
  /\ s[1] = MAIN_CO_ID
  /\ s[n] = last
  /\ \A k \in 2 .. n : link[s[k]] = s[k - 1]
  /\ \A k, m \in 1 .. n : s[k] = s[m] => k = m
  /\ \A id \in act : \E k \in 1 .. n : s[k] = id

Chains ==
  {s \in [1 .. Cardinality(Active) -> Active] :
     IsChain(s, Cardinality(Active), Active, pco, running)}

ResumeChain == open => Chains # {}

\* Exactly one coroutine is RUNNING, the scheduler's running one; the others of the
\* chain are NORMAL (co_routine.h:13-20).
OneRunning ==
  open => {id \in Slots : cort_status(id) = CO_STATUS_RUNNING} = {running}

\* Each switch continues what its target was doing: the resumer of an active
\* coroutine waits in the very cort_resume call that started it, and a suspended
\* coroutine waits at its entry or in its own cort_yield.
ContextsMatch ==
  open => /\ \A id \in Active \ {MAIN_CO_ID} : ctx[pco[id]] = ResumeContext(id)
          /\ \A id \in Slots : cort_status(id) = CO_STATUS_SUSPEND =>
                                 ctx[id] \in {EntryContext, YieldContext}

\* S->nco counts the coroutines that are not dead, so that the scan of cort_new
\* finds a free slot whenever it runs: cort_new never answers -1.
NewFindsSlot ==
  open => /\ nco = Cardinality(Live)
          /\ nco < cap => \E i \in Slots : Free(Probe(i))

\* Refinement: the scheduler behaves as nested calls (CallStack).
stack == IF open /\ Chains # {} THEN CHOOSE s \in Chains : TRUE ELSE <<>>

parked == {id \in Slots : status[id] = CO_STATUS_SUSPEND}

CS == INSTANCE CallStack WITH Ids <- 0 .. MaxCap - 1, Main <- MAIN_CO_ID

Nesting == CS!Spec
=============================================================================
