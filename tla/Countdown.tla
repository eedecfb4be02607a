----------------------------- MODULE Countdown -----------------------------
(***************************************************************************)
(* What a timer facility promises: every timer that is set counts the      *)
(* ticks it has left, fires in the very tick in which none is left, and    *)
(* then either stops or starts over with its period. There is no wheel and *)
(* no clock that wraps around here.                                        *)
(*                                                                         *)
(* TimingWheel and TimerService implement this specification.              *)
(***************************************************************************)
EXTENDS Integers

CONSTANTS Timer,       \* timers
          MaxDelay     \* the longest delay in ticks

Off == -1

VARIABLES remaining,   \* ticks until the timer fires, or Off
          period       \* ticks between later firings, 0 for a one-shot timer

cdvars == <<remaining, period>>

Due == {t \in Timer : remaining[t] = 0}

Init == /\ remaining = [t \in Timer |-> Off]
        /\ period = [t \in Timer |-> 0]

Set(t) == /\ remaining[t] = Off
          /\ remaining'[t] \in 1 .. MaxDelay
          /\ remaining' = [remaining EXCEPT ![t] = remaining'[t]]
          /\ period'[t] \in 0 .. MaxDelay
          /\ period' = [period EXCEPT ![t] = period'[t]]

Cancel(t) == /\ remaining' = [remaining EXCEPT ![t] = Off]
             /\ UNCHANGED period

\* Time goes on only when everything that is due has fired.
Tick == /\ Due = {}
        /\ remaining' = [t \in Timer |-> IF remaining[t] = Off THEN Off ELSE remaining[t] - 1]
        /\ UNCHANGED period

Fire(t) == /\ t \in Due
           /\ remaining' = [remaining EXCEPT ![t] = IF period[t] = 0 THEN Off ELSE period[t]]
           /\ UNCHANGED period

Next == Tick \/ \E t \in Timer : Set(t) \/ Cancel(t) \/ Fire(t)

Spec == Init /\ [][Next]_cdvars
=============================================================================
