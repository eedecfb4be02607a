--------------------------- MODULE MCTimerService ---------------------------
(* Model checking of TimerService: two upper wheels and a 3-bit tick       *)
(* counter that wraps around, blocks of one item, looping and one-shot     *)
(* timers whose items are deleted and reused from callbacks.               *)
EXTENDS TimerService
=============================================================================
