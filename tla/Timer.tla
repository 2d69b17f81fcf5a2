-------------------------------- MODULE Timer --------------------------------
(***************************************************************************)
(* utils/timer_thr and Propagator::TimerHandler: the thread that wakes the  *)
(* propagator of a node every nanosec_.  Trigger and command strictly       *)
(* alternate, so the thread and the two pipes to it have one state:         *)
(*                                                                          *)
(*   "none"       never started (nanosec_ <= 0)                             *)
(*   "sleeping"   in nanosleep                                              *)
(*   "triggered"  ETimerTrigger is in the pipe, waiting for the command     *)
(*   "cmd_run"    an ETimerCmd with a positive interval is in the pipe      *)
(*   "cmd_stop"   an ETimerCmd with interval 0 is in the pipe               *)
(*   "exited"     the thread has returned                                   *)
(***************************************************************************)
EXTENDS Wires

VARIABLE timer

TimerTypeOK ==
    timer \in [Nodes -> {"none", "sleeping", "triggered",
                         "cmd_run", "cmd_stop", "exited"}]

TimerInit ==
    timer = [n \in Nodes |-> IF n \in Batched THEN "sleeping" ELSE "none"]

(* nanosleep returns and the handler sends ETimerTrigger.                  *)
Trigger(n) ==
    /\ Alive(n)
    /\ timer[n] = "sleeping"
    /\ timer' = [timer EXCEPT ![n] = "triggered"]

(* The handler receives the command; an interval of 0 ends the thread.     *)
Command(n) ==
    /\ Alive(n)
    /\ timer[n] \in {"cmd_run", "cmd_stop"}
    /\ timer' = [timer EXCEPT ![n] =
                    IF timer[n] = "cmd_run" THEN "sleeping" ELSE "exited"]

TimerStep(n) ==
    /\ Trigger(n) \/ Command(n)
    /\ UNCHANGED <<wireVars, fatal>>
=============================================================================
