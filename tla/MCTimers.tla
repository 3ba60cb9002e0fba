------------------------------ MODULE MCTimers ------------------------------
(* Two timers, so that one can be chosen before the other, and frames for  *)
(* a function of the application and a signal handler on top of it.        *)
EXTENDS Timers
=============================================================================
