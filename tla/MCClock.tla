------------------------------- MODULE MCClock -------------------------------
(* Ticks of two counts and seconds of two ticks; time for nearly two       *)
(* seconds, and sleeps of more than one.                                    *)
EXTENDS Clock
MCSetTimes == {[sec |-> 3, nsec |-> N * TICKS - 1]}
MCSleeps == {[sec |-> 1, nsec |-> 1]}
=============================================================================
