------------------------------ MODULE MCTimesync ------------------------------
(* Seconds of fifteen units: one conversion keeps every third, the other   *)
(* every fourth, which does not divide a second.                           *)
EXTENDS Timesync
=============================================================================
