------------------------------ MODULE MCSignal ------------------------------
(* Two slots and two signals, one of them fatal by default and raised by a *)
(* fault handler: the smallest instance in which the queue is full, slots  *)
(* are reused out of order and one signal overtakes another one.           *)
EXTENDS Signal
=============================================================================
