---------------------------- MODULE MCW5100Stream ----------------------------
(* Rings of two bytes, registers of four values read as a high and a low   *)
(* half of two: sizes tear, and both rings and pointers wrap.              *)
EXTENDS W5100Stream
=============================================================================
