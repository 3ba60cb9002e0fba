---------------------------- MODULE MCW5100Socket ----------------------------
(* Two chip sockets and three descriptors: both tables fill up, and a      *)
(* connection's descriptor and its socket are reused independently.        *)
EXTENDS W5100Socket
=============================================================================
