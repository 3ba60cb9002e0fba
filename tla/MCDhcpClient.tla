---------------------------- MODULE MCDhcpClient ----------------------------
(* Two servers, so that an offer can come late, and enough faults to fail  *)
(* in each phase of the exchange.                                          *)
EXTENDS DhcpClient
=============================================================================
