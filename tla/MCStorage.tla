------------------------------ MODULE MCStorage ------------------------------
(* The two layers of storage: three descriptors, enough for a socket to    *)
(* push the two tables out of step while a closed descriptor and a reused  *)
(* entry remain; cards of three sectors of two bytes.  The layers have no  *)
(* variable in common and no property is about both, so that one is run    *)
(* while the other rests.                                                  *)
EXTENDS Fatfs, SdCard

VARIABLE layer             \* the one that is run

StorageInit == layer \in {"files", "card"} /\ Init /\ CardInit

Files == layer = "files" /\ Next /\ UNCHANGED <<sdVars, layer>>
Card == layer = "card" /\ CardNext /\ UNCHANGED <<vars, layer>>

StorageSpec == StorageInit /\ [][Files \/ Card]_<<vars, sdVars, layer>>
=============================================================================
