----------------------------- MODULE ByteStream -----------------------------
(***************************************************************************)
(* What one direction of a connection promises: the reader gets the bytes  *)
(* in the order they were written, each of them once, and the writer is    *)
(* never more than Capacity ahead.  Bytes are named by their position, so  *)
(* the k-th byte written is k.                                             *)
(***************************************************************************)
EXTENDS Naturals, Sequences

CONSTANT Capacity

VARIABLES
    written,               \* how many bytes have been written
    read                   \* the bytes that have been read

Init == written = 0 /\ read = <<>>

Write ==
    /\ \E n \in 1..Capacity :
        /\ written + n - Len(read) <= Capacity
        /\ written' = written + n
    /\ UNCHANGED read

(* The next n bytes. *)
Following(n) == [i \in 1..n |-> Len(read) + i]

Read ==
    /\ \E n \in 1..(written - Len(read)) : read' = read \o Following(n)
    /\ UNCHANGED written

Next == Write \/ Read

Spec == Init /\ [][Next]_<<written, read>>
=============================================================================
