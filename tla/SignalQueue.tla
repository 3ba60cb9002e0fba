----------------------------- MODULE SignalQueue -----------------------------
(***************************************************************************)
(* What the queue of src/src/signal.c promises, with no word about slots,  *)
(* order counters, masks or interrupts: every accepted signal waits in     *)
(* "pending" under the number it was accepted as, and a taker that asks    *)
(* for a set of signals gets the oldest pending one of that set, once.     *)
(* Signal.tla is shown to implement this module.                           *)
(***************************************************************************)
EXTENDS Naturals

CONSTANT Signals           \* the signal numbers in use

VARIABLES
    accepted,              \* how many signals have been accepted so far
    pending,               \* accepted and not yet taken: <<number, signal>>
    taken                  \* the numbers already taken

queueVars == <<accepted, pending, taken>>

Init ==
    /\ accepted = 0
    /\ pending = {}
    /\ taken = {}

(* A signal is accepted: it becomes the youngest pending one. *)
Accept(s) ==
    /\ accepted' = accepted + 1
    /\ pending' = pending \cup {<<accepted + 1, s>>}
    /\ UNCHANGED taken

(* The oldest pending signal of the set goes to whoever asked for the set. *)
Take(set) ==
    \E p \in pending :
        /\ p[2] \in set
        /\ \A q \in pending : q[2] \in set => p[1] <= q[1]
        /\ pending' = pending \ {p}
        /\ taken' = taken \cup {p[1]}
        /\ UNCHANGED accepted

Next ==
    \/ \E s \in Signals : Accept(s)
    \/ \E set \in SUBSET Signals : Take(set)

Spec == Init /\ [][Next]_queueVars
=============================================================================
