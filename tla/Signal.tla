------------------------------- MODULE Signal -------------------------------
(***************************************************************************)
(* Signals: src/src/signal.c, kill.c, raise.c and faults.c.                *)
(*                                                                         *)
(* Two contexts run application code: the thread, and the signal handlers  *)
(* that pend_sv_handler() calls.  PendSV preempts the thread wherever it   *)
(* is, except inside critical_section_begin/end (FAULTMASK): a critical    *)
(* section is one step here, and everything outside one is split at each   *)
(* access to shared state.  PendSV is never preempted by the thread, nor   *)
(* by itself.  Fault handlers preempt both, and run in one step.           *)
(***************************************************************************)
EXTENDS Integers, Sequences, FiniteSets

CONSTANTS
    SIGQUEUE_MAX,          \* slots of signal_queue.items
    Signals,               \* the signal numbers in use
    FaultSignals,          \* those the fault handlers queue
    Terminating,           \* those whose default action is _exit()
    SigSets,               \* the signal sets the application passes to the calls
    NewActions,            \* the actions it passes to sigaction()
    OrderMax               \* bound: INT_MAX, the last value of last_order before
                           \* the C increment is undefined; small for TLC

Dispositions == {"SIG_DFL", "SIG_IGN", "handler"}

ASSUME QueueAssumption == SIGQUEUE_MAX \in Nat \ {0}
ASSUME SignalAssumption ==
    /\ Signals \subseteq Nat \ {0}
    /\ FaultSignals \subseteq Signals
    /\ Terminating \subseteq Signals
    /\ SigSets \subseteq SUBSET Signals
    /\ NewActions \subseteq Dispositions
ASSUME OrderAssumption == OrderMax \in Nat

VARIABLES
    signo,                 \* items[i].info.si_signo, 0 for a free slot
    order,                 \* items[i].order
    last_order,            \* signal_queue.last_order
    procmask,              \* the blocked signals
    actions,               \* signal_actions[sig].act.sa_handler
    pendsv,                \* ICSR.PENDSVSET
    pc,                    \* where each context is
    arg,                   \* the sigset a library call in progress works with
    saved,                 \* sigsuspend's saved_mask
    sent,                  \* history: signal accepted as number n
    consumed,              \* history: numbers delivered or waited for
    raced                  \* history: a SIG_BLOCK store unblocked a signal

vars == <<signo, order, last_order, procmask, actions, pendsv, pc, arg, saved,
          sent, consumed, raced>>

queue == <<signo, order, last_order, sent, consumed>>

Slots == 1..SIGQUEUE_MAX
Contexts == {"thread", "pendsv"}

(* Inside a library call; "user" is application code. *)
CallPCs == {"user", "block_store", "store", "raise",
            "suspend_store", "suspend_raise", "wait"}

(* PendSV is besides idle, in the loop of pend_sv_handler, or in _exit. *)
PCs == CallPCs \cup {"idle", "loop", "exit"}

TypeOK ==
    /\ signo \in [Slots -> Signals \cup {0}]
    /\ order \in [Slots -> 0..OrderMax]
    /\ last_order \in 0..OrderMax
    /\ procmask \in SUBSET Signals
    /\ actions \in [Signals -> Dispositions]
    /\ pendsv \in BOOLEAN
    /\ pc \in [Contexts -> PCs]
    /\ arg \in [Contexts -> SUBSET Signals]
    /\ saved \in [Contexts -> SUBSET Signals]
    /\ sent \in Seq(Signals)
    /\ consumed \in SUBSET (0..OrderMax)
    /\ raced \in BOOLEAN

Init ==
    /\ signo = [i \in Slots |-> 0]
    /\ order = [i \in Slots |-> 0]
    /\ last_order = 0
    /\ procmask = {}
    /\ actions = [s \in Signals |-> "SIG_DFL"]
    /\ pendsv = FALSE
    /\ pc = [c \in Contexts |-> IF c = "thread" THEN "user" ELSE "idle"]
    /\ arg = [c \in Contexts |-> {}]
    /\ saved = [c \in Contexts |-> {}]
    /\ sent = <<>>
    /\ consumed = {}
    /\ raced = FALSE

(* The thread runs only while PendSV is not active. *)
Runs(c) == c = "thread" => pc["pendsv"] = "idle"

InUser(c) == Runs(c) /\ pc[c] = "user"

-----------------------------------------------------------------------------
(* The queue. *)

Free == {i \in Slots : signo[i] = 0}
Candidates(set) == {i \in Slots : signo[i] # 0 /\ signo[i] \in set}

(* The scan of sigqueue_info stops at the first slot with no signal. *)
FirstFree(i) == i \in Free /\ \A j \in Free : i <= j

(* sigqueue_info finds a slot.  The critical section is the whole step. *)
Enqueue(s) ==
    /\ last_order < OrderMax
    /\ \E i \in Slots :
        /\ FirstFree(i)
        /\ signo' = [signo EXCEPT ![i] = s]
        /\ order' = [order EXCEPT ![i] = last_order + 1]
    /\ last_order' = last_order + 1
    /\ sent' = Append(sent, s)
    /\ pendsv' = TRUE
    /\ UNCHANGED consumed

(* Mutant: the order is advanced before a slot has been found. *)
QueueFullCounts ==
    /\ Free = {}
    /\ last_order' = last_order + 1
    /\ UNCHANGED <<signo, order, sent, consumed, pendsv>>

(* sigqueue_info finds none: EAGAIN, nothing changes, PendSV is not raised. *)
QueueFull ==
    /\ Free = {}
    /\ UNCHANGED <<queue, pendsv>>

sigqueue_info(s) == Enqueue(s) \/ QueueFull

(* Mutant: signal_dequeue takes the first candidate slot, whatever its order. *)
ChosenFirstSlot(set, i) ==
    i \in Candidates(set) /\ \A j \in Candidates(set) : i <= j

(* Mutant: the comparison of the orders is the wrong way round. *)
ChosenYoungest(set, i) ==
    i \in Candidates(set) /\ \A j \in Candidates(set) : order[j] <= order[i]

(* signal_dequeue's choice: no other candidate has a smaller order. *)
Chosen(set, i) ==
    i \in Candidates(set) /\ \A j \in Candidates(set) : order[i] <= order[j]

(* Mutant: the slot is not released. *)
TakeKeeps(i) ==
    /\ consumed' = consumed \cup {order[i]}
    /\ UNCHANGED <<signo, order, last_order, sent>>

(* The chosen item is copied out and its slot released. *)
Release(i) ==
    /\ signo' = [signo EXCEPT ![i] = 0]
    /\ consumed' = consumed \cup {order[i]}
    /\ UNCHANGED <<order, last_order, sent>>

-----------------------------------------------------------------------------
(* Calls that application code makes, from the thread or from a handler.  *)

(* raise(), kill() to this process, sigqueue(): all end in sigqueue_info. *)
Kill(c, s) ==
    /\ InUser(c)
    /\ sigqueue_info(s)
    /\ UNCHANGED <<procmask, actions, pc, arg, saved, raced>>

(* sigaction() with a new action; sigignore() is the case SIG_IGN. *)
Sigaction(c, s, d) ==
    /\ InUser(c)
    /\ actions' = [actions EXCEPT ![s] = d]
    /\ UNCHANGED <<queue, procmask, pendsv, pc, arg, saved, raced>>

(* sigprocmask(SIG_BLOCK), sighold(): procmask is read ... *)
Block(c, set) ==
    /\ InUser(c)
    /\ pc' = [pc EXCEPT ![c] = "block_store"]
    /\ arg' = [arg EXCEPT ![c] = procmask \cup set]
    /\ UNCHANGED <<queue, procmask, actions, pendsv, saved, raced>>

(* ... and written back; a mask changed in between is overwritten. *)
BlockStore(c) ==
    /\ Runs(c) /\ pc[c] = "block_store"
    /\ procmask' = arg[c]
    /\ raced' = (raced \/ ~(procmask \subseteq arg[c]))
    /\ pc' = [pc EXCEPT ![c] = "user"]
    /\ arg' = [arg EXCEPT ![c] = {}]
    /\ UNCHANGED <<queue, actions, pendsv, saved>>

(* sigprocmask(SIG_UNBLOCK), sigrelse(): procmask is read. *)
Unblock(c, set) ==
    /\ InUser(c)
    /\ pc' = [pc EXCEPT ![c] = "store"]
    /\ arg' = [arg EXCEPT ![c] = procmask \ set]
    /\ UNCHANGED <<queue, procmask, actions, pendsv, saved, raced>>

(* sigprocmask(SIG_SETMASK) has nothing to read. *)
Setmask(c, set) ==
    /\ InUser(c)
    /\ pc' = [pc EXCEPT ![c] = "store"]
    /\ arg' = [arg EXCEPT ![c] = set]
    /\ UNCHANGED <<queue, procmask, actions, pendsv, saved, raced>>

(* Mutant: the new mask is stored and PendSV is not raised after it. *)
StoreForgetsRaise(c) ==
    /\ Runs(c) /\ pc[c] = "store"
    /\ procmask' = arg[c]
    /\ pc' = [pc EXCEPT ![c] = "user"]
    /\ arg' = [arg EXCEPT ![c] = {}]
    /\ UNCHANGED <<queue, actions, pendsv, saved, raced>>

(* The store of SIG_UNBLOCK and SIG_SETMASK, with the raise still to come. *)
Store(c) ==
    /\ Runs(c) /\ pc[c] = "store"
    /\ procmask' = arg[c]
    /\ pc' = [pc EXCEPT ![c] = "raise"]
    /\ arg' = [arg EXCEPT ![c] = {}]
    /\ UNCHANGED <<queue, actions, pendsv, saved, raced>>

(* pendsv_interrupt_raise() and the return to the caller. *)
Raise(c) ==
    /\ Runs(c) /\ pc[c] = "raise"
    /\ pendsv' = TRUE
    /\ pc' = [pc EXCEPT ![c] = "user"]
    /\ saved' = [saved EXCEPT ![c] = {}]
    /\ UNCHANGED <<queue, procmask, actions, arg, raced>>

(* sigsuspend(): the old mask is read into saved_mask, ... *)
Suspend(c, set) ==
    /\ InUser(c)
    /\ pc' = [pc EXCEPT ![c] = "suspend_store"]
    /\ arg' = [arg EXCEPT ![c] = set]
    /\ saved' = [saved EXCEPT ![c] = procmask]
    /\ UNCHANGED <<queue, procmask, actions, pendsv, raced>>

(* ... the temporary one stored, ... *)
SuspendStore(c) ==
    /\ Runs(c) /\ pc[c] = "suspend_store"
    /\ procmask' = arg[c]
    /\ pc' = [pc EXCEPT ![c] = "suspend_raise"]
    /\ UNCHANGED <<queue, actions, pendsv, arg, saved, raced>>

(* ... PendSV raised, and with no wait the old mask is set again. *)
SuspendRaise(c) ==
    /\ Runs(c) /\ pc[c] = "suspend_raise"
    /\ pendsv' = TRUE
    /\ pc' = [pc EXCEPT ![c] = "store"]
    /\ arg' = [arg EXCEPT ![c] = saved[c]]
    /\ UNCHANGED <<queue, procmask, actions, saved, raced>>

(* sigtimedwait(), sigwaitinfo(), sigwait(): thread only, none of them is  *)
(* async-signal-safe.                                                      *)
Wait(set) ==
    /\ InUser("thread")
    /\ pc' = [pc EXCEPT !["thread"] = "wait"]
    /\ arg' = [arg EXCEPT !["thread"] = set]
    /\ UNCHANGED <<queue, procmask, actions, pendsv, saved, raced>>

WaitReturns ==
    /\ pc' = [pc EXCEPT !["thread"] = "user"]
    /\ arg' = [arg EXCEPT !["thread"] = {}]
    /\ UNCHANGED <<procmask, actions, pendsv, saved, raced>>

(* A poll of the loop that finds a signal ... *)
WaitTakes ==
    /\ Runs("thread") /\ pc["thread"] = "wait"
    /\ \E i \in Slots : Chosen(arg["thread"], i) /\ Release(i)
    /\ WaitReturns

(* ... or finds none, with the timeout elapsed. *)
WaitTimeout ==
    /\ Runs("thread") /\ pc["thread"] = "wait"
    /\ Candidates(arg["thread"]) = {}
    /\ UNCHANGED queue
    /\ WaitReturns

-----------------------------------------------------------------------------
(* Interrupts. *)

(* A fault handler of faults.c, entered from anywhere but a critical section. *)
Fault(s) ==
    /\ pc["pendsv"] # "exit"
    /\ sigqueue_info(s)
    /\ UNCHANGED <<procmask, actions, pc, arg, saved, raced>>

(* PendSV preempts the thread; the hardware clears the pending bit. *)
PendSVEntry ==
    /\ pendsv
    /\ pc["pendsv"] = "idle"
    /\ pendsv' = FALSE
    /\ pc' = [pc EXCEPT !["pendsv"] = "loop"]
    /\ UNCHANGED <<queue, procmask, actions, arg, saved, raced>>

Unmasked == Signals \ procmask

(* signal_act and signal_act_default: where the delivery of s goes next. *)
signal_act(s) ==
    CASE actions[s] = "handler" -> "user"
      [] actions[s] = "SIG_DFL" /\ s \in Terminating -> "exit"
      [] OTHER -> "loop"

(* Mutant: the handler acts on one signal and returns. *)
DeliverOne ==
    /\ pc["pendsv"] = "loop"
    /\ \E i \in Slots :
        /\ Chosen(Unmasked, i)
        /\ Release(i)
        /\ pc' = [pc EXCEPT !["pendsv"] =
                    IF signal_act(signo[i]) = "loop" THEN "idle" ELSE signal_act(signo[i])]
    /\ UNCHANGED <<procmask, actions, pendsv, arg, saved, raced>>

(* One turn of the loop of pend_sv_handler: dequeue and act. *)
Deliver ==
    /\ pc["pendsv"] = "loop"
    /\ \E i \in Slots :
        /\ Chosen(Unmasked, i)
        /\ Release(i)
        /\ pc' = [pc EXCEPT !["pendsv"] = signal_act(signo[i])]
    /\ UNCHANGED <<procmask, actions, pendsv, arg, saved, raced>>

(* The application's handler returns into the loop. *)
HandlerReturn ==
    /\ pc["pendsv"] = "user"
    /\ pc' = [pc EXCEPT !["pendsv"] = "loop"]
    /\ UNCHANGED <<queue, procmask, actions, pendsv, arg, saved, raced>>

(* Nothing left to dequeue: PendSV returns to the thread. *)
PendSVReturn ==
    /\ pc["pendsv"] = "loop"
    /\ Candidates(Unmasked) = {}
    /\ pc' = [pc EXCEPT !["pendsv"] = "idle"]
    /\ UNCHANGED <<queue, procmask, actions, pendsv, arg, saved, raced>>

(* _exit() is an endless loop, here in handler mode. *)
Exit ==
    /\ pc["pendsv"] = "exit"
    /\ UNCHANGED vars

-----------------------------------------------------------------------------

(* A library call that is under way in context c goes on. *)
CallStep(c) ==
    BlockStore(c) \/ Store(c) \/ Raise(c) \/ SuspendStore(c) \/ SuspendRaise(c)

Next ==
    \/ \E c \in Contexts, s \in Signals : Kill(c, s)
    \/ \E c \in Contexts, s \in Signals, d \in NewActions : Sigaction(c, s, d)
    \/ \E c \in Contexts, set \in SigSets :
        Block(c, set) \/ Unblock(c, set) \/ Setmask(c, set) \/ Suspend(c, set)
    \/ \E c \in Contexts : CallStep(c)
    \/ \E set \in SigSets : Wait(set)
    \/ WaitTakes
    \/ WaitTimeout
    \/ \E s \in FaultSignals : Fault(s)
    \/ PendSVEntry
    \/ Deliver
    \/ HandlerReturn
    \/ PendSVReturn
    \/ Exit

(* The processor runs whatever is enabled: an interrupt that stays pending *)
(* is taken, a library call goes on, and handlers return in the end.       *)
Fairness ==
    /\ WF_vars(PendSVEntry)
    /\ WF_vars(Deliver \/ PendSVReturn)
    /\ SF_vars(HandlerReturn)
    /\ \A c \in Contexts : WF_vars(CallStep(c))

Spec == Init /\ [][Next]_vars
FairSpec == Spec /\ Fairness

-----------------------------------------------------------------------------
(* Properties. *)

Occupied == {i \in Slots : signo[i] # 0}
Pending == {<<order[i], signo[i]>> : i \in Occupied}

(* Every signal sigqueue_info accepted is, under its own number, either in *)
(* exactly one slot of the queue or consumed exactly once, by a handler or *)
(* by a wait: whatever preempts whatever, none is lost and none delivered  *)
(* twice.                                                                  *)
ExactlyOnce ==
    /\ last_order = Len(sent)
    /\ consumed \subseteq 1..last_order
    /\ \A i \in Occupied : order[i] \in 1..last_order \ consumed
                             /\ signo[i] = sent[order[i]]
    /\ \A i, j \in Occupied : order[i] = order[j] => i = j
    /\ \A n \in 1..last_order : n \in consumed \/ \E i \in Occupied : order[i] = n

(* signal_dequeue delivers the instances of one signal in the order they   *)
(* were queued, although slots are reused in any order.                    *)
SameSignalInOrder ==
    \A n \in consumed : \A i \in Occupied : signo[i] = sent[n] => n < order[i]

(* A queued signal that is not blocked has somebody to deliver it: PendSV  *)
(* is pending or in its loop, or sigprocmask is about to raise it.  The    *)
(* only way out is a SIG_BLOCK store in the thread that overwrote what a   *)
(* handler had blocked since the read.                                     *)
NoLostWakeup ==
    Candidates(Unmasked) # {} =>
        \/ pendsv
        \/ pc["pendsv"] # "idle"
        \/ pc["thread"] \in {"raise", "suspend_raise"}
        \/ raced

(* The queue of slots and orders implements the abstract SignalQueue.      *)
Queue == INSTANCE SignalQueue WITH
            accepted <- last_order, pending <- Pending, taken <- consumed
QueueSpec == Queue!Spec

(* An unblocked queued signal does not stay queued for ever: it is taken,  *)
(* or it is blocked again, or the program has ended in _exit, unless the   *)
(* SIG_BLOCK race has happened.                                            *)
EventuallyTaken ==
    \A n \in 1..OrderMax :
        (\E i \in Occupied : order[i] = n /\ signo[i] \notin procmask)
            ~> \/ n \in consumed
               \/ \E i \in Occupied : order[i] = n /\ signo[i] \in procmask
               \/ pc["pendsv"] = "exit"
               \/ raced
=============================================================================
