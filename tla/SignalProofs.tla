---------------------------- MODULE SignalProofs ----------------------------
(***************************************************************************)
(* Theorems about Signal.tla for every queue length, every set of signals, *)
(* every set of masks the application uses and every bound on the order.   *)
(***************************************************************************)
EXTENDS Signal, TLAPS

USE DEF Slots, Contexts

(* The steps that leave the queue alone: all but the enqueues and takes. *)
QueueStep ==
    \/ \E s \in Signals : Enqueue(s)
    \/ \E i \in Slots, set \in SUBSET Signals : Chosen(set, i) /\ Release(i)
    \/ UNCHANGED queue

(* Whatever any context does to the queue is one enqueue, one take of the  *)
(* oldest candidate of a set, or nothing: the critical sections of         *)
(* sigqueue_info and signal_dequeue are the only code that touches it.     *)
LEMMA QueueSteps ==
    ASSUME TypeOK, [Next]_vars
    PROVE  QueueStep
<1>1. CASE \E c \in Contexts, s \in Signals : Kill(c, s)
  BY <1>1 DEF Kill, sigqueue_info, QueueFull, QueueStep
<1>2. CASE \E s \in FaultSignals : Fault(s)
  BY <1>2, SignalAssumption DEF Fault, sigqueue_info, QueueFull, QueueStep
<1>3. CASE WaitTakes
  <2>1. arg["thread"] \in SUBSET Signals  BY DEF TypeOK
  <2> QED  BY <1>3, <2>1 DEF WaitTakes, QueueStep
<1>4. CASE Deliver
  <2>1. Unmasked \in SUBSET Signals  BY DEF Unmasked
  <2>2. PICK i \in Slots : Chosen(Unmasked, i) /\ Release(i)  BY <1>4 DEF Deliver
  <2> QED  BY <2>1, <2>2 DEF QueueStep
<1>5. CASE \/ \E c \in Contexts, s \in Signals, d \in NewActions : Sigaction(c, s, d)
           \/ \E c \in Contexts, set \in SigSets :
                Block(c, set) \/ Unblock(c, set) \/ Setmask(c, set) \/ Suspend(c, set)
           \/ \E c \in Contexts : CallStep(c)
           \/ \E set \in SigSets : Wait(set)
           \/ WaitTimeout \/ PendSVEntry \/ HandlerReturn \/ PendSVReturn \/ Exit
           \/ UNCHANGED vars
  BY <1>5 DEF Sigaction, Block, Unblock, Setmask, Suspend, CallStep, BlockStore, Store,
       Raise, SuspendStore, SuspendRaise, Wait, WaitTimeout, PendSVEntry, HandlerReturn,
       PendSVReturn, Exit, vars, queue, QueueStep
<1> QED  BY <1>1, <1>2, <1>3, <1>4, <1>5 DEF Next

(* The part of the type invariant that is about the queue alone. *)
LEMMA QueueType ==
    ASSUME TypeOK, QueueStep
    PROVE  /\ signo' \in [Slots -> Signals \cup {0}]
           /\ order' \in [Slots -> 0..OrderMax]
           /\ last_order' \in 0..OrderMax
           /\ sent' \in Seq(Signals)
           /\ consumed' \in SUBSET (0..OrderMax)
           /\ (last_order' = Len(sent')) <=> (last_order = Len(sent))
<1> USE OrderAssumption DEF TypeOK
<1>1. CASE \E s \in Signals : Enqueue(s)
  <2>1. PICK s \in Signals : Enqueue(s)  BY <1>1
  <2>2. PICK i \in Slots : signo' = [signo EXCEPT ![i] = s]
                           /\ order' = [order EXCEPT ![i] = last_order + 1]
    BY <2>1 DEF Enqueue
  <2>3. last_order + 1 \in 0..OrderMax /\ last_order' = last_order + 1  BY <2>1 DEF Enqueue
  <2>4. sent' \in Seq(Signals) /\ Len(sent') = Len(sent) + 1  BY <2>1 DEF Enqueue
  <2>5. Len(sent) \in Nat OBVIOUS
  <2>6. consumed' = consumed  BY <2>1 DEF Enqueue
  <2> QED  BY <2>2, <2>3, <2>4, <2>5, <2>6
<1>2. CASE \E i \in Slots, set \in SUBSET Signals : Chosen(set, i) /\ Release(i)
  BY <1>2 DEF Release
<1>3. CASE UNCHANGED queue
  BY <1>3 DEF queue
<1> QED  BY <1>1, <1>2, <1>3 DEF QueueStep

(* Every variable keeps its type, whatever the constants are. *)
THEOREM TypeCorrect == Spec => []TypeOK
<1>1. Init => TypeOK
  <2> SUFFICES ASSUME Init PROVE TypeOK
    OBVIOUS
  <2>1. pc \in [Contexts -> PCs]  BY DEF Init, PCs, CallPCs
  <2>2. actions \in [Signals -> Dispositions]  BY DEF Init, Dispositions
  <2>3. order \in [Slots -> 0..OrderMax] /\ last_order \in 0..OrderMax
    BY OrderAssumption DEF Init
  <2>4. sent \in Seq(Signals)  BY DEF Init
  <2> QED  BY <2>1, <2>2, <2>3, <2>4 DEF Init, TypeOK
<1>2. TypeOK /\ [Next]_vars => TypeOK'
  <2> SUFFICES ASSUME TypeOK, [Next]_vars PROVE TypeOK'
    OBVIOUS
  <2>1. /\ signo' \in [Slots -> Signals \cup {0}]
        /\ order' \in [Slots -> 0..OrderMax]
        /\ last_order' \in 0..OrderMax
        /\ sent' \in Seq(Signals)
        /\ consumed' \in SUBSET (0..OrderMax)
    BY QueueSteps, QueueType
  <2> USE SignalAssumption DEF TypeOK, PCs, CallPCs
  <2>2. CASE \E c \in Contexts, s \in Signals : Kill(c, s)
    BY <2>1, <2>2 DEF Kill, sigqueue_info, Enqueue, QueueFull
  <2>3. CASE \E c \in Contexts, s \in Signals, d \in NewActions : Sigaction(c, s, d)
    BY <2>1, <2>3 DEF Sigaction
  <2>4. CASE \E c \in Contexts, set \in SigSets :
               Block(c, set) \/ Unblock(c, set) \/ Setmask(c, set) \/ Suspend(c, set)
    <3>1. PICK c \in Contexts, set \in SUBSET Signals :
               Block(c, set) \/ Unblock(c, set) \/ Setmask(c, set) \/ Suspend(c, set)
      BY <2>4
    <3>2. CASE Block(c, set)  BY <2>1, <3>2 DEF Block
    <3>3. CASE Unblock(c, set)  BY <2>1, <3>3 DEF Unblock
    <3>4. CASE Setmask(c, set)  BY <2>1, <3>4 DEF Setmask
    <3>5. CASE Suspend(c, set)  BY <2>1, <3>5 DEF Suspend
    <3> QED  BY <3>1, <3>2, <3>3, <3>4, <3>5
  <2>5. CASE \E c \in Contexts : CallStep(c)
    <3>1. PICK c \in Contexts : CallStep(c)  BY <2>5
    <3>2. CASE BlockStore(c)  BY <2>1, <3>2 DEF BlockStore
    <3>3. CASE Store(c)  BY <2>1, <3>3 DEF Store
    <3>4. CASE Raise(c)  BY <2>1, <3>4 DEF Raise
    <3>5. CASE SuspendStore(c)  BY <2>1, <3>5 DEF SuspendStore
    <3>6. CASE SuspendRaise(c)  BY <2>1, <3>6 DEF SuspendRaise
    <3> QED  BY <3>1, <3>2, <3>3, <3>4, <3>5, <3>6 DEF CallStep
  <2>6. CASE \E set \in SigSets : Wait(set)
    BY <2>1, <2>6 DEF Wait
  <2>7. CASE WaitTakes
    BY <2>1, <2>7 DEF WaitTakes, WaitReturns
  <2>8. CASE WaitTimeout
    BY <2>1, <2>8 DEF WaitTimeout, WaitReturns
  <2>9. CASE \E s \in FaultSignals : Fault(s)
    BY <2>1, <2>9 DEF Fault, sigqueue_info, Enqueue, QueueFull
  <2>10. CASE PendSVEntry \/ HandlerReturn \/ PendSVReturn
    BY <2>1, <2>10 DEF PendSVEntry, HandlerReturn, PendSVReturn
  <2>11. CASE Deliver
    <3>1. PICK i \in Slots : pc' = [pc EXCEPT !["pendsv"] = signal_act(signo[i])]
      BY <2>11 DEF Deliver
    <3>2. signal_act(signo[i]) \in PCs  BY DEF signal_act
    <3> QED  BY <2>1, <2>11, <3>1, <3>2 DEF Deliver
  <2>12. CASE Exit \/ UNCHANGED vars
    BY <2>1, <2>12 DEF Exit, vars
  <2> QED  BY <2>2, <2>3, <2>4, <2>5, <2>6, <2>7, <2>8, <2>9, <2>10, <2>11, <2>12 DEF Next
<1> QED  BY <1>1, <1>2, PTL DEF Spec

(* No accepted signal is lost or delivered twice, whatever preempts what:  *)
(* each is in exactly one slot or has been consumed.                       *)
THEOREM DeliveredExactlyOnce == Spec => []ExactlyOnce
<1>1. Init => ExactlyOnce
  BY DEF Init, ExactlyOnce, Occupied
<1>2. TypeOK /\ ExactlyOnce /\ [Next]_vars => ExactlyOnce'
  <2> SUFFICES ASSUME TypeOK, ExactlyOnce, [Next]_vars PROVE ExactlyOnce'
    OBVIOUS
  <2>0. last_order \in Nat /\ sent \in Seq(Signals) /\ 0 \notin Signals
    BY OrderAssumption, SignalAssumption DEF TypeOK
  <2>1. CASE \E s \in Signals : Enqueue(s)
    <3>1. PICK s \in Signals : Enqueue(s)  BY <2>1
    <3>2. PICK i \in Slots : /\ signo[i] = 0
                             /\ signo' = [signo EXCEPT ![i] = s]
                             /\ order' = [order EXCEPT ![i] = last_order + 1]
      BY <3>1 DEF Enqueue, FirstFree, Free
    <3>3. /\ last_order' = last_order + 1
          /\ sent' = Append(sent, s)
          /\ consumed' = consumed
      BY <3>1 DEF Enqueue
    <3>4. i \notin Occupied /\ Occupied' = Occupied \cup {i}
      BY <2>0, <3>2 DEF Occupied, TypeOK
    <3>5. \A j \in Occupied : order'[j] = order[j] /\ signo'[j] = signo[j]
      BY <3>2, <3>4 DEF Occupied, TypeOK
    <3>6. order'[i] = last_order + 1 /\ signo'[i] = s  BY <3>2 DEF TypeOK
    <3>7. last_order' = Len(sent')  BY <2>0, <3>3 DEF ExactlyOnce
    <3>8. sent'[last_order + 1] = s /\ \A n \in 1..last_order : sent'[n] = sent[n]
      BY <2>0, <3>3 DEF ExactlyOnce
    <3>9. \A j \in Occupied : order[j] \in 1..last_order  BY DEF ExactlyOnce
    <3>10. \A j \in Occupied' : order'[j] \in 1..last_order' \ consumed'
                                /\ signo'[j] = sent'[order'[j]]
      BY <2>0, <3>3, <3>4, <3>5, <3>6, <3>8, <3>9 DEF ExactlyOnce
    <3>11. \A j, k \in Occupied' : order'[j] = order'[k] => j = k
      BY <2>0, <3>4, <3>5, <3>6, <3>9 DEF ExactlyOnce
    <3>12. \A n \in 1..last_order' : n \in consumed' \/ \E j \in Occupied' : order'[j] = n
      BY <2>0, <3>3, <3>4, <3>5, <3>6 DEF ExactlyOnce
    <3>13. consumed' \subseteq 1..last_order'  BY <2>0, <3>3 DEF ExactlyOnce
    <3> QED  BY <3>7, <3>10, <3>11, <3>12, <3>13 DEF ExactlyOnce
  <2>2. CASE \E i \in Slots, set \in SUBSET Signals : Chosen(set, i) /\ Release(i)
    <3>1. PICK i \in Slots : signo[i] # 0 /\ Release(i)
      BY <2>2 DEF Chosen, Candidates
    <3>2. i \in Occupied /\ Occupied' = Occupied \ {i}
      BY <3>1 DEF Occupied, Release, TypeOK
    <3>3. \A j \in Occupied' : signo'[j] = signo[j]
      BY <3>1, <3>2 DEF Release, Occupied, TypeOK
    <3>4. /\ UNCHANGED <<order, last_order, sent>>
          /\ consumed' = consumed \cup {order[i]}
      BY <3>1 DEF Release
    <3> QED  BY <3>2, <3>3, <3>4 DEF ExactlyOnce
  <2>3. CASE UNCHANGED queue
    BY <2>3 DEF queue, ExactlyOnce, Occupied
  <2> QED  BY <2>1, <2>2, <2>3, QueueSteps DEF QueueStep
<1> QED  BY <1>1, <1>2, TypeCorrect, PTL DEF Spec

(* The instances of one signal are consumed in the order of their enqueue. *)
THEOREM DeliveredInOrder == Spec => []SameSignalInOrder
<1>1. Init => SameSignalInOrder
  BY DEF Init, SameSignalInOrder
<1>2. TypeOK /\ ExactlyOnce /\ SameSignalInOrder /\ [Next]_vars => SameSignalInOrder'
  <2> SUFFICES ASSUME TypeOK, ExactlyOnce, SameSignalInOrder, [Next]_vars
               PROVE  SameSignalInOrder'
    OBVIOUS
  <2>0. last_order \in Nat /\ sent \in Seq(Signals) /\ 0 \notin Signals
    BY OrderAssumption, SignalAssumption DEF TypeOK
  <2>1. CASE \E s \in Signals : Enqueue(s)
    <3>1. PICK s \in Signals : Enqueue(s)  BY <2>1
    <3>2. PICK i \in Slots : /\ signo[i] = 0
                             /\ signo' = [signo EXCEPT ![i] = s]
                             /\ order' = [order EXCEPT ![i] = last_order + 1]
      BY <3>1 DEF Enqueue, FirstFree, Free
    <3>3. sent' = Append(sent, s) /\ consumed' = consumed
      BY <3>1 DEF Enqueue
    <3>4. last_order = Len(sent) /\ consumed \subseteq 1..last_order  BY DEF ExactlyOnce
    <3>7. \A n \in 1..Len(sent) : sent'[n] = sent[n]  BY <2>0, <3>3
    <3>5. \A j \in Occupied' : j = i \/ (j \in Occupied /\ order'[j] = order[j] /\ signo'[j] = signo[j])
      BY <3>2 DEF Occupied, TypeOK
    <3>6. order'[i] = last_order + 1  BY <3>2 DEF TypeOK
    <3>8. \A n \in consumed : n < order'[i]  BY <2>0, <3>4, <3>6
    <3>9. \A n \in consumed : sent'[n] = sent[n]  BY <3>4, <3>7
    <3> QED  BY <3>3, <3>5, <3>8, <3>9 DEF SameSignalInOrder
  <2>2. CASE \E i \in Slots, set \in SUBSET Signals : Chosen(set, i) /\ Release(i)
    <3>1. PICK i \in Slots, set \in SUBSET Signals : Chosen(set, i) /\ Release(i)
      BY <2>2
    <3>2. i \in Occupied /\ signo[i] \in set
      BY <3>1 DEF Chosen, Candidates, Occupied
    <3>3. \A j \in Occupied' : j \in Occupied /\ j # i /\ signo'[j] = signo[j]
      BY <3>1, <3>2 DEF Release, Occupied, TypeOK
    <3>4. /\ UNCHANGED <<order, last_order, sent>>
          /\ consumed' = consumed \cup {order[i]}
      BY <3>1 DEF Release
    <3>5. \A j \in Occupied : signo[j] = signo[i] => order[i] <= order[j]
      BY <3>1, <3>2 DEF Chosen, Candidates, Occupied
    <3>6. \A j \in Occupied : order[j] \in Nat /\ (j # i => order[j] # order[i])
      BY <2>0, <3>2 DEF ExactlyOnce
    <3>7. sent[order[i]] = signo[i]  BY <3>2 DEF ExactlyOnce
    <3>8. \A j \in Occupied' : signo'[j] = sent[order[i]] => order[i] < order[j]
      <4> TAKE j \in Occupied'
      <4>1. j \in Occupied /\ signo'[j] = signo[j] /\ order[j] # order[i]  BY <3>3, <3>6
      <4>2. order[i] \in Nat /\ order[j] \in Nat  BY <3>2, <3>6, <4>1
      <4>3. ASSUME signo'[j] = sent[order[i]] PROVE order[i] <= order[j]
        BY <3>5, <3>7, <4>1, <4>3
      <4> QED  BY <4>1, <4>2, <4>3
    <3> QED  BY <3>3, <3>4, <3>8 DEF SameSignalInOrder
  <2>3. CASE UNCHANGED queue
    BY <2>3 DEF queue, SameSignalInOrder, Occupied
  <2> QED  BY <2>1, <2>2, <2>3, QueueSteps DEF QueueStep
<1> QED  BY <1>1, <1>2, TypeCorrect, DeliveredExactlyOnce, PTL DEF Spec

(* A queued, unblocked signal always has PendSV pending, active or about   *)
(* to be raised, unless a SIG_BLOCK store raced with a handler.            *)
THEOREM WakeupNotLost == Spec => []NoLostWakeup
<1>1. Init => NoLostWakeup
  BY DEF Init, NoLostWakeup, Candidates
<1>2. TypeOK /\ NoLostWakeup /\ [Next]_vars => NoLostWakeup'
  <2> SUFFICES ASSUME TypeOK, NoLostWakeup, [Next]_vars PROVE NoLostWakeup'
    OBVIOUS
  <2> USE DEF NoLostWakeup
  <2>1. ASSUME signo' = signo, procmask' = procmask
        PROVE  Candidates(Unmasked)' = Candidates(Unmasked)
    BY <2>1 DEF Candidates, Unmasked
  <2>2. ASSUME NEW i \in Slots, Release(i), procmask' = procmask
        PROVE  Candidates(Unmasked)' \subseteq Candidates(Unmasked)
    BY <2>2 DEF Candidates, Unmasked, Release, TypeOK
  <2>3. CASE \E c \in Contexts, s \in Signals : Kill(c, s)
    <3>1. PICK c \in Contexts, s \in Signals : Kill(c, s)  BY <2>3
    <3>2. CASE Enqueue(s)  BY <3>2 DEF Enqueue
    <3>3. CASE QueueFull  BY <2>1, <3>1, <3>3 DEF QueueFull, Kill, queue
    <3> QED  BY <3>1, <3>2, <3>3 DEF Kill, sigqueue_info
  <2>4. CASE \E s \in FaultSignals : Fault(s)
    <3>1. PICK s \in FaultSignals : Fault(s)  BY <2>4
    <3>2. CASE Enqueue(s)  BY <3>2 DEF Enqueue
    <3>3. CASE QueueFull  BY <2>1, <3>1, <3>3 DEF QueueFull, Fault, queue
    <3> QED  BY <3>1, <3>2, <3>3 DEF Fault, sigqueue_info
  <2>5. CASE \E c \in Contexts, s \in Signals, d \in NewActions : Sigaction(c, s, d)
    BY <2>1, <2>5 DEF Sigaction, queue
  <2>6. CASE \E c \in Contexts, set \in SigSets :
               Block(c, set) \/ Unblock(c, set) \/ Setmask(c, set) \/ Suspend(c, set)
    <3>1. PICK c \in Contexts, set \in SigSets :
               Block(c, set) \/ Unblock(c, set) \/ Setmask(c, set) \/ Suspend(c, set)
      BY <2>6
    <3>2. Candidates(Unmasked)' = Candidates(Unmasked) /\ pendsv' = pendsv /\ raced' = raced
      BY <2>1, <3>1 DEF Block, Unblock, Setmask, Suspend, queue
    <3>3. pc[c] = "user" /\ \E p \in {"block_store", "store", "suspend_store"} :
                               pc' = [pc EXCEPT ![c] = p]
      BY <3>1 DEF Block, Unblock, Setmask, Suspend, InUser
    <3> QED  BY <3>2, <3>3 DEF TypeOK
  <2>7. CASE \E c \in Contexts : CallStep(c)
    <3>1. PICK c \in Contexts : CallStep(c)  BY <2>7
    <3>2. CASE BlockStore(c)
      <4>1. CASE procmask \subseteq arg[c]
        <5>1. Candidates(Unmasked)' \subseteq Candidates(Unmasked)
          BY <3>2, <4>1 DEF BlockStore, Candidates, Unmasked, queue
        <5> QED  BY <3>2, <5>1 DEF BlockStore, TypeOK
      <4>2. CASE ~(procmask \subseteq arg[c])
        BY <3>2, <4>2 DEF BlockStore
      <4> QED  BY <4>1, <4>2
    <3>3. CASE Store(c)  BY <3>3 DEF Store, Runs, TypeOK
    <3>4. CASE Raise(c)  BY <3>4 DEF Raise
    <3>5. CASE SuspendStore(c)  BY <3>5 DEF SuspendStore, TypeOK
    <3>6. CASE SuspendRaise(c)  BY <3>6 DEF SuspendRaise
    <3> QED  BY <3>1, <3>2, <3>3, <3>4, <3>5, <3>6 DEF CallStep
  <2>8. CASE \E set \in SigSets : Wait(set)
    BY <2>1, <2>8 DEF Wait, InUser, queue, TypeOK
  <2>9. CASE WaitTakes
    BY <2>2, <2>9 DEF WaitTakes, WaitReturns, TypeOK
  <2>10. CASE WaitTimeout
    BY <2>1, <2>10 DEF WaitTimeout, WaitReturns, queue, TypeOK
  <2>11. CASE PendSVEntry \/ HandlerReturn
    BY <2>11 DEF PendSVEntry, HandlerReturn, TypeOK
  <2>12. CASE Deliver
    <3>1. PICK i \in Slots : pc' = [pc EXCEPT !["pendsv"] = signal_act(signo[i])]
      BY <2>12 DEF Deliver
    <3>2. signal_act(signo[i]) # "idle"  BY DEF signal_act
    <3> QED  BY <3>1, <3>2 DEF TypeOK
  <2>13. CASE PendSVReturn
    BY <2>1, <2>13 DEF PendSVReturn, queue
  <2>14. CASE Exit \/ UNCHANGED vars
    BY <2>1, <2>14 DEF Exit, vars
  <2> QED  BY <2>3, <2>4, <2>5, <2>6, <2>7, <2>8, <2>9, <2>10, <2>11, <2>12, <2>13, <2>14
            DEF Next
<1> QED  BY <1>1, <1>2, TypeCorrect, PTL DEF Spec

(* Slots, orders and critical sections implement the abstract queue: what  *)
(* is accepted becomes the youngest pending signal, and what is taken is   *)
(* the oldest one of the set that was asked for.                           *)
THEOREM QueueImplemented == Spec => QueueSpec
<1>1. Init => Queue!Init
  BY DEF Init, Queue!Init, Pending, Occupied
<1>2. TypeOK /\ ExactlyOnce /\ [Next]_vars => [Queue!Next]_(Queue!queueVars)
  <2> SUFFICES ASSUME TypeOK, ExactlyOnce, [Next]_vars
               PROVE  Queue!Next \/ UNCHANGED Queue!queueVars
    OBVIOUS
  <2>0. 0 \notin Signals  BY SignalAssumption
  <2>1. CASE \E s \in Signals : Enqueue(s)
    <3>1. PICK s \in Signals : Enqueue(s)  BY <2>1
    <3>2. PICK i \in Slots : /\ signo[i] = 0
                             /\ signo' = [signo EXCEPT ![i] = s]
                             /\ order' = [order EXCEPT ![i] = last_order + 1]
      BY <3>1 DEF Enqueue, FirstFree, Free
    <3>3. i \notin Occupied /\ Occupied' = Occupied \cup {i}
      BY <2>0, <3>2 DEF Occupied, TypeOK
    <3>4. /\ \A j \in Occupied : order'[j] = order[j] /\ signo'[j] = signo[j]
          /\ order'[i] = last_order + 1 /\ signo'[i] = s
      BY <3>2, <3>3 DEF Occupied, TypeOK
    <3>5. Pending' = Pending \cup {<<last_order + 1, s>>}
      BY <3>3, <3>4 DEF Pending
    <3>6. Queue!Accept(s)
      BY <3>1, <3>5 DEF Queue!Accept, Enqueue
    <3> QED  BY <3>6 DEF Queue!Next
  <2>2. CASE \E i \in Slots, set \in SUBSET Signals : Chosen(set, i) /\ Release(i)
    <3>1. PICK i \in Slots, set \in SUBSET Signals : Chosen(set, i) /\ Release(i)
      BY <2>2
    <3>2. i \in Occupied /\ Occupied' = Occupied \ {i}
      BY <3>1 DEF Chosen, Candidates, Occupied, Release, TypeOK
    <3>3. order' = order /\ \A j \in Occupied' : signo'[j] = signo[j]
      BY <3>1, <3>2 DEF Release, Occupied, TypeOK
    <3>4. \A j \in Occupied : j # i => order[j] # order[i]
      BY <3>2 DEF ExactlyOnce
    <3> DEFINE p == <<order[i], signo[i]>>
    <3>5. Pending' = Pending \ {p}
      BY <3>2, <3>3, <3>4 DEF Pending
    <3>6. p \in Pending /\ p[1] = order[i] /\ p[2] \in set
      BY <3>1, <3>2 DEF Pending, Chosen, Candidates
    <3>7. \A q \in Pending : q[2] \in set => p[1] <= q[1]
      BY <3>1 DEF Pending, Chosen, Candidates, Occupied
    <3>8. Queue!Take(set)
      BY <3>1, <3>5, <3>6, <3>7 DEF Queue!Take, Release
    <3> QED  BY <3>8 DEF Queue!Next
  <2>3. CASE UNCHANGED queue
    BY <2>3 DEF queue, Queue!queueVars, Pending, Occupied
  <2> QED  BY <2>1, <2>2, <2>3, QueueSteps DEF QueueStep
<1> QED  BY <1>1, <1>2, TypeCorrect, DeliveredExactlyOnce, PTL DEF Spec, QueueSpec, Queue!Spec
=============================================================================
