---------------------------- MODULE TimersProofs ----------------------------
(***************************************************************************)
(* Theorems about Timers.tla, for every length of the table, every set of  *)
(* times and every depth of nesting: what is due expires, and how often a  *)
(* one-shot timer can expire when timer_settime() is re-entered.           *)
(***************************************************************************)
EXTENDS Timers, FiniteSetTheorems, TLAPS

-----------------------------------------------------------------------------
(* The invariant. *)

Loop == {"check", "expire", "rearm"}
Depth == Len(stack)

(* The thread is at the bottom; a frame in the loop has chosen a timer of  *)
(* the table; a function runs on a frame that will arm its timer again.    *)
Frames ==
    /\ stack[1].who = "thread"
    /\ \A k \in 1..Depth :
        /\ stack[k].pc \in Loop => stack[k].td \in Tds
        /\ k > 1 => stack[k].who # "thread"
        /\ stack[k].who = "callback" => k > 1 /\ stack[k - 1].pc = "rearm"

(* The calls that may yet expire a timer: those that have chosen it, and   *)
(* those above frame f that have still to choose.                          *)
Ahead(f, td) ==
    Pending(td) \cup {k \in 1..Depth : /\ k > f /\ stack[k].pc # "user"
                                       /\ k \notin FramesAt(Loop, td)}

(* A one-shot timer that is armed has either been chosen by no call since  *)
(* it was set, or the first call that chose it, in frame f, has not        *)
(* finished: all calls above that one began after it had chosen, so that   *)
(* they have been counted.  Once it is disarmed no call chooses it.        *)
ShotsOK(td) ==
    /\ shots[td] + Cardinality(Pending(td)) <= reentered[td] + 1
    /\ isarmed(td) =>
        \/ shots[td] + Cardinality(Pending(td)) <= reentered[td]
        \/ \E f \in FramesAt(Loop, td) :
                shots[td] + Cardinality(Ahead(f, td)) <= reentered[td] + 1
Shots == \A td \in Tds : OneShot(td) => ShotsOK(td)

OwedDue == \A td \in owed : isarmed(td) /\ Due(td)

(* Frame k is the last one that is in timer_settime(): it is the one that  *)
(* serves what is owed.                                                    *)
LastCall(k) == \A j \in (k + 1)..Depth : stack[j].pc = "user"

(* Something is owed only while somebody is in timer_settime(), a timer it *)
(* checks is due before all that is owed, and one that it arms is not owed. *)
Served ==
    /\ (\A k \in 1..Depth : stack[k].pc = "user") => owed = {}
    /\ \A k \in 1..Depth : LastCall(k) =>
        /\ stack[k].pc = "check" =>
            \A u \in owed : time_to_expiration(stack[k].td) <= time_to_expiration(u)
        /\ stack[k].pc = "rearm" => stack[k].td \notin owed

-----------------------------------------------------------------------------
(* What the operators on the stack do. *)

Pcs == {"user", "scan", "check", "expire", "rearm"}

(* The running frame goes on; the others stay. *)
LEMMA GoToFrames ==
    ASSUME TypeOK, NEW p \in Pcs, NEW d \in Tds \cup {NONE}, GoTo(p, d)
    PROVE  /\ stack' \in Seq(Frame) /\ Len(stack') = Len(stack)
           /\ \A k \in 1..(Len(stack) - 1) : stack'[k] = stack[k]
           /\ stack'[Len(stack)].pc = p /\ stack'[Len(stack)].td = d
           /\ stack'[Len(stack)].who = Top.who
<1>1. Top \in Frame /\ Len(stack) \in 1..Len(stack)  BY DEF TypeOK, Top
<1> DEFINE f == [Top EXCEPT !.pc = p, !.td = d]
<1>2. f \in Frame /\ f.pc = p /\ f.td = d /\ f.who = Top.who  BY <1>1 DEF Frame, Pcs
<1>3. stack' = [stack EXCEPT ![Len(stack)] = f]  BY <1>1 DEF GoTo, TypeOK, Top
<1> HIDE DEF f
<1> QED  BY <1>1, <1>2, <1>3 DEF TypeOK

(* A frame is pushed. *)
LEMMA PushFrames ==
    ASSUME TypeOK, NEW w \in {"callback", "handler"}
    PROVE  LET s == Push(w) IN
           /\ s \in Seq(Frame) /\ Len(s) = Len(stack) + 1
           /\ \A k \in 1..Len(stack) : s[k] = stack[k]
           /\ s[Len(stack) + 1].who = w /\ s[Len(stack) + 1].pc = "user"
  BY DEF TypeOK, Push, Frame

(* The running frame returns. *)
LEMMA ReturnFrames ==
    ASSUME TypeOK, Len(stack) > 1, stack' = SubSeq(stack, 1, Len(stack) - 1)
    PROVE  /\ stack' \in Seq(Frame) /\ Len(stack') = Len(stack) - 1
           /\ \A k \in 1..(Len(stack) - 1) : stack'[k] = stack[k]
  BY DEF TypeOK

(* The frame below it will arm its timer next. *)
LEMMA RearmNext ==
    ASSUME NEW s \in Seq(Frame), NEW n \in 1..Len(s), NEW t,
           t = [s EXCEPT ![n].pc = "rearm"]
    PROVE  /\ t \in Seq(Frame) /\ Len(t) = Len(s)
           /\ \A k \in 1..Len(s) : k # n => t[k] = s[k]
           /\ t[n].pc = "rearm" /\ t[n].td = s[n].td /\ t[n].who = s[n].who
<1> DEFINE f == [s[n] EXCEPT !.pc = "rearm"]
<1>1. s[n] \in Frame  OBVIOUS
<1>2. f \in Frame /\ f.pc = "rearm" /\ f.td = s[n].td /\ f.who = s[n].who
  BY <1>1 DEF Frame
<1>3. t = [s EXCEPT ![n] = f]  OBVIOUS
<1> HIDE DEF f
<1> QED  BY <1>2, <1>3

(* A function is called from timer_expired. *)
LEMMA CallFrames ==
    ASSUME TypeOK, stack' = [Push("callback") EXCEPT ![Len(stack)].pc = "rearm"]
    PROVE  /\ stack' \in Seq(Frame) /\ Len(stack') = Len(stack) + 1
           /\ \A k \in 1..(Len(stack) - 1) : stack'[k] = stack[k]
           /\ stack'[Len(stack)].pc = "rearm" /\ stack'[Len(stack)].td = Top.td
           /\ stack'[Len(stack)].who = Top.who
           /\ stack'[Len(stack) + 1].who = "callback" /\ stack'[Len(stack) + 1].pc = "user"
<1>1. /\ Push("callback") \in Seq(Frame) /\ Len(Push("callback")) = Len(stack) + 1
      /\ \A k \in 1..Len(stack) : Push("callback")[k] = stack[k]
      /\ Push("callback")[Len(stack) + 1].who = "callback"
      /\ Push("callback")[Len(stack) + 1].pc = "user"
  BY PushFrames
<1>2. Len(stack) \in 1..Len(Push("callback"))  BY <1>1 DEF TypeOK
<1> QED  BY <1>1, <1>2, RearmNext DEF Top

(* What each action does to the stack. *)

(* The running frame is at p with timer d. *)
Goes(p, d) ==
    /\ stack' \in Seq(Frame) /\ Len(stack') = Len(stack)
    /\ \A k \in 1..(Len(stack) - 1) : stack'[k] = stack[k]
    /\ stack'[Len(stack)].pc = p /\ stack'[Len(stack)].td = d
    /\ stack'[Len(stack)].who = stack[Len(stack)].who

(* A frame of w that does nothing yet is on top of it. *)
Pushed(w) ==
    /\ stack' \in Seq(Frame) /\ Len(stack') = Len(stack) + 1
    /\ \A k \in 1..(Len(stack) - 1) : stack'[k] = stack[k]
    /\ stack'[Len(stack)].td = stack[Len(stack)].td
    /\ stack'[Len(stack)].who = stack[Len(stack)].who
    /\ stack'[Len(stack)].pc = IF w = "callback" THEN "rearm" ELSE stack[Len(stack)].pc
    /\ stack'[Len(stack) + 1].who = w /\ stack'[Len(stack) + 1].pc = "user"

(* It is gone. *)
Popped ==
    /\ stack' \in Seq(Frame) /\ Len(stack') = Len(stack) - 1 /\ Len(stack) > 1
    /\ \A k \in 1..(Len(stack) - 1) : stack'[k] = stack[k]

LEMMA StackSteps ==
    ASSUME TypeOK, Frames
    PROVE  /\ \A td \in Tds, v \in Nat, i \in Times : Settime(td, v, i) => Goes("scan", NONE)
           /\ Scan => \E td \in Tds : next_expiring(td) /\ Goes("check", td)
           /\ ScanFindsNone => Goes("user", NONE)
           /\ Check => IF Due(Top.td) THEN Goes("expire", Top.td) ELSE Goes("user", NONE)
           /\ Expire => Goes("rearm", Top.td)
           /\ ExpireCalls => Pushed("callback")
           /\ Rearm => Goes("scan", NONE)
           /\ FrameReturns => Popped
           /\ HandlerRuns => Pushed("handler")
<1>1. /\ Len(stack) \in 1..Len(stack) /\ Top \in Frame
      /\ Top.pc \in Loop => Top.td \in Tds
  BY DEF TypeOK, Frames, Top, Depth
<1>2. ASSUME NEW p \in Pcs, NEW d \in Tds \cup {NONE}, GoTo(p, d) PROVE Goes(p, d)
  BY <1>2, GoToFrames DEF Goes, Top
<1>3. \A td \in Tds, v \in Nat, i \in Times : Settime(td, v, i) => Goes("scan", NONE)
  BY <1>2 DEF Settime, Pcs
<1>4. Scan => \E td \in Tds : next_expiring(td) /\ Goes("check", td)
  BY <1>2 DEF Scan, Pcs
<1>5. ScanFindsNone => Goes("user", NONE)
  BY <1>2 DEF ScanFindsNone, Pcs
<1>6. Check => IF Due(Top.td) THEN Goes("expire", Top.td) ELSE Goes("user", NONE)
  BY <1>1, <1>2 DEF Check, Pcs, Loop
<1>7. Expire => Goes("rearm", Top.td)
  BY <1>1, <1>2 DEF Expire, Pcs, Loop
<1>8. ExpireCalls => Pushed("callback")
  BY <1>1, CallFrames DEF ExpireCalls, Pushed, Top
<1>9. Rearm => Goes("scan", NONE)
  BY <1>2 DEF Rearm, Pcs
<1>10. FrameReturns => Popped
  <2>1. FrameReturns => Len(stack) > 1  BY <1>1 DEF FrameReturns, Frames, Top
  <2> QED  BY <2>1, ReturnFrames DEF FrameReturns, Popped
<1>11. HandlerRuns => Pushed("handler")
  BY <1>1, PushFrames DEF HandlerRuns, Pushed
<1> QED  BY <1>3, <1>4, <1>5, <1>6, <1>7, <1>8, <1>9, <1>10, <1>11

-----------------------------------------------------------------------------

(* A timer_settime() sets a natural number, whichever way it was asked. *)
LEMMA SettimeValue ==
    ASSUME TypeOK, NEW td \in Tds, NEW t \in Times, NEW i \in Times,
           SettimeRelative(td, t, i) \/ SettimeAbsolute(td, t, i)
    PROVE  \E v \in Nat : Settime(td, v, i)
<1>1. now[timers[td].clockid] \in Nat  BY DEF TypeOK, Timer, Now
<1>2. t \in Nat  BY TimeAssumption
<1> QED  BY <1>1, <1>2 DEF SettimeRelative, SettimeAbsolute

(* Frames are counted by natural numbers. *)
LEMMA FramesFinite ==
    ASSUME TypeOK, NEW S \in SUBSET (1..Len(stack))
    PROVE  IsFiniteSet(S) /\ Cardinality(S) \in Nat
<1>1. Len(stack) \in Int  BY DEF TypeOK
<1>2. IsFiniteSet(1..Len(stack))  BY <1>1, FS_Interval
<1> QED  BY <1>2, FS_Subset, FS_CardinalityType

LEMMA PendingCount == ASSUME TypeOK, NEW td PROVE Cardinality(Pending(td)) \in Nat
<1>1. Pending(td) \in SUBSET (1..Len(stack))  BY DEF Pending, FramesAt
<1> QED  BY <1>1, FramesFinite

LEMMA FramesStep ==
    ASSUME TypeOK, Frames,
           \/ UNCHANGED stack
           \/ \E p \in Pcs, d \in Tds \cup {NONE} : Goes(p, d) /\ (p \in Loop => d \in Tds)
           \/ Pushed("callback") /\ stack[Len(stack)].pc = "expire"
           \/ Pushed("handler") \/ Popped
    PROVE  Frames'
<1>1. Len(stack) \in Nat \ {0}  BY DEF TypeOK
<1>2. CASE UNCHANGED stack  BY <1>2 DEF Frames, Depth
<1>3. ASSUME NEW p \in Pcs, NEW d \in Tds \cup {NONE}, Goes(p, d), p \in Loop => d \in Tds
      PROVE  Frames'
  BY <1>1, <1>3 DEF Frames, Depth, Goes
<1>4. CASE Pushed("callback") /\ stack[Len(stack)].pc = "expire"
  BY <1>1, <1>4 DEF Frames, Depth, Pushed, Loop
<1>5. CASE Pushed("handler")
  <2>1. /\ Len(stack') = Len(stack) + 1
        /\ \A k \in 1..Len(stack) : /\ stack'[k].who = stack[k].who
                                    /\ stack'[k].pc = stack[k].pc /\ stack'[k].td = stack[k].td
        /\ stack'[Len(stack) + 1].who = "handler" /\ stack'[Len(stack) + 1].pc = "user"
    BY <1>1, <1>5 DEF Pushed
  <2> QED  BY <1>1, <2>1 DEF Frames, Depth, Loop
<1>6. CASE Popped
  BY <1>1, <1>6 DEF Frames, Depth, Popped
<1> QED  BY <1>2, <1>3, <1>4, <1>5, <1>6

(* The table, the clocks and the stack keep their types, and the stack its *)
(* shape.                                                                  *)
LEMMA StackInvariant == Spec => [](TypeOK /\ Frames)
<1>1. Init => TypeOK /\ Frames
  <2> SUFFICES ASSUME Init PROVE TypeOK /\ Frames  OBVIOUS
  <2>1. timers \in [Tds -> Timer]
    BY ClockAssumption, TimeAssumption DEF Init, Timer
  <2>2. stack \in Seq(Frame) /\ Len(stack) = 1 /\ stack[1].who = "thread" /\ stack[1].pc = "user"
    BY DEF Init, Frame
  <2> QED  BY <2>1, <2>2, TimeAssumption DEF Init, TypeOK, Now, Frames, Loop, Depth
<1>2. TypeOK /\ Frames /\ [Next]_vars => TypeOK' /\ Frames'
  <2> SUFFICES ASSUME TypeOK, Frames, [Next]_vars PROVE TypeOK' /\ Frames'  OBVIOUS
  <2>0. /\ Len(stack) \in 1..MaxDepth /\ NONE \in Tds \cup {NONE}
        /\ Top.pc \in Loop => Top.td \in Tds
    BY DEF TypeOK, Frames, Top, Depth
  <2>1. ASSUME UNCHANGED <<timers, now, owed, shots, reentered>>,
               stack' \in Seq(Frame), Len(stack') \in 1..MaxDepth
        PROVE  TypeOK'
    BY <2>1 DEF TypeOK
  <2>2. ASSUME NEW c \in Clocks, NEW n \in Notify, Create(c, n) PROVE TypeOK' /\ Frames'
    <3>1. timers' \in [Tds -> Timer]  BY <2>2, TimeAssumption DEF Create, TypeOK, Timer
    <3>2. shots' \in [Tds -> Nat]  BY <2>2 DEF Create, TypeOK
    <3>3. reentered' \in [Tds -> Nat]  BY <2>2, PendingCount DEF Create, TypeOK
    <3> QED  BY <2>2, <3>1, <3>2, <3>3, FramesStep DEF Create, TypeOK
  <2>3. ASSUME NEW td \in Tds, Delete(td) PROVE TypeOK' /\ Frames'
    <3>1. timers' \in [Tds -> Timer]  BY <2>3 DEF Delete, TypeOK, Timer
    <3> QED  BY <2>3, <3>1, FramesStep DEF Delete, TypeOK
  <2>4. ASSUME NEW td \in Tds, NEW v \in Nat, NEW i \in Times, Settime(td, v, i)
        PROVE  TypeOK' /\ Frames'
    <3>1. Goes("scan", NONE)  BY <2>4, StackSteps
    <3>2. Frames'  BY <2>0, <3>1, FramesStep DEF Pcs, Loop
    <3>3. timers' \in [Tds -> Timer]  BY <2>4 DEF Settime, TypeOK, Timer
    <3>4. owed' \subseteq Tds /\ shots' \in [Tds -> Nat]
      BY <2>4 DEF Settime, TypeOK, Armed
    <3>5. reentered' \in [Tds -> Nat]
      BY <2>4, PendingCount DEF Settime, TypeOK
    <3> QED  BY <2>0, <2>4, <3>1, <3>2, <3>3, <3>4, <3>5 DEF Settime, TypeOK, Goes
  <2>5. CASE Scan
    <3>1. PICK td \in Tds : Goes("check", td)  BY <2>5, StackSteps
    <3> QED  BY <2>0, <2>1, <2>5, <3>1, FramesStep DEF Scan, history, Goes, Pcs
  <2>6. CASE ScanFindsNone
    <3>1. Goes("user", NONE)  BY <2>6, StackSteps
    <3> QED  BY <2>0, <2>1, <2>6, <3>1, FramesStep DEF ScanFindsNone, history, Goes, Pcs, Loop
  <2>7. CASE Check
    <3>1. (Goes("expire", Top.td) /\ Top.td \in Tds) \/ Goes("user", NONE)
      BY <2>0, <2>7, StackSteps DEF Check, Loop
    <3>2. Frames'  BY <2>0, <3>1, FramesStep DEF Pcs, Loop
    <3> QED  BY <2>0, <2>1, <2>7, <3>1, <3>2 DEF Check, history, Goes
  <2>8. CASE Expire \/ ExpireCalls
    <3>1. /\ Top.td \in Tds
          /\ \/ Goes("rearm", Top.td)
             \/ Pushed("callback") /\ Top.pc = "expire" /\ Len(stack) < MaxDepth
      BY <2>0, <2>8, StackSteps DEF Expire, ExpireCalls, Loop
    <3>2. Frames'  BY <3>1, FramesStep DEF Pcs, Loop, Top
    <3>3. owed' \subseteq Tds /\ shots' \in [Tds -> Nat]
      BY <2>8, <3>1 DEF Expire, ExpireCalls, Expires, TypeOK
    <3>4. UNCHANGED <<timers, now, reentered>>  BY <2>8 DEF Expire, ExpireCalls
    <3>5. stack' \in Seq(Frame) /\ Len(stack') \in 1..MaxDepth
      BY <2>0, <3>1, TimeAssumption DEF Goes, Pushed
    <3> QED  BY <3>2, <3>3, <3>4, <3>5 DEF TypeOK
  <2>9. CASE Rearm
    <3>1. Goes("scan", NONE) /\ Top.td \in Tds
      BY <2>0, <2>9, StackSteps DEF Rearm, Loop
    <3>2. Frames'  BY <2>0, <3>1, FramesStep DEF Pcs, Loop
    <3>3. timers[Top.td] \in Timer /\ now[timers[Top.td].clockid] \in Nat
      BY <3>1 DEF TypeOK, Timer, Now
    <3>4. timers[Top.td].it_interval \in Nat  BY <3>3, TimeAssumption DEF Timer
    <3> DEFINE t == timers[Top.td]
               v == IF t.it_interval > 0 THEN now[t.clockid] + t.it_interval ELSE 0
    <3>5. v \in Nat /\ timers' = [timers EXCEPT ![Top.td].it_value = v]
      BY <2>9, <3>3, <3>4 DEF Rearm
    <3> HIDE DEF v
    <3>6. timers' \in [Tds -> Timer]  BY <3>5 DEF TypeOK, Timer
    <3> QED  BY <2>0, <2>9, <3>1, <3>2, <3>6 DEF Rearm, history, TypeOK, Goes
  <2>10. CASE FrameReturns
    <3>1. Popped  BY <2>10, StackSteps
    <3>2. Frames'  BY <3>1, FramesStep
    <3> QED  BY <2>0, <2>1, <2>10, <3>1, <3>2, TimeAssumption DEF FrameReturns, history, Popped
  <2>11. CASE HandlerRuns
    <3>1. Pushed("handler") /\ Len(stack) < MaxDepth  BY <2>11, StackSteps DEF HandlerRuns
    <3>2. Frames'  BY <3>1, FramesStep
    <3> QED  BY <2>0, <2>1, <2>11, <3>1, <3>2, TimeAssumption DEF HandlerRuns, history, Pushed
  <2>12. CASE sys_tick_handler
    BY <2>12, FramesStep, TimeAssumption DEF sys_tick_handler, history, TypeOK, Now
  <2>13. ASSUME NEW t \in Now, clock_settime(t) PROVE TypeOK' /\ Frames'
    BY <2>13, FramesStep DEF clock_settime, TypeOK
  <2>14. CASE UNCHANGED vars
    BY <2>14, FramesStep DEF vars, TypeOK
  <2> QED
    BY <2>2, <2>3, <2>4, <2>5, <2>6, <2>7, <2>8, <2>9, <2>10, <2>11, <2>12, <2>13, <2>14,
       SettimeValue DEF Next
<1> QED  BY <1>1, <1>2, PTL DEF Spec

(* Every variable keeps its type: the expiry loop never leaves the table,  *)
(* and the thread never returns from its own frame.                        *)
THEOREM TypeCorrect == Spec => []TypeOK
  BY StackInvariant, PTL

-----------------------------------------------------------------------------
(* How often a one-shot timer expires. *)

Active(k) == k \in 1..Len(stack) /\ stack[k].pc # "user"

(* All frames that are in timer_settime() stay where they are, but for n. *)
SameBut(n) ==
    /\ stack' \in Seq(Frame)
    /\ \A k \in Nat \ {n} :
        /\ Active(k)' <=> Active(k)
        /\ Active(k) => stack'[k].pc = stack[k].pc /\ stack'[k].td = stack[k].td

LEMMA OthersStay ==
    ASSUME TypeOK,
           \/ UNCHANGED stack
           \/ \E p, d : Goes(p, d)
           \/ Pushed("callback") \/ Pushed("handler")
           \/ Popped
    PROVE  SameBut(Len(stack))
<1>1. Len(stack) \in Nat \ {0}  BY DEF TypeOK
<1>2. CASE UNCHANGED stack  BY <1>2 DEF SameBut, Active, TypeOK
<1>3. CASE \E p, d : Goes(p, d)  BY <1>1, <1>3 DEF SameBut, Active, Goes
<1>4. CASE Pushed("callback") \/ Pushed("handler")
  <2>1. /\ stack' \in Seq(Frame)
        /\ Len(stack') = Len(stack) + 1 /\ stack'[Len(stack) + 1].pc = "user"
        /\ \A k \in 1..(Len(stack) - 1) : stack'[k] = stack[k]
    BY <1>4 DEF Pushed
  <2> QED  BY <1>1, <2>1 DEF SameBut, Active
<1>5. CASE Popped  BY <1>1, <1>5 DEF SameBut, Active, Popped
<1> QED  BY <1>2, <1>3, <1>4, <1>5

In(b) == IF b THEN 1 ELSE 0

(* Two sets that differ in n at most. *)
LEMMA CountStep ==
    ASSUME NEW S, NEW T, NEW n, IsFiniteSet(S), S \ {n} = T \ {n}
    PROVE  /\ Cardinality(S) \in Nat /\ Cardinality(T) \in Nat
           /\ Cardinality(T) = Cardinality(S) + In(n \in T) - In(n \in S)
<1>1. IsFiniteSet(S \ {n}) /\ Cardinality(S \ {n}) = Cardinality(S) - In(n \in S)
  BY FS_RemoveElement, FS_CardinalityType DEF In
<1>2. T = S \ {n} \/ T = (S \ {n}) \cup {n}  OBVIOUS
<1>3. IsFiniteSet(T) /\ Cardinality(T) = Cardinality(S \ {n}) + In(n \in T)
  <2>1. CASE T = S \ {n}  BY <1>1, <2>1, FS_CardinalityType DEF In
  <2>2. CASE T = (S \ {n}) \cup {n}  BY <1>1, <2>2, FS_AddElement DEF In
  <2> QED  BY <1>2, <2>1, <2>2
<1>4. Cardinality(S) \in Nat /\ Cardinality(T) \in Nat /\ Cardinality(S \ {n}) \in Nat
  BY <1>1, <1>3, FS_CardinalityType
<1> QED  BY <1>1, <1>3, <1>4 DEF In

(* What the step of one frame does to the counts. *)
LEMMA Counts ==
    ASSUME TypeOK, NEW n \in Nat, SameBut(n), NEW td \in Tds
    PROVE  /\ FramesAt(Loop, td) \ {n} = FramesAt(Loop, td)' \ {n}
           /\ Cardinality(Pending(td)) \in Nat /\ Cardinality(Pending(td)') \in Nat
           /\ Cardinality(Pending(td)') = Cardinality(Pending(td))
                    + In(n \in Pending(td)') - In(n \in Pending(td))
           /\ \A f \in Nat :
                /\ Cardinality(Ahead(f, td)) \in Nat /\ Cardinality(Ahead(f, td)') \in Nat
                /\ Cardinality(Ahead(f, td)') = Cardinality(Ahead(f, td))
                        + In(n \in Ahead(f, td)') - In(n \in Ahead(f, td))
<1>0. Len(stack) \in Nat /\ Len(stack') \in Nat  BY DEF TypeOK, SameBut
<1>1. /\ Pending(td) = {k \in Nat : Active(k) /\ stack[k].pc \in {"check", "expire"}
                                        /\ stack[k].td = td}
      /\ FramesAt(Loop, td) = {k \in Nat : Active(k) /\ stack[k].pc \in Loop /\ stack[k].td = td}
      /\ \A f \in Nat : Ahead(f, td) =
            {k \in Nat : /\ Active(k)
                         /\ \/ stack[k].pc \in {"check", "expire"} /\ stack[k].td = td
                            \/ k > f /\ ~(stack[k].pc \in Loop /\ stack[k].td = td)}
  BY <1>0 DEF Pending, FramesAt, Ahead, Active, Loop, Depth
<1>2. /\ Pending(td)' = {k \in Nat : Active(k)' /\ stack'[k].pc \in {"check", "expire"}
                                        /\ stack'[k].td = td}
      /\ FramesAt(Loop, td)' =
            {k \in Nat : Active(k)' /\ stack'[k].pc \in Loop /\ stack'[k].td = td}
      /\ \A f \in Nat : Ahead(f, td)' =
            {k \in Nat : /\ Active(k)'
                         /\ \/ stack'[k].pc \in {"check", "expire"} /\ stack'[k].td = td
                            \/ k > f /\ ~(stack'[k].pc \in Loop /\ stack'[k].td = td)}
  BY <1>0 DEF Pending, FramesAt, Ahead, Active, Loop, Depth
<1>3. Pending(td) \ {n} = Pending(td)' \ {n}
  BY <1>1, <1>2 DEF SameBut
<1>4. FramesAt(Loop, td) \ {n} = FramesAt(Loop, td)' \ {n}
  BY <1>1, <1>2 DEF SameBut
<1>5. ASSUME NEW f \in Nat PROVE Ahead(f, td) \ {n} = Ahead(f, td)' \ {n}
  BY <1>1, <1>2 DEF SameBut
<1>6. IsFiniteSet(Pending(td))
  <2>1. Pending(td) \in SUBSET (1..Len(stack))  BY DEF Pending, FramesAt
  <2> QED  BY <2>1, FramesFinite
<1>7. ASSUME NEW f \in Nat PROVE IsFiniteSet(Ahead(f, td))
  <2>1. Ahead(f, td) \in SUBSET (1..Len(stack))  BY DEF Ahead, Pending, FramesAt, Depth
  <2> QED  BY <2>1, FramesFinite
<1>8. /\ Cardinality(Pending(td)) \in Nat /\ Cardinality(Pending(td)') \in Nat
      /\ Cardinality(Pending(td)') = Cardinality(Pending(td))
                + In(n \in Pending(td)') - In(n \in Pending(td))
  BY <1>3, <1>6, CountStep
<1>9. ASSUME NEW f \in Nat
      PROVE  /\ Cardinality(Ahead(f, td)) \in Nat /\ Cardinality(Ahead(f, td)') \in Nat
             /\ Cardinality(Ahead(f, td)') = Cardinality(Ahead(f, td))
                    + In(n \in Ahead(f, td)') - In(n \in Ahead(f, td))
  BY <1>5, <1>7, CountStep
<1> QED  BY <1>4, <1>8, <1>9

(* A step that leaves a timer and its counts alone, and lets nobody choose *)
(* it or forget it.                                                        *)
LEMMA ShotsSame ==
    ASSUME TypeOK, NEW n \in Nat, SameBut(n), NEW td \in Tds, ShotsOK(td),
           shots'[td] = shots[td], reentered'[td] = reentered[td],
           isarmed(td)' => isarmed(td),
           n \in Pending(td)' => n \in Pending(td),
           n \in FramesAt(Loop, td) => n \in FramesAt(Loop, td)',
           \A f \in Nat : n \in Ahead(f, td)' => n \in Ahead(f, td)
    PROVE  ShotsOK(td)'
<1>1. /\ shots[td] \in Nat /\ reentered[td] \in Nat
      /\ \A f \in FramesAt(Loop, td) : f \in Nat
  BY DEF TypeOK, FramesAt
<1>2. /\ Cardinality(Pending(td)) \in Nat /\ Cardinality(Pending(td)') \in Nat
      /\ Cardinality(Pending(td)') <= Cardinality(Pending(td))
  BY Counts DEF In
<1>3. ASSUME NEW f \in Nat
      PROVE  /\ Cardinality(Ahead(f, td)) \in Nat /\ Cardinality(Ahead(f, td)') \in Nat
             /\ Cardinality(Ahead(f, td)') <= Cardinality(Ahead(f, td))
  BY Counts DEF In
<1>4. FramesAt(Loop, td) \subseteq FramesAt(Loop, td)'
  BY Counts
<1>5. shots'[td] + Cardinality(Pending(td)') <= reentered'[td] + 1
  BY <1>1, <1>2 DEF ShotsOK
<1>6. ASSUME isarmed(td)'
      PROVE  \/ shots'[td] + Cardinality(Pending(td)') <= reentered'[td]
             \/ \E f \in FramesAt(Loop, td)' :
                    shots'[td] + Cardinality(Ahead(f, td)') <= reentered'[td] + 1
  <2>1. CASE shots[td] + Cardinality(Pending(td)) <= reentered[td]
    BY <1>1, <1>2, <2>1
  <2>2. ASSUME NEW f \in FramesAt(Loop, td),
               shots[td] + Cardinality(Ahead(f, td)) <= reentered[td] + 1
        PROVE  shots'[td] + Cardinality(Ahead(f, td)') <= reentered'[td] + 1
    BY <1>1, <1>3, <2>2
  <2> QED  BY <1>4, <1>6, <2>1, <2>2 DEF ShotsOK
<1> QED  BY <1>5, <1>6 DEF ShotsOK

(* A frame's place decides in which sets it is. *)
LEMMA Places ==
    ASSUME TypeOK, NEW n \in 1..Len(stack), NEW td \in Tds
    PROVE  /\ n \in Pending(td) <=> stack[n].pc \in {"check", "expire"} /\ stack[n].td = td
           /\ n \in FramesAt(Loop, td) <=> stack[n].pc \in Loop /\ stack[n].td = td
           /\ \A f \in Nat : n \in Ahead(f, td) <=>
                \/ stack[n].pc \in {"check", "expire"} /\ stack[n].td = td
                \/ /\ n > f /\ stack[n].pc # "user"
                   /\ ~(stack[n].pc \in Loop /\ stack[n].td = td)
           /\ \A f \in Nat : Pending(td) \subseteq Ahead(f, td)
  BY DEF Pending, FramesAt, Ahead, Depth

(* ... after a step as well. *)
LEMMA PlacesAfter ==
    ASSUME NEW n \in 1..Len(stack'), NEW td \in Tds
    PROVE  /\ n \in Pending(td)' <=> stack'[n].pc \in {"check", "expire"} /\ stack'[n].td = td
           /\ n \in FramesAt(Loop, td)' <=> stack'[n].pc \in Loop /\ stack'[n].td = td
           /\ \A f \in Nat : n \in Ahead(f, td)' <=>
                \/ stack'[n].pc \in {"check", "expire"} /\ stack'[n].td = td
                \/ /\ n > f /\ stack'[n].pc # "user"
                   /\ ~(stack'[n].pc \in Loop /\ stack'[n].td = td)
  BY DEF Pending, FramesAt, Ahead, Depth

(* What the step of frame n does to the counts, by its places. *)
Chose(f, td) == f.pc \in {"check", "expire"} /\ f.td = td
MayChoose(f, td) == f.pc # "user" /\ ~(f.pc \in Loop /\ f.td = td)

(* The chosen and those ahead, before and after the step of frame n. *)
Changes(n, td) ==
    /\ Cardinality(Pending(td)) \in Nat /\ Cardinality(Pending(td)') \in Nat
    /\ Cardinality(Pending(td)') = Cardinality(Pending(td))
            + In(Chose(stack'[n], td)) - In(Chose(stack[n], td))
    /\ \A f \in Nat :
        /\ Cardinality(Ahead(f, td)) \in Nat /\ Cardinality(Ahead(f, td)') \in Nat
        /\ Cardinality(Ahead(f, td)') = Cardinality(Ahead(f, td))
                + In(Chose(stack'[n], td) \/ (n > f /\ MayChoose(stack'[n], td)))
                - In(Chose(stack[n], td) \/ (n > f /\ MayChoose(stack[n], td)))
    /\ \A f \in FramesAt(Loop, td) :
        /\ f \in Nat
        /\ f # n \/ (stack'[n].pc \in Loop /\ stack'[n].td = td)
                => f \in FramesAt(Loop, td)'

LEMMA TopCounts ==
    ASSUME TypeOK, NEW n \in Nat, n \in 1..Len(stack), n \in 1..Len(stack'), SameBut(n),
           NEW td \in Tds
    PROVE  Changes(n, td)
<1>1. n \in Nat  OBVIOUS
<1>2. (n \in Pending(td)' <=> Chose(stack'[n], td)) /\ (n \in Pending(td) <=> Chose(stack[n], td))
  BY Places, PlacesAfter DEF Chose
<1>3. ASSUME NEW f \in Nat
      PROVE  /\ n \in Ahead(f, td)' <=>
                    Chose(stack'[n], td) \/ (n > f /\ MayChoose(stack'[n], td))
             /\ n \in Ahead(f, td) <=> Chose(stack[n], td) \/ (n > f /\ MayChoose(stack[n], td))
  BY Places, PlacesAfter DEF Chose, MayChoose
<1>4. /\ Cardinality(Pending(td)) \in Nat /\ Cardinality(Pending(td)') \in Nat
      /\ Cardinality(Pending(td)') = Cardinality(Pending(td))
                + In(n \in Pending(td)') - In(n \in Pending(td))
  BY <1>1, Counts
<1>5. ASSUME NEW f \in Nat
      PROVE  /\ Cardinality(Ahead(f, td)) \in Nat /\ Cardinality(Ahead(f, td)') \in Nat
             /\ Cardinality(Ahead(f, td)') = Cardinality(Ahead(f, td))
                    + In(n \in Ahead(f, td)') - In(n \in Ahead(f, td))
  BY <1>1, Counts
<1>6. FramesAt(Loop, td) \ {n} = FramesAt(Loop, td)' \ {n}  BY <1>1, Counts
<1>7. n \in FramesAt(Loop, td)' <=> stack'[n].pc \in Loop /\ stack'[n].td = td
  BY PlacesAfter
<1>8. \A f \in FramesAt(Loop, td) : f \in Nat  BY DEF FramesAt, TypeOK
<1>9. Cardinality(Pending(td)') = Cardinality(Pending(td))
            + In(Chose(stack'[n], td)) - In(Chose(stack[n], td))
  BY <1>2, <1>4 DEF In
<1>10. ASSUME NEW f \in Nat
       PROVE  Cardinality(Ahead(f, td)') = Cardinality(Ahead(f, td))
                    + In(Chose(stack'[n], td) \/ (n > f /\ MayChoose(stack'[n], td)))
                    - In(Chose(stack[n], td) \/ (n > f /\ MayChoose(stack[n], td)))
  BY <1>3, <1>5 DEF In
<1> QED  BY <1>4, <1>5, <1>6, <1>7, <1>8, <1>9, <1>10 DEF Changes

(* Frames that are not in timer_settime() come and go. *)
LEMMA ShotsUser ==
    ASSUME TypeOK, NEW td \in Tds, ShotsOK(td),
           UNCHANGED <<shots, reentered>>, isarmed(td)' => isarmed(td),
           \/ UNCHANGED stack
           \/ Pushed("handler")
           \/ Popped /\ stack[Len(stack)].pc = "user"
    PROVE  ShotsOK(td)'
<1> DEFINE n == Len(stack)
<1>1. n \in Nat /\ n \in 1..Len(stack) /\ SameBut(n)  BY OthersStay DEF TypeOK
<1>2. CASE UNCHANGED stack \/ Pushed("handler")
  <2>1. n \in 1..Len(stack') /\ stack'[n].pc = stack[n].pc /\ stack'[n].td = stack[n].td
    BY <1>1, <1>2 DEF Pushed
  <2> HIDE DEF n
  <2> QED  BY <1>1, <2>1, Places, PlacesAfter, ShotsSame
<1>3. CASE Popped /\ stack[Len(stack)].pc = "user"
  <2>1. n \notin 1..Len(stack') /\ stack[n].pc = "user"  BY <1>1, <1>3 DEF Popped
  <2>2. /\ n \notin Pending(td)' /\ n \notin FramesAt(Loop, td)
        /\ \A f \in Nat : n \notin Ahead(f, td)'
    BY <1>1, <2>1, Places DEF Pending, FramesAt, Ahead, Depth, Loop
  <2> HIDE DEF n
  <2> QED  BY <1>1, <2>2, ShotsSame
<1> QED  BY <1>2, <1>3

(* The invariant: re-entries pay for every expiry but one. *)
LEMMA ShotsInvariant == Spec => []Shots
<1>1. Init => Shots
  <2> SUFFICES ASSUME Init, NEW td \in Tds PROVE ShotsOK(td)  BY DEF Shots
  <2>1. Pending(td) = {}  BY DEF Init, Pending, FramesAt
  <2>2. Cardinality(Pending(td)) = 0 /\ shots[td] = 0 /\ reentered[td] = 0 /\ ~isarmed(td)
    BY <2>1, FS_EmptySet DEF Init, isarmed
  <2> QED  BY <2>2 DEF ShotsOK
<1>2. TypeOK /\ Frames /\ Shots /\ [Next]_vars => Shots'
  <2> SUFFICES ASSUME TypeOK, Frames, Shots, [Next]_vars,
                      NEW td \in Tds, OneShot(td)' PROVE ShotsOK(td)'
    BY DEF Shots
  <2> DEFINE n == Len(stack)
  <2>0. /\ n \in Nat /\ n \in 1..Len(stack) /\ Top = stack[n]
        /\ Top.pc \in Loop => Top.td \in Tds
        /\ shots[td] \in Nat /\ reentered[td] \in Nat
        /\ \A f \in FramesAt(Loop, td) : f \in Nat /\ f <= n
    BY DEF TypeOK, Frames, Top, Depth, FramesAt
  <2>1. ASSUME UNCHANGED stack, shots'[td] = 0,
               reentered'[td] = Cardinality(Pending(td)), ~isarmed(td)'
        PROVE  ShotsOK(td)'
    <3>1. Pending(td)' = Pending(td)  BY <2>1 DEF Pending, FramesAt
    <3> QED  BY <2>1, <3>1, PendingCount DEF ShotsOK
  <2>2. ASSUME NEW c \in Clocks, NEW m \in Notify, Create(c, m) PROVE ShotsOK(td)'
    <3>1. PICK u \in Tds :
            /\ timers' = [timers EXCEPT ![u] =
                            [allocated |-> TRUE, clockid |-> c, notify |-> m,
                             it_value |-> 0, it_interval |-> 0]]
            /\ shots' = [shots EXCEPT ![u] = 0]
            /\ reentered' = [reentered EXCEPT ![u] = Cardinality(Pending(u))]
      BY <2>2 DEF Create
    <3>2. UNCHANGED stack  BY <2>2 DEF Create
    <3>3. CASE u = td
      <4>1. /\ ~isarmed(td)' /\ shots'[td] = 0 /\ reentered'[td] = Cardinality(Pending(td))
        BY <3>1, <3>3 DEF isarmed, TypeOK
      <4> QED  BY <2>1, <3>2, <4>1
    <3>4. CASE u # td
      <4>1. timers'[td] = timers[td] /\ shots'[td] = shots[td] /\ reentered'[td] = reentered[td]
        BY <3>1, <3>4 DEF TypeOK
      <4>2. ShotsOK(td)  BY <4>1 DEF Shots, OneShot
      <4>3. SameBut(n)  BY <3>2, OthersStay
      <4>4. n \in 1..Len(stack') /\ stack' = stack  BY <2>0, <3>2
      <4> HIDE DEF n
      <4>5. /\ n \in Pending(td)' => n \in Pending(td)
            /\ n \in FramesAt(Loop, td) => n \in FramesAt(Loop, td)'
            /\ \A f \in Nat : n \in Ahead(f, td)' => n \in Ahead(f, td)
        BY <4>4 DEF Pending, FramesAt, Ahead, Depth
      <4> QED  BY <2>0, <4>1, <4>2, <4>3, <4>5, ShotsSame DEF isarmed
    <3> QED  BY <3>3, <3>4
  <2>3. ASSUME NEW u \in Tds, Delete(u) PROVE ShotsOK(td)'
    <3>1. /\ UNCHANGED <<stack, shots, reentered>>
          /\ timers'[td].it_interval = timers[td].it_interval
          /\ timers'[td].it_value = timers[td].it_value
          /\ timers'[td].allocated => timers[td].allocated
      BY <2>3 DEF Delete, TypeOK, Timer
    <3>2. ShotsOK(td)  BY <3>1 DEF Shots, OneShot
    <3> QED  BY <3>1, <3>2, ShotsUser DEF isarmed
  <2>4. ASSUME NEW u \in Tds, NEW v \in Nat, NEW i \in Times, Settime(u, v, i)
        PROVE  ShotsOK(td)'
    <3>1. Goes("scan", NONE) /\ Top.pc = "user"  BY <2>4, StackSteps DEF Settime
    <3>2. SameBut(n)  BY <3>1, OthersStay
    <3>3. n \in 1..Len(stack') /\ stack'[n].pc = "scan" /\ stack[n].pc = "user"
      BY <2>0, <3>1 DEF Goes
    <3> HIDE DEF n
    <3>0. Changes(n, td)  BY <2>0, <3>2, <3>3, TopCounts
    <3>4. /\ Cardinality(Pending(td)) \in Nat
          /\ Cardinality(Pending(td)') = Cardinality(Pending(td))
      BY <3>3, <3>0 DEF Changes, In, Chose
    <3>5. CASE u = td
      <4>1. shots'[td] = 0 /\ reentered'[td] = Cardinality(Pending(td))
        BY <2>4, <3>5 DEF Settime, TypeOK
      <4> QED  BY <3>4, <4>1 DEF ShotsOK
    <3>6. CASE u # td
      <4>1. /\ timers'[td] = timers[td] /\ shots'[td] = shots[td]
            /\ reentered'[td] = IF td \in Reentrant THEN reentered[td] + 1 ELSE reentered[td]
        BY <2>4, <3>6 DEF Settime, TypeOK
      <4>2. ShotsOK(td) /\ OneShot(td)  BY <4>1 DEF Shots, OneShot
      <4>3. isarmed(td)' <=> isarmed(td)  BY <4>1 DEF isarmed
      <4>4. shots'[td] + Cardinality(Pending(td)') <= reentered'[td] + 1
        BY <2>0, <3>4, <4>1, <4>2 DEF ShotsOK
      <4>5. CASE shots[td] + Cardinality(Pending(td)) <= reentered[td]
        <5>1. shots'[td] + Cardinality(Pending(td)') <= reentered'[td]
          BY <2>0, <3>4, <4>1, <4>5
        <5> QED  BY <4>4, <5>1 DEF ShotsOK
      <4>6. ASSUME isarmed(td), NEW f \in FramesAt(Loop, td),
                   shots[td] + Cardinality(Ahead(f, td)) <= reentered[td] + 1
            PROVE  ShotsOK(td)'
        <5>1. td \in Reentrant  BY <4>2, <4>6 DEF Reentrant, Armed, Loop
        <5>2. f \in Nat /\ f \in FramesAt(Loop, td)'
          <6>1. f # n  BY <2>0, <3>3, <4>6, Places DEF Loop
          <6> QED  BY <3>0, <4>6, <6>1 DEF Changes
        <5>3. /\ Cardinality(Ahead(f, td)) \in Nat /\ Cardinality(Ahead(f, td)') \in Nat
              /\ Cardinality(Ahead(f, td)') <= Cardinality(Ahead(f, td)) + 1
          <6>1. \A b \in BOOLEAN : In(b) \in {0, 1}  BY DEF In
          <6>2. PICK b1 \in BOOLEAN, b2 \in BOOLEAN :
                    Cardinality(Ahead(f, td)') = Cardinality(Ahead(f, td)) + In(b1) - In(b2)
            <7> DEFINE b1 == Chose(stack'[n], td) \/ (n > f /\ MayChoose(stack'[n], td))
                       b2 == Chose(stack[n], td) \/ (n > f /\ MayChoose(stack[n], td))
            <7>1. b1 \in BOOLEAN /\ b2 \in BOOLEAN  OBVIOUS
            <7>2. Cardinality(Ahead(f, td)') = Cardinality(Ahead(f, td)) + In(b1) - In(b2)
              BY <3>0, <5>2 DEF Changes
            <7> HIDE DEF b1, b2
            <7> QED  BY <7>1, <7>2
          <6>3. Cardinality(Ahead(f, td)) \in Nat /\ Cardinality(Ahead(f, td)') \in Nat
            BY <3>0, <5>2 DEF Changes
          <6> QED  BY <6>1, <6>2, <6>3
        <5>4. shots'[td] + Cardinality(Ahead(f, td)') <= reentered'[td] + 1
          BY <2>0, <4>1, <4>6, <5>1, <5>3
        <5> QED  BY <4>4, <5>2, <5>4 DEF ShotsOK
      <4>7. CASE ~isarmed(td)
        BY <4>3, <4>4, <4>7 DEF ShotsOK
      <4> QED  BY <4>2, <4>5, <4>6, <4>7 DEF ShotsOK
    <3> QED  BY <3>5, <3>6
  <2>5. CASE Scan
    <3>1. PICK u \in Tds : isarmed(u) /\ Goes("check", u)
      BY <2>5, StackSteps DEF next_expiring, Armed
    <3>2. UNCHANGED <<timers, shots, reentered>> /\ Top.pc = "scan"
      BY <2>5 DEF Scan, history
    <3>3. SameBut(n)  BY <3>1, OthersStay
    <3>4. /\ n \in 1..Len(stack') /\ stack'[n].pc = "check" /\ stack'[n].td = u
          /\ stack[n].pc = "scan"
      BY <2>0, <3>1, <3>2 DEF Goes
    <3>5. ShotsOK(td)  BY <3>2 DEF Shots, OneShot
    <3> HIDE DEF n
    <3>6. CASE u # td
      BY <2>0, <3>2, <3>3, <3>4, <3>5, <3>6, Places, PlacesAfter, ShotsSame DEF isarmed, Loop
    <3>0. Changes(n, td)  BY <2>0, <3>3, <3>4, TopCounts
    <3>7. CASE u = td
      <4>1. /\ Cardinality(Pending(td)) \in Nat /\ Cardinality(Pending(td)') \in Nat
            /\ Cardinality(Pending(td)') = Cardinality(Pending(td)) + 1
        BY <3>4, <3>7, <3>0 DEF Changes, In, Chose
      <4>2. CASE shots[td] + Cardinality(Pending(td)) <= reentered[td]
        <5>0. PICK f \in Nat : f = n  BY <2>0
        <5>1. f \in FramesAt(Loop, td)'
          BY <2>0, <3>4, <3>7, <5>0, PlacesAfter DEF Loop
        <5>2. Ahead(f, td)' = Pending(td)'
          <6>1. Len(stack') = f  BY <3>1, <5>0 DEF Goes, n
          <6>2. {k \in 1..Len(stack') : /\ k > f /\ stack'[k].pc # "user"
                                       /\ k \notin FramesAt(Loop, td)'} = {}
            BY <6>1
          <6> QED  BY <6>2 DEF Ahead, Depth
        <5>3. shots'[td] + Cardinality(Ahead(f, td)') <= reentered'[td] + 1
          BY <2>0, <3>2, <4>1, <4>2, <5>2
        <5>4. shots'[td] + Cardinality(Pending(td)') <= reentered'[td] + 1
          BY <5>2, <5>3
        <5> QED  BY <5>1, <5>3, <5>4 DEF ShotsOK
      <4>3. ASSUME NEW f \in FramesAt(Loop, td),
                   shots[td] + Cardinality(Ahead(f, td)) <= reentered[td] + 1
            PROVE  ShotsOK(td)'
        <5>1. /\ f \in Nat /\ f < n /\ f \in FramesAt(Loop, td)'
          <6>1. f # n /\ f <= n  BY <2>0, <3>4, <4>3, Places DEF Loop
          <6> QED  BY <2>0, <3>0, <4>3, <6>1 DEF Changes
        <5>2. /\ Cardinality(Ahead(f, td)) \in Nat /\ Cardinality(Ahead(f, td)') \in Nat
              /\ Cardinality(Ahead(f, td)') = Cardinality(Ahead(f, td))
          BY <2>0, <3>4, <3>7, <3>0, <5>1 DEF Changes, In, Chose, MayChoose, Loop
        <5>3. Cardinality(Pending(td)') <= Cardinality(Ahead(f, td)')
          <6>1. stack' \in Seq(Frame)  BY <3>1 DEF Goes
          <6>2. Ahead(f, td)' \subseteq 1..Len(stack') /\ Pending(td)' \subseteq Ahead(f, td)'
            BY DEF Ahead, Pending, FramesAt, Depth
          <6>3. IsFiniteSet(1..Len(stack'))  BY <6>1, FS_Interval
          <6>4. IsFiniteSet(Ahead(f, td)')  BY <6>2, <6>3, FS_Subset
          <6> QED  BY <6>2, <6>4, FS_Subset
        <5>4. shots'[td] + Cardinality(Ahead(f, td)') <= reentered'[td] + 1
          BY <2>0, <3>2, <4>3, <5>2
        <5>5. shots'[td] + Cardinality(Pending(td)') <= reentered'[td] + 1
          BY <2>0, <3>2, <4>1, <5>2, <5>3, <5>4
        <5> QED  BY <5>1, <5>4, <5>5 DEF ShotsOK
      <4> QED  BY <3>1, <3>5, <3>7, <4>2, <4>3 DEF ShotsOK
    <3> QED  BY <3>6, <3>7
  <2>6. CASE ScanFindsNone
    <3>1. Goes("user", NONE) /\ Top.pc = "scan"  BY <2>6, StackSteps DEF ScanFindsNone
    <3>2. UNCHANGED <<timers, shots, reentered>>  BY <2>6 DEF ScanFindsNone, history
    <3>3. SameBut(n)  BY <3>1, OthersStay
    <3>4. n \in 1..Len(stack') /\ stack'[n].pc = "user" /\ stack[n].pc = "scan"
      BY <2>0, <3>1 DEF Goes
    <3>5. ShotsOK(td)  BY <3>2 DEF Shots, OneShot
    <3> HIDE DEF n
    <3> QED  BY <2>0, <3>2, <3>3, <3>4, <3>5, Places, PlacesAfter, ShotsSame DEF isarmed, Loop
  <2>7. CASE Check
    <3>1. Top.pc = "check" /\ (Goes("expire", Top.td) \/ Goes("user", NONE))
      BY <2>7, StackSteps DEF Check
    <3>2. UNCHANGED <<timers, shots, reentered>>  BY <2>7 DEF Check, history
    <3>3. SameBut(n)  BY <3>1, OthersStay
    <3>4. /\ n \in 1..Len(stack') /\ stack[n].pc = "check"
          /\ \/ stack'[n].pc = "expire" /\ stack'[n].td = stack[n].td
             \/ stack'[n].pc = "user"
      BY <2>0, <3>1 DEF Goes
    <3>5. ShotsOK(td)  BY <3>2 DEF Shots, OneShot
    <3> HIDE DEF n
    <3>6. CASE stack'[n].pc = "expire" \/ stack[n].td # td
      BY <2>0, <3>2, <3>3, <3>4, <3>5, <3>6, Places, PlacesAfter, ShotsSame DEF isarmed, Loop
    <3>7. CASE stack'[n].pc = "user" /\ stack[n].td = td
      <4>0. Changes(n, td)  BY <2>0, <3>3, <3>4, TopCounts
      <4>1. /\ Cardinality(Pending(td)) \in Nat /\ Cardinality(Pending(td)') \in Nat
            /\ Cardinality(Pending(td)') = Cardinality(Pending(td)) - 1
        BY <3>4, <3>7, <4>0 DEF Changes, In, Chose
      <4>2. shots'[td] + Cardinality(Pending(td)') <= reentered'[td]
        BY <2>0, <3>2, <3>5, <4>1 DEF ShotsOK
      <4>3. shots'[td] + Cardinality(Pending(td)') <= reentered'[td] + 1
        BY <2>0, <3>2, <4>1, <4>2
      <4> QED  BY <4>2, <4>3 DEF ShotsOK
    <3> QED  BY <3>4, <3>6, <3>7
  <2>8. CASE Expire \/ ExpireCalls
    <3>1. Top.pc = "expire" /\ (Goes("rearm", Top.td) \/ Pushed("callback"))
      BY <2>8, StackSteps DEF Expire, ExpireCalls
    <3>2. /\ UNCHANGED <<timers, reentered>>
          /\ shots' = [shots EXCEPT ![Top.td] = IF OneShot(Top.td) THEN @ + 1 ELSE @]
      BY <2>8 DEF Expire, ExpireCalls, Expires
    <3>3. SameBut(n)  BY <3>1, OthersStay
    <3>4. /\ n \in 1..Len(stack') /\ stack[n].pc = "expire"
          /\ stack'[n].pc = "rearm" /\ stack'[n].td = stack[n].td
      BY <2>0, <3>1 DEF Goes, Pushed
    <3>5. ShotsOK(td) /\ OneShot(td)  BY <3>2 DEF Shots, OneShot
    <3> HIDE DEF n
    <3>6. CASE stack[n].td # td
      <4>1. shots'[td] = shots[td]  BY <2>0, <3>2, <3>6 DEF TypeOK
      <4> QED
        BY <2>0, <3>2, <3>3, <3>4, <3>5, <3>6, <4>1, Places, PlacesAfter, ShotsSame
           DEF isarmed, Loop
    <3>7. CASE stack[n].td = td
      <4>1. shots'[td] = shots[td] + 1  BY <2>0, <3>2, <3>5, <3>7 DEF TypeOK
      <4>0. Changes(n, td)  BY <2>0, <3>3, <3>4, TopCounts
      <4>2. /\ Cardinality(Pending(td)) \in Nat /\ Cardinality(Pending(td)') \in Nat
            /\ Cardinality(Pending(td)') = Cardinality(Pending(td)) - 1
        BY <3>4, <3>7, <4>0 DEF Changes, In, Chose
      <4>3. ASSUME NEW f \in Nat
            PROVE  /\ Cardinality(Ahead(f, td)) \in Nat /\ Cardinality(Ahead(f, td)') \in Nat
                   /\ Cardinality(Ahead(f, td)') = Cardinality(Ahead(f, td)) - 1
        <5>1. ~Chose(stack'[n], td) /\ ~MayChoose(stack'[n], td)
          BY <3>4, <3>7 DEF Chose, MayChoose, Loop
        <5>2. Chose(stack[n], td)  BY <3>4, <3>7 DEF Chose
        <5> QED  BY <4>0, <4>3, <5>1, <5>2 DEF Changes, In
      <4>4. FramesAt(Loop, td) \subseteq FramesAt(Loop, td)'
        BY <3>4, <3>7, <4>0 DEF Changes, Loop
      <4>5. isarmed(td)' <=> isarmed(td)  BY <3>2 DEF isarmed
      <4>6. shots'[td] + Cardinality(Pending(td)') <= reentered'[td] + 1
        BY <2>0, <3>2, <3>5, <4>1, <4>2 DEF ShotsOK
      <4>7. CASE shots[td] + Cardinality(Pending(td)) <= reentered[td]
        <5>1. shots'[td] + Cardinality(Pending(td)') <= reentered'[td]
          BY <2>0, <3>2, <4>1, <4>2, <4>7
        <5> QED  BY <4>6, <5>1 DEF ShotsOK
      <4>8. ASSUME NEW f \in FramesAt(Loop, td),
                   shots[td] + Cardinality(Ahead(f, td)) <= reentered[td] + 1
            PROVE  ShotsOK(td)'
        <5>1. f \in Nat /\ f \in FramesAt(Loop, td)'  BY <2>0, <4>4, <4>8
        <5>2. shots'[td] + Cardinality(Ahead(f, td)') <= reentered'[td] + 1
          BY <2>0, <3>2, <4>1, <4>3, <4>8, <5>1
        <5> QED  BY <4>6, <5>1, <5>2 DEF ShotsOK
      <4> QED  BY <3>5, <4>5, <4>6, <4>7, <4>8 DEF ShotsOK
    <3> QED  BY <3>6, <3>7
  <2>9. CASE Rearm
    <3>1. Goes("scan", NONE) /\ Top.pc = "rearm" /\ Top.td \in Tds
      BY <2>0, <2>9, StackSteps DEF Rearm, Loop
    <3>2. UNCHANGED <<shots, reentered>>  BY <2>9 DEF Rearm, history
    <3>3. SameBut(n)  BY <3>1, OthersStay
    <3>4. n \in 1..Len(stack') /\ stack'[n].pc = "scan" /\ stack[n].pc = "rearm"
      BY <2>0, <3>1 DEF Goes
    <3>5. /\ timers'[td].it_interval = timers[td].it_interval
          /\ td # Top.td => timers'[td] = timers[td]
          /\ td = Top.td /\ timers[td].it_interval = 0 => timers'[td].it_value = 0
      BY <2>9, <3>1 DEF Rearm, TypeOK, Timer
    <3>6. ShotsOK(td) /\ OneShot(td)  BY <3>5 DEF Shots, OneShot
    <3> HIDE DEF n
    <3>7. CASE stack[n].td # td
      BY <2>0, <3>2, <3>3, <3>4, <3>5, <3>6, <3>7, Places, PlacesAfter, ShotsSame
         DEF isarmed, Loop
    <3>8. CASE stack[n].td = td
      <4>1. ~isarmed(td)'  BY <2>0, <3>5, <3>6, <3>8 DEF isarmed, OneShot
      <4>0. Changes(n, td)  BY <2>0, <3>3, <3>4, TopCounts
      <4>2. /\ Cardinality(Pending(td)) \in Nat
            /\ Cardinality(Pending(td)') = Cardinality(Pending(td))
        BY <3>4, <4>0 DEF Changes, In, Chose
      <4> QED  BY <3>2, <3>6, <4>1, <4>2 DEF ShotsOK
    <3> QED  BY <3>7, <3>8
  <2>10. CASE FrameReturns \/ HandlerRuns
    <3>1. /\ UNCHANGED <<timers, shots, reentered>>
          /\ Pushed("handler") \/ (Popped /\ stack[Len(stack)].pc = "user")
      BY <2>10, StackSteps DEF FrameReturns, HandlerRuns, history, Top
    <3>2. ShotsOK(td)  BY <3>1 DEF Shots, OneShot
    <3> QED  BY <3>1, <3>2, ShotsUser DEF isarmed
  <2>11. CASE sys_tick_handler \/ (\E t \in Now : clock_settime(t)) \/ UNCHANGED vars
    <3>1. UNCHANGED <<timers, stack, shots, reentered>>
      BY <2>11 DEF sys_tick_handler, clock_settime, history, vars
    <3>2. ShotsOK(td)  BY <3>1 DEF Shots, OneShot
    <3> QED  BY <3>1, <3>2, ShotsUser DEF isarmed
  <2> QED
    BY <2>2, <2>3, <2>4, <2>5, <2>6, <2>7, <2>8, <2>9, <2>10, <2>11, SettimeValue DEF Next
<1> QED  BY <1>1, <1>2, StackInvariant, PTL DEF Spec

(* A one-shot timer expires once for each time it is set, and once more at *)
(* most for each timer_settime() that is called in the middle of its       *)
(* expiry, in functions and handlers nested to any depth.                  *)
THEOREM OneShotExpiresOnce == Spec => []OneShotOnce
<1>1. TypeOK /\ Shots => OneShotOnce
  <2> SUFFICES ASSUME TypeOK, Shots, NEW td \in Tds, OneShot(td)
               PROVE  shots[td] <= 1 + reentered[td]
    BY DEF OneShotOnce
  <2>1. /\ shots[td] \in Nat /\ reentered[td] \in Nat
        /\ shots[td] + Cardinality(Pending(td)) <= reentered[td] + 1
    BY DEF Shots, ShotsOK, TypeOK
  <2> QED  BY <2>1, PendingCount
<1> QED  BY <1>1, ShotsInvariant, TypeCorrect, PTL

-----------------------------------------------------------------------------
(* What is due expires. *)

(* The only frame that stays in timer_settime() while another one makes    *)
(* timer_create() and timer_delete() calls is at "rearm".                  *)
LEMMA ChecksUndisturbed ==
    ASSUME TypeOK, Frames, Top.pc = "user", Top.who # "handler",
           NEW k \in 1..Len(stack), LastCall(k)
    PROVE  stack[k].pc \in {"user", "rearm"}
<1>1. Len(stack) \in Nat \ {0}  BY DEF TypeOK
<1>2. CASE k = Len(stack)  BY <1>2 DEF Top
<1>3. CASE k < Len(stack)
  <2>0. Top \in Frame  BY <1>1 DEF TypeOK, Top
  <2>1. Top.who = "callback"
    BY <1>1, <1>3, <2>0 DEF Frames, Depth, Top, Frame
  <2>2. stack[Len(stack) - 1].pc = "rearm"  BY <1>1, <2>1 DEF Frames, Depth, Top
  <2> QED  BY <1>1, <1>3, <2>2 DEF LastCall, Depth
<1> QED  BY <1>1, <1>2, <1>3

(* While the stack is as it was, it is enough that nothing comes to be     *)
(* owed and times go on alike.                                             *)
LEMMA ServedSame ==
    ASSUME Served, UNCHANGED stack, owed' \subseteq owed,
           \A k \in 1..Len(stack) : LastCall(k) /\ stack[k].pc = "check" =>
                \A u \in owed' : (time_to_expiration(stack[k].td) <= time_to_expiration(u))'
    PROVE  Served'
  BY DEF Served, Depth, LastCall

(* So it is when a frame that is not in timer_settime() comes or goes. *)
LEMMA ServedAbove ==
    ASSUME TypeOK, Served, UNCHANGED <<timers, now, owed>>,
           Pushed("handler") \/ (Popped /\ stack[Len(stack)].pc = "user")
    PROVE  Served'
<1>1. Len(stack) \in Nat \ {0}  BY DEF TypeOK
<1>2. CASE Pushed("handler")
  <2>1. /\ Len(stack') = Len(stack) + 1 /\ stack'[Len(stack) + 1].pc = "user"
        /\ \A k \in 1..Len(stack) : stack'[k].pc = stack[k].pc /\ stack'[k].td = stack[k].td
    BY <1>1, <1>2 DEF Pushed
  <2>2. \A k \in 1..Len(stack) : LastCall(k)' => LastCall(k)
    BY <1>1, <2>1 DEF LastCall, Depth
  <2> QED  BY <1>1, <2>1, <2>2 DEF Served, Depth, time_to_expiration
<1>3. CASE Popped /\ stack[Len(stack)].pc = "user"
  <2>1. /\ Len(stack') = Len(stack) - 1 /\ \A k \in 1..Len(stack') : stack'[k] = stack[k]
    BY <1>3 DEF Popped
  <2>2. \A k \in 1..Len(stack') : LastCall(k)' => LastCall(k)
    BY <1>1, <1>3, <2>1 DEF LastCall, Depth
  <2> QED  BY <1>1, <1>3, <2>1, <2>2 DEF Served, Depth, time_to_expiration
<1> QED  BY <1>2, <1>3

(* The running frame alone can serve what is owed once it is in            *)
(* timer_settime(); where it goes to decides.                              *)
LEMMA ServedByTop ==
    ASSUME TypeOK, NEW p \in Pcs \ {"user"}, NEW d, Goes(p, d),
           p = "check" => \A u \in owed' : (time_to_expiration(d) <= time_to_expiration(u))',
           p = "rearm" => d \notin owed'
    PROVE  Served'
<1>1. Len(stack) \in Nat \ {0}  BY DEF TypeOK
<1>2. /\ Len(stack') = Len(stack)
      /\ stack'[Len(stack)].pc = p /\ stack'[Len(stack)].td = d
  BY DEF Goes
<1>3. \A k \in 1..Len(stack) : LastCall(k)' => k = Len(stack)
  BY <1>1, <1>2 DEF LastCall, Depth
<1> QED  BY <1>1, <1>2, <1>3 DEF Served, Depth, time_to_expiration

LEMMA ServedNone == ASSUME owed' = {} PROVE Served' /\ OwedDue'
  BY DEF Served, OwedDue

LEMMA ServedInvariant == Spec => [](OwedDue /\ Served)
<1>1. Init => OwedDue /\ Served
  BY DEF Init, OwedDue, Served
<1>2. TypeOK /\ Frames /\ OwedDue /\ Served /\ [Next]_vars => OwedDue' /\ Served'
  <2> SUFFICES ASSUME TypeOK, Frames, OwedDue, Served, [Next]_vars PROVE OwedDue' /\ Served'
    OBVIOUS
  <2>0. /\ Len(stack) \in Nat \ {0}
        /\ Top.pc \in Loop => Top.td \in Tds
    BY DEF TypeOK, Frames, Top, Depth
  <2>1. ASSUME NEW c \in Clocks, NEW n \in Notify, Create(c, n) PROVE OwedDue' /\ Served'
    <3>1. UNCHANGED <<stack, now, owed>> /\ Top.pc = "user" /\ Top.who # "handler"
      BY <2>1 DEF Create
    <3>2. \A u \in Tds : isarmed(u) => timers'[u] = timers[u]
      BY <2>1 DEF Create, sys_timer_alloc, Free, isarmed, TypeOK
    <3>3. OwedDue'
      BY <3>1, <3>2 DEF OwedDue, isarmed, Due, time_to_expiration, TypeOK
    <3> QED  BY <3>1, <3>3, ChecksUndisturbed, ServedSame
  <2>2. ASSUME NEW td \in Tds, Delete(td) PROVE OwedDue' /\ Served'
    <3>1. /\ UNCHANGED <<stack, now>> /\ owed' = owed \ {td}
          /\ Top.pc = "user" /\ Top.who # "handler"
          /\ \A u \in Tds : u # td => timers'[u] = timers[u]
      BY <2>2 DEF Delete, TypeOK
    <3>2. OwedDue'
      BY <3>1 DEF OwedDue, isarmed, Due, time_to_expiration, TypeOK
    <3> QED  BY <3>1, <3>2, ChecksUndisturbed, ServedSame
  <2>3. ASSUME NEW td \in Tds, NEW v \in Nat, NEW i \in Times, Settime(td, v, i)
        PROVE  OwedDue' /\ Served'
    <3>1. Goes("scan", NONE)  BY <2>3, StackSteps
    <3>2. Served'  BY <3>1, ServedByTop DEF Pcs
    <3>3. /\ UNCHANGED now /\ \A u \in Tds : u # td => timers'[u] = timers[u]
          /\ timers'[td].it_value = v /\ timers'[td].allocated
          /\ timers'[td].clockid = timers[td].clockid
      BY <2>3 DEF Settime, TypeOK, Timer
    <3>4. ASSUME NEW u \in owed' PROVE u \in Tds /\ isarmed(u)' /\ Due(u)'
      <4>1. CASE u # td
        <5>1. u \in Armed /\ Due(u)  BY <2>3, <3>4, <4>1 DEF Settime
        <5> QED  BY <3>3, <4>1, <5>1 DEF Armed, isarmed, Due, time_to_expiration
      <4>2. CASE u = td
        <5>1. v \in 1..now[timers[td].clockid]  BY <2>3, <3>4, <4>2 DEF Settime
        <5>2. now[timers[td].clockid] \in Nat  BY DEF TypeOK, Timer, Now
        <5> QED  BY <3>3, <4>2, <5>1, <5>2 DEF isarmed, Due, time_to_expiration
      <4> QED  BY <4>1, <4>2
    <3> QED  BY <3>2, <3>4 DEF OwedDue
  <2>4. CASE Scan
    <3>1. PICK td \in Tds : next_expiring(td) /\ Goes("check", td)  BY <2>4, StackSteps
    <3>2. UNCHANGED <<timers, now, owed>>  BY <2>4 DEF Scan, history
    <3>3. \A u \in Tds : time_to_expiration(u) \in Int
      BY DEF time_to_expiration, TypeOK, Timer, Now
    <3>4. \A u \in owed : time_to_expiration(td) <= time_to_expiration(u)
      <4>1. \A u \in owed : u \in Tds /\ u \in Armed  BY DEF OwedDue, Armed, TypeOK
      <4> QED  BY <3>1, <3>3, <4>1 DEF next_expiring
    <3>5. OwedDue'  BY <3>2 DEF OwedDue, isarmed, Due, time_to_expiration
    <3> QED  BY <3>1, <3>2, <3>4, <3>5, ServedByTop DEF Pcs, time_to_expiration
  <2>5. CASE ScanFindsNone
    <3>1. owed' = {}  BY <2>5 DEF ScanFindsNone, history, Armed, OwedDue, TypeOK
    <3> QED  BY <3>1, ServedNone
  <2>6. CASE Check
    <3>1. UNCHANGED <<timers, now, owed>> /\ Top.pc = "check"  BY <2>6 DEF Check, history
    <3>2. OwedDue'  BY <3>1 DEF OwedDue, isarmed, Due, time_to_expiration
    <3>3. CASE Due(Top.td)
      <4>1. Goes("expire", Top.td)  BY <2>6, <3>3, StackSteps
      <4> QED  BY <3>2, <4>1, ServedByTop DEF Pcs
    <3>4. CASE ~Due(Top.td)
      <4>1. LastCall(Len(stack))  BY <2>0 DEF LastCall, Depth
      <4>2. \A u \in owed : time_to_expiration(Top.td) <= time_to_expiration(u)
        BY <2>0, <3>1, <4>1 DEF Served, Depth, Top
      <4>3. Top.td \in Tds  BY <2>0, <3>1 DEF Loop
      <4>4. \A u \in Tds : time_to_expiration(u) \in Int
        BY DEF time_to_expiration, TypeOK, Timer, Now
      <4>5. owed = {}  BY <3>4, <4>2, <4>3, <4>4 DEF OwedDue, Due, TypeOK
      <4> QED  BY <3>1, <4>5, ServedNone
    <3> QED  BY <3>3, <3>4
  <2>7. CASE Expire \/ ExpireCalls
    <3>1. UNCHANGED <<timers, now>> /\ owed' = owed \ {Top.td}
      BY <2>7 DEF Expire, ExpireCalls, Expires
    <3>2. OwedDue'  BY <3>1 DEF OwedDue, isarmed, Due, time_to_expiration
    <3>3. CASE Expire
      <4>1. Goes("rearm", Top.td)  BY <3>3, StackSteps
      <4> QED  BY <3>1, <3>2, <4>1, ServedByTop DEF Pcs
    <3>4. CASE ExpireCalls
      <4>1. Pushed("callback")  BY <3>4, StackSteps
      <4>2. /\ Len(stack') = Len(stack) + 1 /\ stack'[Len(stack) + 1].pc = "user"
            /\ stack'[Len(stack)].pc = "rearm" /\ stack'[Len(stack)].td = Top.td
        BY <4>1 DEF Pushed, Top
      <4>3. \A k \in 1..Len(stack') : LastCall(k)' => k \in {Len(stack), Len(stack) + 1}
        BY <2>0, <4>2 DEF LastCall, Depth
      <4>4. Served'  BY <2>0, <3>1, <4>2, <4>3 DEF Served, Depth
      <4> QED  BY <3>2, <4>4
    <3> QED  BY <2>7, <3>3, <3>4
  <2>8. CASE Rearm
    <3>1. Goes("scan", NONE) /\ Top.td \in Tds /\ Top.pc = "rearm"
      BY <2>0, <2>8, StackSteps DEF Rearm, Loop
    <3>2. LastCall(Len(stack))  BY <2>0 DEF LastCall, Depth
    <3>3. Top.td \notin owed  BY <2>0, <3>1, <3>2 DEF Served, Depth, Top
    <3>4. UNCHANGED <<now, owed>> /\ \A u \in Tds : u # Top.td => timers'[u] = timers[u]
      BY <2>8 DEF Rearm, history, TypeOK
    <3>5. OwedDue'
      BY <3>3, <3>4 DEF OwedDue, isarmed, Due, time_to_expiration, TypeOK
    <3> QED  BY <3>1, <3>5, ServedByTop DEF Pcs
  <2>9. CASE FrameReturns \/ HandlerRuns
    <3>1. Pushed("handler") \/ (Popped /\ stack[Len(stack)].pc = "user")
      BY <2>9, StackSteps DEF FrameReturns, Top
    <3>2. UNCHANGED <<timers, now, owed>>  BY <2>9 DEF FrameReturns, HandlerRuns, history
    <3> QED  BY <3>1, <3>2, ServedAbove DEF OwedDue, isarmed, Due, time_to_expiration
  <2>10. CASE sys_tick_handler
    <3>1. UNCHANGED <<timers, stack, owed>> /\ \A c \in Clocks : now'[c] = now[c] + 1
      BY <2>10 DEF sys_tick_handler, history
    <3>2. \A u \in Tds : /\ time_to_expiration(u) \in Int
                         /\ time_to_expiration(u)' = time_to_expiration(u) - 1
      BY <3>1 DEF time_to_expiration, TypeOK, Timer, Now
    <3>3. OwedDue'  BY <3>1, <3>2 DEF OwedDue, isarmed, Due, TypeOK
    <3>4. ASSUME NEW k \in 1..Len(stack), LastCall(k), stack[k].pc = "check", NEW u \in owed'
          PROVE  (time_to_expiration(stack[k].td) <= time_to_expiration(u))'
      <4>1. stack[k].td \in Tds /\ u \in Tds /\ u \in owed
        BY <3>1, <3>4 DEF Frames, Loop, Depth, TypeOK
      <4>2. time_to_expiration(stack[k].td) <= time_to_expiration(u)
        BY <3>4, <4>1 DEF Served, Depth
      <4>3. time_to_expiration(stack[k].td)' = time_to_expiration(stack[k].td) - 1
        BY <3>1, <3>2, <4>1 DEF time_to_expiration
      <4> QED  BY <3>2, <4>1, <4>2, <4>3
    <3>5. Served'  BY <3>1, <3>4, ServedSame
    <3> QED  BY <3>3, <3>5
  <2>11. ASSUME NEW t \in Now, clock_settime(t) PROVE OwedDue' /\ Served'
    BY <2>11, ServedNone DEF clock_settime
  <2>12. CASE UNCHANGED vars
    BY <2>12 DEF vars, OwedDue, Served, Depth, LastCall, isarmed, Due, time_to_expiration
  <2> QED
    BY <2>1, <2>2, <2>3, <2>4, <2>5, <2>6, <2>7, <2>8, <2>9, <2>10, <2>11, <2>12,
       SettimeValue DEF Next
<1> QED  BY <1>1, <1>2, StackInvariant, PTL DEF Spec

(* When timer_settime() returns to the thread nothing that was due is left *)
(* unexpired, whatever ran in between.                                     *)
THEOREM DueTimersExpire == Spec => []NoneLeftDue
<1>1. Served => NoneLeftDue  BY DEF Served, NoneLeftDue, InUser, Depth, Top
<1> QED  BY <1>1, ServedInvariant, PTL
=============================================================================
