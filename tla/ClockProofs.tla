----------------------------- MODULE ClockProofs -----------------------------
(***************************************************************************)
(* Theorems about Clock.tla, for every length of a tick and of a second:   *)
(* readings are moments of the call, settings take, sleeps are not short.  *)
(***************************************************************************)
EXTENDS Clock, TLAPS

-----------------------------------------------------------------------------
(* The invariant. *)

Time == [sec : Nat, nsec : 0..(NSECS - 1)]

Reading == {"clock_gettime", "sleep_first", "sleep_second", "sleep_loop"}
ReadSteps == {"before", "sec", "nsec", "counter", "after"}
SetSteps == {"set_before", "set_sec", "set_nsec", "set_after"}

Locals ==
    [at : {"none"} \cup ReadSteps \cup SetSteps, fn : {"none", "clock_settime"} \cup Reading,
     id : Clocks, flag_before : Nat, tp : Time, fraction : 0..(N - 1),
     rqt : Time, tend : Time, began : Nat, clean : BOOLEAN]

Types ==
    /\ cvr \in 0..(N - 1) /\ pending \in BOOLEAN /\ pendsv \in BOOLEAN
    /\ monotonic \in Time /\ realtime \in Time /\ timer_update_flag \in Nat
    /\ call \in [Contexts -> Locals]
    /\ elapsed \in Nat /\ lost \in Nat /\ offset \in Int

(* The monotonic clock and the counter add up to the time elapsed; a tick  *)
(* that is pending is missing once the counter has begun again.            *)
Late == IF pending /\ cvr # 0 THEN N ELSE 0
Ticking ==
    /\ cvr = 0 => pending
    /\ lost = 0 => Value(monotonic) + (N - cvr) + Late = elapsed

(* The steps of a call are those of its function; a sleep reads the        *)
(* monotonic clock, which nobody sets; a call began in the past and has    *)
(* seen no flag of the future.                                             *)
Working(c) ==
    /\ call[c].at \in ReadSteps <=> call[c].fn \in Reading
    /\ call[c].at \in SetSteps <=> call[c].fn = "clock_settime"
    /\ call[c].fn \in Reading \ {"clock_gettime"} => call[c].id = "MONOTONIC" /\ call[c].clean
    /\ call[c].began <= elapsed
    /\ call[c].flag_before <= timer_update_flag

(* No tick and no setting has come since the call read the flag. *)
Fresh(c) == call[c].clean /\ FlagSame(c)

(* What a fresh call has copied is what the clock shows. *)
Copied(c) ==
    Fresh(c) =>
        /\ call[c].at \in {"nsec", "counter", "after"} =>
                call[c].tp.sec = clock_get(call[c].id).sec
        /\ call[c].at \in {"counter", "after"} => call[c].tp.nsec = clock_get(call[c].id).nsec
        /\ call[c].at \in {"set_nsec", "set_after"} => realtime.sec = call[c].tp.sec
        /\ call[c].at = "set_after" => realtime.nsec = call[c].tp.nsec

(* Once the counter is read, the reading is a moment of the call. *)
Scale(c) == IF call[c].id = "MONOTONIC" THEN 0 ELSE offset
Behind(c) == IF c = "handler" THEN N ELSE 0
Moment(c) ==
    call[c].at = "after" /\ Fresh(c) /\ lost = 0 =>
        /\ call[c].began - Behind(c)
            <= Value(clock_get(call[c].id)) + (N - call[c].fraction) - Scale(c)
        /\ Value(clock_get(call[c].id)) + (N - call[c].fraction) - Scale(c) <= elapsed

(* A sleep ends no earlier than it should. *)
Sleeping(c) ==
    call[c].fn = "sleep_loop" /\ lost = 0 =>
        Value(call[c].tend) >= call[c].began - Behind(c) + Value(call[c].rqt)

Own(c) == Working(c) /\ Copied(c) /\ Moment(c) /\ Sleeping(c)

(* The offset of the real-time clock is the last one set, unless a setting *)
(* is under way; into a clean reading no setting has written.              *)
Steady == Value(realtime) - Value(monotonic) = offset
CleanReal(c) ==
    call[c].fn = "clock_gettime" /\ call[c].id = "REALTIME" /\ call[c].clean
NotWriting == \A d \in Contexts : call[d].fn = "clock_settime" =>
                                    call[d].at \in {"set_before", "set_sec"}
Offsets ==
    /\ ~Setting => Steady
    /\ \A c \in Contexts : CleanReal(c) => Steady /\ NotWriting

Inv == Types /\ Ticking /\ Offsets /\ \A c \in Contexts : Own(c)

-----------------------------------------------------------------------------
(* Sums and differences of times. *)

LEMMA Second == NSECS \in Nat \ {0} /\ NSECS >= N
<1>1. N \in Nat /\ TICKS \in Nat /\ TICKS >= 1 /\ N >= 2  BY ClockAssumption
<1>2. N * TICKS \in Nat /\ N * TICKS >= N  BY <1>1
<1> QED  BY <1>1, <1>2 DEF NSECS

LEMMA ValueType == ASSUME NEW t \in Time PROVE Value(t) \in Nat
<1>1. t.sec \in Nat /\ t.nsec \in Nat  BY Second DEF Time
<1>2. t.sec * NSECS \in Nat  BY <1>1, Second
<1> QED  BY <1>1, <1>2 DEF Value

(* timespec_add adds. *)
LEMMA AddValue ==
    ASSUME NEW t \in Time, NEW u \in [sec : Nat, nsec : Nat]
    PROVE  Value(timespec_add(t, u)) = Value(t) + Value(u)
<1>1. t.sec \in Nat /\ t.nsec \in Nat /\ u.sec \in Nat /\ u.nsec \in Nat
  BY Second DEF Time
<1>2. /\ (t.sec + u.sec) * NSECS = t.sec * NSECS + u.sec * NSECS
      /\ (t.sec + u.sec + 1) * NSECS = t.sec * NSECS + u.sec * NSECS + NSECS
  BY <1>1, Second
<1>3. t.sec * NSECS \in Nat /\ u.sec * NSECS \in Nat  BY <1>1, Second
<1> QED  BY <1>1, <1>2, <1>3, Second DEF Value, timespec_add

(* It leaves the nanoseconds within the second. *)
LEMMA AddType ==
    ASSUME NEW t \in Time, NEW u \in [sec : Nat, nsec : 0..NSECS]
    PROVE  timespec_add(t, u) \in Time
<1>1. t.sec \in Nat /\ t.nsec \in 0..(NSECS - 1) /\ u.sec \in Nat /\ u.nsec \in 0..NSECS
  BY DEF Time
<1> QED  BY <1>1, Second DEF timespec_add, Time

(* Counts within a tick are worth their number. *)
LEMMA CountsValue ==
    ASSUME NEW n \in 0..NSECS
    PROVE  /\ [sec |-> 0, nsec |-> n] \in [sec : Nat, nsec : 0..NSECS]
           /\ [sec |-> 0, nsec |-> n] \in [sec : Nat, nsec : Nat]
           /\ Value([sec |-> 0, nsec |-> n]) = n
<1>1. n \in Nat  BY Second
<1> QED  BY <1>1, Second DEF Value

(* The sign of timespec_diff orders times. *)
LEMMA DiffOrders ==
    ASSUME NEW t \in Time, NEW f \in Time, timespec_diff(t, f) <= 0
    PROVE  Value(t) <= Value(f)
<1>1. /\ t.sec \in Nat /\ t.nsec \in 0..(NSECS - 1)
      /\ f.sec \in Nat /\ f.nsec \in 0..(NSECS - 1)
  BY DEF Time
<1>2. CASE t.sec = f.sec /\ t.nsec <= f.nsec
  <2>1. t.sec * NSECS \in Nat  BY <1>1, Second
  <2> QED  BY <1>1, <1>2, <2>1, Second DEF Value
<1>3. CASE t.sec < f.sec
  <2> DEFINE k == f.sec - t.sec - 1
  <2>1. k \in Nat /\ f.sec = t.sec + 1 + k  BY <1>1, <1>3
  <2> HIDE DEF k
  <2>2. f.sec * NSECS = t.sec * NSECS + NSECS + k * NSECS  BY <1>1, <2>1, Second
  <2>3. k * NSECS \in Nat /\ t.sec * NSECS \in Nat  BY <1>1, <2>1, Second
  <2> QED  BY <1>1, <2>2, <2>3, Second DEF Value
<1>4. t.sec < f.sec \/ (t.sec = f.sec /\ t.nsec <= f.nsec)
  BY <1>1, Second DEF timespec_diff
<1> QED  BY <1>2, <1>3, <1>4

(* What a reading gives. *)
LEMMA ResultValue ==
    ASSUME Types, NEW c \in Contexts
    PROVE  /\ Result(c) \in Time
           /\ Value(Result(c)) = Value(call[c].tp) + (N - call[c].fraction)
<1>1. call[c].tp \in Time /\ call[c].fraction \in 0..(N - 1)  BY DEF Types, Locals
<1>2. N - call[c].fraction \in 0..NSECS /\ N - call[c].fraction \in Nat
  BY <1>1, Second, ClockAssumption
<1> QED  BY <1>1, <1>2, AddValue, AddType, CountsValue DEF Result, fraction_to_timespec

LEMMA ReadsClock ==
    ASSUME Types, NEW c \in Contexts, Copied(c), Fresh(c), call[c].at = "after"
    PROVE  Value(Result(c)) = Value(clock_get(call[c].id)) + (N - call[c].fraction)
  BY ResultValue DEF Copied, Value

-----------------------------------------------------------------------------
(* Steps of calls. *)

(* A step of context c that changes nothing but its local variables. *)
LEMMA OneCall ==
    ASSUME Inv, NEW c \in Contexts, NEW l \in Locals, call' = [call EXCEPT ![c] = l],
           UNCHANGED <<sysVars, clockVars, pendsv, offset>>, Own(c)', Offsets'
    PROVE  Inv'
<1> USE DEF sysVars, clockVars
<1>1. Types'  BY DEF Inv, Types
<1>2. Ticking'  BY DEF Inv, Ticking, Late, Value
<1>3. ASSUME NEW d \in Contexts, d # c PROVE Own(d)'
  <2>1. call'[d] = call[d] /\ Own(d)  BY <1>3 DEF Inv, Types
  <2> QED
    BY <2>1 DEF Own, Working, Copied, Moment, Sleeping, Fresh, FlagSame, clock_get, Scale,
                Behind, Value
<1> QED  BY <1>1, <1>2, <1>3 DEF Inv

(* If it goes on with its function, that touches no offset. *)
LEMMA OffsetsKept ==
    ASSUME Inv, NEW c \in Contexts, NEW l \in Locals, call' = [call EXCEPT ![c] = l],
           UNCHANGED <<clockVars, offset>>,
           l.fn = "clock_settime" <=> call[c].fn = "clock_settime",
           l.fn = "clock_settime" => l.at \in {"set_before", "set_sec"},
           l.fn = "clock_gettime" => /\ call[c].fn = "clock_gettime"
                                     /\ l.id = call[c].id /\ l.clean = call[c].clean
    PROVE  Offsets'
<1>1. \A d \in Contexts : call'[d] = IF d = c THEN l ELSE call[d]  BY DEF Inv, Types
<1>2. Steady' <=> Steady  BY DEF Steady, Value, clockVars
<1>3. Setting' <=> Setting  BY <1>1 DEF Setting
<1>4. \A d \in Contexts : CleanReal(d)' => CleanReal(d)  BY <1>1 DEF CleanReal
<1>5. NotWriting => NotWriting'  BY <1>1 DEF NotWriting
<1> QED  BY <1>2, <1>3, <1>4, <1>5 DEF Inv, Offsets

(* The reading calls, step by step. *)
LEMMA ReadingSteps ==
    ASSUME Inv, NEW c \in Contexts,
           FlagBefore(c) \/ CopySec(c) \/ CopyNsec(c) \/ systick_get_value(c)
    PROVE  Inv'
<1>0. call \in [Contexts -> Locals] /\ call[c] \in Locals /\ Own(c)  BY DEF Inv, Types
<1>1. CASE FlagBefore(c)
  <2> DEFINE l == [call[c] EXCEPT !.at = "sec", !.flag_before = timer_update_flag]
  <2>1. /\ call[c].at = "before" /\ call' = [call EXCEPT ![c] = l]
        /\ UNCHANGED <<sysVars, clockVars, pendsv, offset>>
    BY <1>1 DEF FlagBefore, Step
  <2>2. l \in Locals  BY <1>0 DEF Locals, ReadSteps, Inv, Types
  <2>3. call'[c] = l /\ call[c].fn \in Reading
    BY <1>0, <2>1 DEF Own, Working, ReadSteps
  <2>4. Own(c)'
    BY <1>0, <2>1, <2>3
       DEF Own, Working, Copied, Moment, Sleeping, Behind, Locals, ReadSteps, SetSteps,
           Reading, sysVars, clockVars, Value, Inv, Types
  <2>5. Offsets'  BY <1>0, <2>1, <2>2, <2>3, OffsetsKept DEF Locals, Reading
  <2> QED  BY <2>1, <2>2, <2>4, <2>5, OneCall
<1>2. CASE CopySec(c)
  <2> DEFINE l == [call[c] EXCEPT !.at = "nsec", !.tp.sec = clock_get(call[c].id).sec]
  <2>1. /\ call[c].at = "sec" /\ call' = [call EXCEPT ![c] = l]
        /\ UNCHANGED <<sysVars, clockVars, pendsv, offset>>
    BY <1>2 DEF CopySec, Step
  <2>2. l \in Locals  BY <1>0 DEF Locals, ReadSteps, Inv, Types, clock_get, Time
  <2>3. call'[c] = l /\ call[c].fn \in Reading
    BY <1>0, <2>1 DEF Own, Working, ReadSteps
  <2>4. Own(c)'
    BY <1>0, <2>1, <2>3
       DEF Own, Working, Copied, Moment, Sleeping, Behind, Fresh, FlagSame, clock_get, Locals,
           Time, ReadSteps, SetSteps, Reading, sysVars, clockVars, Value, Inv, Types
  <2>5. Offsets'  BY <1>0, <2>1, <2>2, <2>3, OffsetsKept DEF Locals, Reading
  <2> QED  BY <2>1, <2>2, <2>4, <2>5, OneCall
<1>3. CASE CopyNsec(c)
  <2> DEFINE l == [call[c] EXCEPT !.at = "counter", !.tp.nsec = clock_get(call[c].id).nsec]
  <2>1. /\ call[c].at = "nsec" /\ call' = [call EXCEPT ![c] = l]
        /\ UNCHANGED <<sysVars, clockVars, pendsv, offset>>
    BY <1>3 DEF CopyNsec, Step
  <2>2. l \in Locals  BY <1>0 DEF Locals, ReadSteps, Inv, Types, clock_get, Time
  <2>3. call'[c] = l /\ call[c].fn \in Reading
    BY <1>0, <2>1 DEF Own, Working, ReadSteps
  <2>4. Own(c)'
    BY <1>0, <2>1, <2>3
       DEF Own, Working, Copied, Moment, Sleeping, Behind, Fresh, FlagSame, clock_get, Locals,
           Time, ReadSteps, SetSteps, Reading, sysVars, clockVars, Value, Inv, Types
  <2>5. Offsets'  BY <1>0, <2>1, <2>2, <2>3, OffsetsKept DEF Locals, Reading
  <2> QED  BY <2>1, <2>2, <2>4, <2>5, OneCall
<1>4. CASE systick_get_value(c)
  <2> DEFINE l == [call[c] EXCEPT !.at = "after", !.fraction = cvr]
  <2>1. /\ Running(c) /\ call[c].at = "counter" /\ call' = [call EXCEPT ![c] = l]
        /\ UNCHANGED <<sysVars, clockVars, pendsv, offset>>
    BY <1>4 DEF systick_get_value, Step
  <2>2. l \in Locals  BY <1>0 DEF Locals, ReadSteps, Inv, Types
  <2>3. call'[c] = l /\ call[c].fn \in Reading
    BY <1>0, <2>1 DEF Own, Working, ReadSteps
  <2>4. ASSUME call[c].clean, lost = 0
        PROVE  Value(clock_get(call[c].id)) - Scale(c) = Value(monotonic)
    <3>1. CASE call[c].id = "MONOTONIC"
      BY <3>1, ValueType DEF Scale, clock_get, Inv, Types
    <3>2. CASE call[c].id = "REALTIME"
      <4>1. CleanReal(c)  BY <1>0, <2>3, <2>4, <3>2 DEF CleanReal, Own, Working
      <4>2. Steady  BY <4>1 DEF Inv, Offsets
      <4>3. Value(realtime) \in Int /\ Value(monotonic) \in Int /\ offset \in Int
        BY ValueType DEF Inv, Types
      <4> QED  BY <3>2, <4>2, <4>3 DEF Scale, clock_get, Steady
    <3> QED  BY <1>0, <3>1, <3>2 DEF Locals, Clocks
  <2>5. lost = 0 => /\ Value(monotonic) + (N - cvr) <= elapsed
                    /\ Value(monotonic) + (N - cvr) >= elapsed - Behind(c)
    <3>1. Value(monotonic) \in Int /\ N \in Nat /\ cvr \in Int /\ elapsed \in Int
      BY ValueType, ClockAssumption DEF Inv, Types
    <3>2. Late \in {0, Behind(c)}
      BY <2>1 DEF Late, Behind, Running, Contexts
    <3> QED  BY <3>1, <3>2 DEF Inv, Ticking, Behind
  <2>6. Moment(c)'
    <3>1. /\ Value(clock_get(call[c].id)) \in Int /\ Scale(c) \in Int /\ Behind(c) \in Int
          /\ cvr \in Int /\ N \in Int /\ elapsed \in Int /\ call[c].began \in Int
          /\ call[c].began <= elapsed /\ Value(monotonic) \in Int
      BY <1>0, ValueType, ClockAssumption
         DEF Inv, Types, Locals, clock_get, Scale, Behind, Own, Working
    <3>2. /\ call'[c].clean = call[c].clean /\ call'[c].id = call[c].id
          /\ call'[c].began = call[c].began /\ call'[c].fraction = cvr
      BY <1>0, <2>3 DEF Locals
    <3>3. UNCHANGED <<lost, elapsed, offset, monotonic, realtime>>
      BY <2>1 DEF sysVars, clockVars
    <3>4. /\ Value(clock_get(call[c].id))' = Value(clock_get(call[c].id))
          /\ Scale(c)' = Scale(c) /\ Behind(c)' = Behind(c)
      BY <3>2, <3>3 DEF Value, clock_get, Scale, Behind
    <3>5. ASSUME call[c].clean, lost = 0
          PROVE  /\ call[c].began - Behind(c) <= Value(clock_get(call[c].id)) + (N - cvr) - Scale(c)
                 /\ Value(clock_get(call[c].id)) + (N - cvr) - Scale(c) <= elapsed
      BY <2>4, <2>5, <3>1, <3>5
    <3> QED  BY <3>2, <3>3, <3>4, <3>5 DEF Moment, Fresh
  <2>7. Own(c)'
    BY <1>0, <2>1, <2>3, <2>6
       DEF Own, Working, Copied, Sleeping, Behind, Fresh, FlagSame, clock_get, Locals,
           ReadSteps, SetSteps, Reading, sysVars, clockVars, Value, Inv, Types
  <2>8. Offsets'  BY <1>0, <2>1, <2>2, <2>3, OffsetsKept DEF Locals, Reading
  <2> QED  BY <2>1, <2>2, <2>7, <2>8, OneCall
<1> QED  BY <1>1, <1>2, <1>3, <1>4

(* The calls begin. *)
LEMMA Begins ==
    ASSUME Inv, NEW c \in Contexts,
           \/ \E id \in Clocks : clock_gettime(c, id)
           \/ \E rqt \in Sleeps : clock_nanosleep(c, rqt)
           \/ \E t \in SetTimes : clock_settime(c, t)
    PROVE  Inv'
<1>0. /\ call \in [Contexts -> Locals] /\ call[c] \in Locals /\ Own(c) /\ elapsed \in Nat
      /\ timer_update_flag \in Nat
  BY DEF Inv, Types
<1>1. Zero \in Time /\ 0 \in 0..(N - 1) /\ 0 \in 0..(NSECS - 1)
  BY Second, ClockAssumption DEF Zero, Time
<1>2. CASE \E id \in Clocks : clock_gettime(c, id)
  <2>1. PICK id \in Clocks : clock_gettime(c, id)  BY <1>2
  <2> DEFINE l == [Idle EXCEPT !.at = "before", !.fn = "clock_gettime", !.id = id,
                               !.began = elapsed, !.clean = id = "REALTIME" => ~Setting]
  <2>2. /\ call[c].at = "none" /\ call' = [call EXCEPT ![c] = l]
        /\ UNCHANGED <<sysVars, clockVars, pendsv, offset>>
    BY <2>1 DEF clock_gettime, Begin
  <2>3. l \in Locals
    BY <1>0, <1>1 DEF Locals, Idle, ReadSteps, Reading, Setting, Clocks
  <2>4. call'[c] = l  BY <1>0, <2>2
  <2>5. Own(c)'
    BY <1>0, <1>1, <2>2, <2>4
       DEF Own, Working, Copied, Moment, Sleeping, Idle, ReadSteps, SetSteps, Reading,
           sysVars, clockVars
  <2>6. Offsets'
    <3>1. call[c].fn # "clock_settime"  BY <1>0, <2>2 DEF Own, Working, SetSteps
    <3>2. \A d \in Contexts : call'[d] = IF d = c THEN l ELSE call[d]  BY <1>0, <2>2
    <3>3. Steady' <=> Steady  BY <2>2 DEF Steady, Value, clockVars
    <3>4. l.fn = "clock_gettime" /\ l.id = id /\ (l.clean <=> (id = "REALTIME" => ~Setting))
      BY DEF Idle
    <3>5. Setting' <=> Setting  BY <3>1, <3>2, <3>4 DEF Setting
    <3>6. NotWriting => NotWriting'  BY <3>2, <3>4 DEF NotWriting
    <3>7. \A d \in Contexts \ {c} : CleanReal(d)' => CleanReal(d)  BY <3>2 DEF CleanReal
    <3>8. CleanReal(c)' => ~Setting  BY <3>2, <3>4 DEF CleanReal
    <3>9. ~Setting => NotWriting  BY DEF Setting, NotWriting
    <3> HIDE DEF l
    <3> QED  BY <3>3, <3>5, <3>6, <3>7, <3>8, <3>9 DEF Inv, Offsets
  <2> QED  BY <2>2, <2>3, <2>5, <2>6, OneCall
<1>3. CASE \E rqt \in Sleeps : clock_nanosleep(c, rqt)
  <2>1. PICK rqt \in Sleeps : clock_nanosleep(c, rqt)  BY <1>3
  <2> DEFINE l == [Idle EXCEPT !.at = "before", !.fn = "sleep_first", !.rqt = rqt,
                               !.began = elapsed]
  <2>2. /\ call[c].at = "none" /\ call' = [call EXCEPT ![c] = l]
        /\ UNCHANGED <<sysVars, clockVars, pendsv, offset>>
    BY <2>1 DEF clock_nanosleep, Begin
  <2>3. rqt \in Time  BY ClockAssumption DEF NSECS, Time
  <2>4. l \in Locals
    BY <1>0, <1>1, <2>3 DEF Locals, Idle, ReadSteps, Reading, Clocks
  <2>5. call'[c] = l  BY <1>0, <2>2
  <2>6. Own(c)'
    BY <1>0, <1>1, <2>2, <2>5
       DEF Own, Working, Copied, Moment, Sleeping, Idle, ReadSteps, SetSteps, Reading,
           sysVars, clockVars
  <2>7. l.fn = "sleep_first"  BY DEF Idle
  <2>8. call[c].fn # "clock_settime"  BY <1>0, <2>2 DEF Own, Working, SetSteps
  <2>9. Offsets'
    <3> HIDE DEF l
    <3> QED  BY <2>2, <2>4, <2>7, <2>8, OffsetsKept
  <2> QED  BY <2>2, <2>4, <2>6, <2>9, OneCall
<1>4. CASE \E t \in SetTimes : clock_settime(c, t)
  <2>1. PICK t \in SetTimes : clock_settime(c, t)  BY <1>4
  <2> DEFINE l == [Idle EXCEPT !.at = "set_before", !.fn = "clock_settime", !.tp = t,
                               !.clean = ~Setting]
  <2>2. /\ call[c].at = "none" /\ call' = [call EXCEPT ![c] = l]
        /\ UNCHANGED <<sysVars, clockVars, pendsv, offset>>
    BY <2>1 DEF clock_settime, Begin
  <2>3. t \in Time  BY ClockAssumption DEF NSECS, Time
  <2>4. l \in Locals
    BY <1>0, <1>1, <2>3 DEF Locals, Idle, SetSteps, Setting, Clocks
  <2>5. call'[c] = l  BY <1>0, <2>2
  <2>6. Own(c)'
    BY <1>0, <1>1, <2>2, <2>5
       DEF Own, Working, Copied, Moment, Sleeping, Idle, ReadSteps, SetSteps, Reading,
           sysVars, clockVars
  <2>7. Offsets'
    <3>1. \A d \in Contexts : call'[d] = IF d = c THEN l ELSE call[d]  BY <1>0, <2>2
    <3>2. Steady' <=> Steady  BY <2>2 DEF Steady, Value, clockVars
    <3>3. l.fn = "clock_settime" /\ l.at = "set_before"  BY DEF Idle
    <3> HIDE DEF l
    <3>4. Setting'  BY <3>1, <3>3 DEF Setting
    <3>5. NotWriting => NotWriting'  BY <3>1, <3>3 DEF NotWriting
    <3>6. \A d \in Contexts : CleanReal(d)' => CleanReal(d)  BY <3>1, <3>3 DEF CleanReal
    <3> QED  BY <3>2, <3>4, <3>5, <3>6 DEF Inv, Offsets
  <2> QED  BY <2>2, <2>4, <2>6, <2>7, OneCall
<1> QED  BY <1>2, <1>3, <1>4

(* SysTick and PendSV. *)
LEMMA CountStep == ASSUME Inv, Count PROVE Inv'
<1>0. /\ cvr \in 0..(N - 1) /\ pending \in BOOLEAN /\ monotonic \in Time /\ elapsed \in Nat
      /\ lost \in Nat /\ N \in Nat /\ N >= 2 /\ Value(monotonic) \in Nat
      /\ call \in [Contexts -> Locals]
  BY ValueType, ClockAssumption DEF Inv, Types
<1>1. /\ elapsed' = elapsed + 1
      /\ cvr' = IF cvr = 0 THEN N - 1 ELSE cvr - 1
      /\ pending' = (pending \/ cvr = 1)
      /\ lost' = IF cvr = 1 /\ pending THEN lost + 1 ELSE lost
      /\ UNCHANGED <<monotonic, realtime, timer_update_flag, pendsv, call, offset>>
  BY DEF Count, clockVars
<1>2. Types'  BY <1>0, <1>1 DEF Inv, Types
<1>3. Ticking'
  <2>1. Value(monotonic)' = Value(monotonic)  BY <1>1 DEF Value
  <2>2. lost' = 0 => lost = 0 /\ ~(cvr = 1 /\ pending)  BY <1>0, <1>1
  <2>3. cvr' = 0 => cvr = 1  BY <1>0, <1>1
  <2>4. cvr = 0 => pending  BY DEF Inv, Ticking
  <2>5. lost = 0 => Value(monotonic) + (N - cvr) + Late = elapsed  BY DEF Inv, Ticking
  <2>6. ASSUME lost = 0, ~(cvr = 1 /\ pending)
        PROVE  Value(monotonic) + (N - cvr') + Late' = elapsed + 1
    <3>1. CASE cvr = 0
      <4>1. cvr' = N - 1 /\ N - 1 # 0  BY <1>0, <1>1, <3>1
      <4>2. pending'  BY <1>1, <2>4, <3>1, Zenon
      <4>3. Late = 0 /\ Late' = N  BY <3>1, <4>1, <4>2 DEF Late
      <4> QED  BY <1>0, <2>5, <2>6, <3>1, <4>1, <4>3
    <3>2. CASE cvr = 1  BY <1>0, <1>1, <2>5, <2>6, <3>2 DEF Late
    <3>3. CASE cvr > 1
      <4>1. Late' = Late  BY <1>0, <1>1, <3>3 DEF Late
      <4>2. Late \in Int  BY <1>0 DEF Late
      <4> QED  BY <1>0, <1>1, <2>5, <2>6, <3>3, <4>1, <4>2
    <3> QED  BY <1>0, <3>1, <3>2, <3>3
  <2> QED  BY <1>1, <2>1, <2>2, <2>3, <2>6 DEF Ticking
<1>4. Offsets'
  BY <1>1 DEF Inv, Offsets, Setting, Steady, CleanReal, NotWriting, Value
<1>5. ASSUME NEW c \in Contexts PROVE Own(c)'
  <2>1. Own(c) /\ call'[c] = call[c] /\ call[c] \in Locals  BY <1>0, <1>1 DEF Inv
  <2>2. lost' = 0 => lost = 0  BY <1>0, <1>1
  <2>3. Working(c)'  BY <1>0, <1>1, <2>1 DEF Own, Working, Locals
  <2>4. Copied(c)'  BY <1>1, <2>1 DEF Own, Copied, Fresh, FlagSame, clock_get
  <2>5. Sleeping(c)'  BY <1>1, <2>1, <2>2 DEF Own, Sleeping, Value, Behind
  <2>6. Moment(c)'
    <3>1. /\ Fresh(c)' = Fresh(c) /\ Value(clock_get(call[c].id))' = Value(clock_get(call[c].id))
          /\ Scale(c)' = Scale(c) /\ Behind(c)' = Behind(c)
      BY <1>1 DEF Fresh, FlagSame, Value, clock_get, Scale, Behind
    <3>2. /\ Value(clock_get(call[c].id)) \in Int /\ Scale(c) \in Int
          /\ call[c].fraction \in Int
      BY <2>1, ValueType DEF Inv, Types, Locals, clock_get, Scale
    <3> QED  BY <1>0, <1>1, <2>1, <2>2, <3>1, <3>2 DEF Own, Moment
  <2> QED  BY <2>3, <2>4, <2>5, <2>6 DEF Own
<1> QED  BY <1>2, <1>3, <1>4, <1>5 DEF Inv

LEMMA TickStep == ASSUME Inv, sys_tick_handler PROVE Inv'
<1> DEFINE tick == [sec |-> 0, nsec |-> N]
<1>0. /\ cvr \in 0..(N - 1) /\ monotonic \in Time /\ realtime \in Time /\ elapsed \in Nat
      /\ timer_update_flag \in Nat /\ N \in Nat /\ N \in 0..NSECS
      /\ Value(monotonic) \in Nat /\ Value(realtime) \in Nat
      /\ call \in [Contexts -> Locals]
  BY ValueType, ClockAssumption, Second DEF Inv, Types
<1>1. /\ pending /\ cvr # 0 /\ pending' = FALSE
      /\ monotonic' = timespec_add(monotonic, tick)
      /\ realtime' = timespec_add(realtime, tick)
      /\ timer_update_flag' = timer_update_flag + 1
      /\ UNCHANGED <<cvr, elapsed, lost, pendsv, call, offset>>
  BY DEF sys_tick_handler
<1>2. /\ monotonic' \in Time /\ Value(monotonic') = Value(monotonic) + N
      /\ realtime' \in Time /\ Value(realtime') = Value(realtime) + N
  BY <1>0, <1>1, AddType, AddValue, CountsValue
<1>3. Value(monotonic)' = Value(monotonic') /\ Value(realtime)' = Value(realtime')
  BY DEF Value
<1> HIDE DEF tick
<1>4. Types'
  <2>1. pending' \in BOOLEAN  BY <1>1, Zenon
  <2>2. timer_update_flag' \in Nat  BY <1>0, <1>1
  <2> QED  BY <1>1, <1>2, <2>1, <2>2, Zenon DEF Inv, Types
<1>5. Ticking'  BY <1>0, <1>1, <1>2, <1>3 DEF Inv, Ticking, Late
<1>6. Offsets'
  <2>1. Steady' <=> Steady
    <3>1. offset \in Int /\ offset' = offset  BY <1>1 DEF Inv, Types
    <3> QED  BY <1>0, <1>2, <1>3, <3>1 DEF Steady
  <2> QED  BY <1>1, <2>1 DEF Inv, Offsets, Setting, CleanReal, NotWriting
<1>7. ASSUME NEW c \in Contexts PROVE Own(c)'
  <2>1. Own(c) /\ call'[c] = call[c] /\ call[c] \in Locals  BY <1>0, <1>1 DEF Inv
  <2>2. Working(c)'  BY <1>0, <1>1, <2>1 DEF Own, Working, Locals
  <2>3. ~FlagSame(c)'  BY <1>0, <1>1, <2>1 DEF Own, Working, Locals, FlagSame
  <2>4. Sleeping(c)'  BY <1>1, <2>1 DEF Own, Sleeping, Value, Behind
  <2> QED  BY <2>2, <2>3, <2>4 DEF Own, Copied, Moment, Fresh
<1> QED  BY <1>4, <1>5, <1>6, <1>7 DEF Inv

(* Nothing the invariant speaks of changes. *)
LEMMA NoChange ==
    ASSUME Inv, pendsv' \in BOOLEAN, UNCHANGED <<sysVars, clockVars, call, offset>>
    PROVE  Inv'
  BY DEF sysVars, clockVars, Inv, Types, Ticking, Late, Offsets, Own, Working, Copied, Moment,
         Sleeping, Fresh, FlagSame, clock_get, Scale, Behind, Steady, CleanReal, NotWriting,
         Setting, Value

(* What the end of a reading does: again; the call is over, of which the   *)
(* clock was read and, for a sleep, its end has come; or a sleep goes on.  *)
Again(c) == [call[c] EXCEPT !.at = "before"]
End(c) == timespec_add(Result(c), call[c].rqt)

LEMMA ReadingEnds ==
    ASSUME Inv, NEW c \in Contexts, FlagAfter(c)
    PROVE  /\ call[c].at = "after" /\ UNCHANGED <<sysVars, clockVars, pendsv, offset>>
           /\ \/ call' = [call EXCEPT ![c] = Again(c)]
              \/ /\ FlagSame(c) /\ call' = [call EXCEPT ![c] = Idle]
                 /\ \/ call[c].fn = "clock_gettime"
                    \/ call[c].fn = "sleep_second" /\ SleepOver(End(c), Result(c))
                    \/ call[c].fn = "sleep_loop" /\ SleepOver(call[c].tend, Result(c))
              \/ /\ call[c].fn = "sleep_first"
                 /\ call' = [call EXCEPT ![c] = [Again(c) EXCEPT !.fn = "sleep_second"]]
              \/ /\ FlagSame(c) /\ call[c].fn = "sleep_second"
                 /\ call' = [call EXCEPT ![c] = [Again(c) EXCEPT !.fn = "sleep_loop",
                                                                !.tend = End(c)]]
<1>1. call[c].at = "after" /\ UNCHANGED <<sysVars, clockVars, pendsv, offset>>
  BY DEF FlagAfter, Step
<1>2. call[c].fn \in Reading  BY <1>1 DEF Inv, Own, Working, ReadSteps
<1>3. CASE ~FlagSame(c)  BY <1>1, <1>3 DEF FlagAfter, Step, Again
<1>4. CASE FlagSame(c) /\ call[c].fn = "clock_gettime"
  BY <1>1, <1>4 DEF FlagAfter, Step
<1>5. CASE FlagSame(c) /\ call[c].fn = "sleep_first"
  BY <1>1, <1>5 DEF FlagAfter, Step, Again
<1>6. CASE FlagSame(c) /\ call[c].fn = "sleep_second"
  BY <1>1, <1>6 DEF FlagAfter, Step, Again, End
<1>7. CASE FlagSame(c) /\ call[c].fn = "sleep_loop"
  BY <1>1, <1>7 DEF FlagAfter, Step, Again
<1> QED  BY <1>2, <1>3, <1>4, <1>5, <1>6, <1>7 DEF Reading

(* The end of a sleep, counted from what was read, is late enough. *)
LEMMA EndIsLater ==
    ASSUME Inv, NEW c \in Contexts, call[c].at = "after", FlagSame(c),
           call[c].fn \in Reading \ {"clock_gettime"}
    PROVE  /\ End(c) \in Time /\ Value(End(c)) = Value(Result(c)) + Value(call[c].rqt)
           /\ lost = 0 => /\ Value(Result(c)) >= call[c].began - Behind(c)
                          /\ Value(Result(c)) <= elapsed
<1>1. /\ call[c].rqt \in Time /\ Result(c) \in Time /\ Own(c)
      /\ call[c].fraction \in Int /\ call[c].began \in Int
  BY ResultValue DEF Inv, Types, Locals
<1>2. End(c) \in Time /\ Value(End(c)) = Value(Result(c)) + Value(call[c].rqt)
  <2>1. call[c].rqt \in [sec : Nat, nsec : Nat] /\ call[c].rqt \in [sec : Nat, nsec : 0..NSECS]
    BY <1>1, Second DEF Time
  <2> QED  BY <1>1, <2>1, AddType, AddValue DEF End
<1>3. call[c].id = "MONOTONIC" /\ Fresh(c)  BY <1>1 DEF Own, Working, Fresh
<1>4. Value(Result(c)) = Value(monotonic) + (N - call[c].fraction)
  BY <1>1, <1>3, ReadsClock DEF Inv, Own, clock_get
<1>5. Scale(c) = 0 /\ clock_get(call[c].id) = monotonic  BY <1>3 DEF Scale, clock_get
<1>6. Value(monotonic) \in Int /\ N \in Int  BY ValueType, ClockAssumption DEF Inv, Types
<1>7. lost = 0 => /\ call[c].began - Behind(c) <= Value(monotonic) + (N - call[c].fraction) - 0
                  /\ Value(monotonic) + (N - call[c].fraction) - 0 <= elapsed
  BY <1>1, <1>3, <1>5 DEF Own, Moment
<1>8. elapsed \in Int /\ Behind(c) \in Int  BY <1>6 DEF Behind, Inv, Types
<1> QED  BY <1>1, <1>2, <1>4, <1>6, <1>7, <1>8

(* The local variables of no call are of their types. *)
LEMMA IdleLocals == Idle \in Locals
<1>1. Zero \in Time /\ 0 \in 0..(N - 1) /\ 0 \in 0..(NSECS - 1)
  BY Second, ClockAssumption DEF Zero, Time
<1> QED  BY <1>1 DEF Idle, Locals, Clocks

LEMMA FlagAfterStep == ASSUME Inv, NEW c \in Contexts, FlagAfter(c) PROVE Inv'
<1>0. /\ call \in [Contexts -> Locals] /\ call[c] \in Locals /\ Own(c) /\ elapsed \in Nat
      /\ timer_update_flag \in Nat
  BY DEF Inv, Types
<1>1. call[c].at = "after" /\ UNCHANGED <<sysVars, clockVars, pendsv, offset>>
  BY ReadingEnds
<1>2. call[c].fn \in Reading  BY <1>0, <1>1 DEF Own, Working, ReadSteps
<1>3. CASE call' = [call EXCEPT ![c] = Again(c)]
  <2>1. Again(c) \in Locals  BY <1>0 DEF Again, Locals, ReadSteps
  <2>2. call'[c] = Again(c)  BY <1>0, <1>3
  <2>3. Own(c)'
    BY <1>0, <1>1, <1>2, <2>2
       DEF Again, Own, Working, Copied, Moment, Sleeping, Behind, Locals, ReadSteps, SetSteps,
           Reading, sysVars, clockVars, Value
  <2>4. Offsets'  BY <1>0, <1>1, <1>2, <1>3, <2>1, OffsetsKept DEF Again, Locals, Reading
  <2> QED  BY <1>1, <1>3, <2>1, <2>3, <2>4, OneCall
<1>4. CASE call' = [call EXCEPT ![c] = Idle]
  <2>1. call'[c] = Idle  BY <1>0, <1>4
  <2>2. Own(c)'
    BY <1>0, <1>1, <2>1
       DEF Idle, Own, Working, Copied, Moment, Sleeping, ReadSteps, SetSteps, Reading,
           sysVars, clockVars
  <2>3. Idle.fn = "none"  BY DEF Idle
  <2>4. Offsets'  BY <1>1, <1>2, <1>4, <2>3, IdleLocals, OffsetsKept DEF Reading
  <2> QED  BY <1>1, <1>4, <2>2, <2>4, IdleLocals, OneCall
<1>5. CASE /\ call[c].fn = "sleep_first"
           /\ call' = [call EXCEPT ![c] = [Again(c) EXCEPT !.fn = "sleep_second"]]
  <2> DEFINE l == [Again(c) EXCEPT !.fn = "sleep_second"]
  <2>1. l \in Locals  BY <1>0 DEF Again, Locals, ReadSteps, Reading
  <2>2. call'[c] = l  BY <1>0, <1>5
  <2>3. Own(c)'
    BY <1>0, <1>1, <1>5, <2>2
       DEF Again, Own, Working, Copied, Moment, Sleeping, Behind, Locals, ReadSteps, SetSteps,
           Reading, sysVars, clockVars, Value
  <2>4. l.fn = "sleep_second"  BY <1>0 DEF Again, Locals
  <2>5. Offsets'
    <3>1. call' = [call EXCEPT ![c] = l]  BY <1>5
    <3> HIDE DEF l
    <3> QED  BY <1>1, <1>5, <2>1, <2>4, <3>1, OffsetsKept
  <2> QED  BY <1>1, <1>5, <2>1, <2>3, <2>5, OneCall
<1>6. CASE /\ FlagSame(c) /\ call[c].fn = "sleep_second"
           /\ call' = [call EXCEPT ![c] = [Again(c) EXCEPT !.fn = "sleep_loop",
                                                          !.tend = End(c)]]
  <2> DEFINE l == [Again(c) EXCEPT !.fn = "sleep_loop", !.tend = End(c)]
  <2>0. /\ End(c) \in Time /\ Value(End(c)) = Value(Result(c)) + Value(call[c].rqt)
        /\ lost = 0 => Value(Result(c)) >= call[c].began - Behind(c)
    BY <1>1, <1>6, EndIsLater DEF Reading
  <2>1. l \in Locals  BY <1>0, <2>0 DEF Again, Locals, ReadSteps, Reading
  <2>2. call'[c] = l  BY <1>0, <1>6
  <2>3. /\ call'[c].fn = "sleep_loop" /\ call'[c].tend = End(c) /\ call'[c].at = "before"
        /\ call'[c].began = call[c].began /\ call'[c].rqt = call[c].rqt
        /\ call'[c].id = call[c].id /\ call'[c].clean = call[c].clean
        /\ call'[c].flag_before = call[c].flag_before
    BY <1>0, <2>2 DEF Again, Locals
  <2>4. Sleeping(c)'
    <3>1. /\ Value(Result(c)) \in Int /\ Value(call[c].rqt) \in Int /\ call[c].began \in Int
          /\ Behind(c) \in Int
      BY <1>0, Second, ValueType, ResultValue, ClockAssumption DEF Locals, Behind, Inv
    <3>2. Value(call[c].tend)' = Value(End(c))  BY <2>3 DEF Value
    <3>3. lost' = lost /\ Behind(c)' = Behind(c)  BY <1>1 DEF sysVars, Behind
    <3> QED  BY <2>0, <2>3, <3>1, <3>2, <3>3 DEF Sleeping
  <2>5. Working(c)'
    BY <1>0, <1>1, <1>6, <2>3 DEF Own, Working, ReadSteps, SetSteps, Reading, sysVars, clockVars
  <2>6. Own(c)'  BY <2>3, <2>4, <2>5 DEF Own, Copied, Moment
  <2>7. l.fn = "sleep_loop"  BY <1>0 DEF Again, Locals
  <2>8. Offsets'
    <3>1. call' = [call EXCEPT ![c] = l]  BY <1>6
    <3> HIDE DEF l
    <3> QED  BY <1>1, <1>6, <2>1, <2>7, <3>1, OffsetsKept
  <2> QED  BY <1>1, <1>6, <2>1, <2>6, <2>8, OneCall
<1> QED  BY <1>3, <1>4, <1>5, <1>6, ReadingEnds

(* The steps of clock_settime(). *)
LEMMA SetFlagBeforeStep == ASSUME Inv, NEW c \in Contexts, SetFlagBefore(c) PROVE Inv'
<1>0. call \in [Contexts -> Locals] /\ call[c] \in Locals /\ Own(c)  BY DEF Inv, Types
<1> DEFINE l == [call[c] EXCEPT !.at = "set_sec", !.flag_before = timer_update_flag]
<1>1. /\ call[c].at = "set_before" /\ call' = [call EXCEPT ![c] = l]
      /\ UNCHANGED <<sysVars, clockVars, pendsv, offset>>
  BY DEF SetFlagBefore, Step
<1>2. l \in Locals  BY <1>0 DEF Locals, SetSteps, Inv, Types
<1>3. call'[c] = l /\ call[c].fn = "clock_settime"
  BY <1>0, <1>1 DEF Own, Working, SetSteps
<1>4. Own(c)'
  BY <1>0, <1>1, <1>3
     DEF Own, Working, Copied, Moment, Sleeping, Locals, ReadSteps, SetSteps, Reading,
         sysVars, clockVars, Inv, Types
<1>5. Offsets'  BY <1>0, <1>1, <1>2, <1>3, OffsetsKept DEF Locals
<1> QED  BY <1>1, <1>2, <1>4, <1>5, OneCall

(* A word is written: the writer sees it in the clock, readings of the     *)
(* clock are clean no longer, and other calls do not notice.               *)
LEMMA WriteStep ==
    ASSUME Inv, NEW c \in Contexts, WriteSec(c) \/ WriteNsec(c)
    PROVE  Inv'
<1>0. call \in [Contexts -> Locals] /\ call[c] \in Locals /\ Own(c)  BY DEF Inv, Types
<1>1. /\ call[c].at \in {"set_sec", "set_nsec"}
      /\ UNCHANGED <<cvr, pending, elapsed, lost, monotonic, timer_update_flag, pendsv, offset>>
  BY DEF WriteSec, WriteNsec, Write, sysVars
<1>2. call[c].fn = "clock_settime"  BY <1>0, <1>1 DEF Own, Working, SetSteps
<1>3. PICK to \in {"set_nsec", "set_after"} :
        call' = [d \in Contexts |->
                    IF d = c THEN [call[d] EXCEPT !.at = to]
                             ELSE [call[d] EXCEPT !.clean = @ /\ call[d].id = "MONOTONIC"
                                                              /\ call[d].fn # "clock_settime"]]
  BY DEF WriteSec, WriteNsec, Write
<1>4. call'[c] = [call[c] EXCEPT !.at = to] /\ call'[c] \in Locals
  BY <1>0, <1>3 DEF Locals, SetSteps
<1>5. ASSUME NEW d \in Contexts, d # c
      PROVE  /\ call'[d] \in Locals
             /\ call'[d].at = call[d].at /\ call'[d].fn = call[d].fn /\ call'[d].id = call[d].id
             /\ call'[d].tp = call[d].tp /\ call'[d].fraction = call[d].fraction
             /\ call'[d].flag_before = call[d].flag_before /\ call'[d].rqt = call[d].rqt
             /\ call'[d].tend = call[d].tend /\ call'[d].began = call[d].began
             /\ call'[d].clean <=> /\ call[d].clean /\ call[d].id = "MONOTONIC"
                                   /\ call[d].fn # "clock_settime"
  <2>1. call[d] \in Locals  BY <1>0
  <2>2. call'[d] = [call[d] EXCEPT !.clean = @ /\ call[d].id = "MONOTONIC"
                                              /\ call[d].fn # "clock_settime"]
    BY <1>3, <1>5
  <2> QED  BY <2>1, <2>2 DEF Locals
<1>6. realtime' \in Time
  <2>1. realtime \in Time /\ call[c].tp \in Time  BY <1>0 DEF Inv, Types, Locals
  <2> QED  BY <2>1 DEF WriteSec, WriteNsec, Write, Time
<1>7. Types'
  <2>1. \A d \in Contexts : call'[d] \in Locals  BY <1>4, <1>5
  <2>2. call' \in [Contexts -> Locals]  BY <1>3, <2>1
  <2> QED  BY <1>1, <1>6, <2>2 DEF Inv, Types
<1>8. Ticking'  BY <1>1 DEF Inv, Ticking, Late, Value
<1>9. Offsets'
  <2>1. call'[c].fn = "clock_settime"  BY <1>0, <1>2, <1>4 DEF Locals
  <2>2. Setting'  BY <2>1 DEF Setting
  <2>3. \A d \in Contexts : ~CleanReal(d)'  BY <1>5, <2>1 DEF CleanReal
  <2> QED  BY <2>2, <2>3 DEF Offsets
<1>10. Own(c)'
  <2>1. /\ call'[c].at = to /\ call'[c].fn = "clock_settime" /\ call'[c].id = call[c].id
        /\ call'[c].tp = call[c].tp /\ call'[c].clean = call[c].clean
        /\ call'[c].flag_before = call[c].flag_before /\ call'[c].began = call[c].began
    BY <1>0, <1>2, <1>4 DEF Locals
  <2>2. Working(c)'
    BY <1>0, <1>1, <1>2, <2>1 DEF Own, Working, ReadSteps, SetSteps, Reading
  <2>3. Copied(c)'
    <3>1. realtime \in Time /\ call[c].tp \in Time  BY <1>0 DEF Inv, Types, Locals
    <3>2. CASE WriteSec(c)
      <4>1. realtime'.sec = call[c].tp.sec  BY <3>1, <3>2 DEF WriteSec, Write, Time
      <4>2. call'[c].at = "set_nsec"
        BY <1>0, <3>2 DEF WriteSec, Write, Locals
      <4> QED  BY <2>1, <4>1, <4>2 DEF Copied
    <3>3. CASE WriteNsec(c)
      <4>1. realtime'.nsec = call[c].tp.nsec /\ realtime'.sec = realtime.sec
            /\ call[c].at = "set_nsec"
        BY <3>1, <3>3 DEF WriteNsec, Write, Time
      <4>2. call'[c].at = "set_after"
        BY <1>0, <3>3 DEF WriteNsec, Write, Locals
      <4>3. Fresh(c)' => Fresh(c)  BY <1>1, <2>1 DEF Fresh, FlagSame
      <4>4. Fresh(c) => realtime.sec = call[c].tp.sec
        BY <1>0, <4>1 DEF Own, Copied
      <4> QED  BY <2>1, <4>1, <4>2, <4>3, <4>4 DEF Copied
    <3> QED  BY <3>2, <3>3
  <2> QED  BY <2>1, <2>2, <2>3 DEF Own, Moment, Sleeping
<1>11. ASSUME NEW d \in Contexts, d # c PROVE Own(d)'
  <2>1. Own(d) /\ call[d] \in Locals  BY <1>0 DEF Inv
  <2>2. Working(d)'
    BY <1>1, <1>5, <1>11, <2>1 DEF Own, Working, Reading
  <2>3. Fresh(d)' => /\ Fresh(d) /\ call[d].id = "MONOTONIC" /\ call'[d].id = "MONOTONIC"
                     /\ call[d].fn # "clock_settime"
    BY <1>1, <1>5, <1>11 DEF Fresh, FlagSame
  <2>4. Copied(d)'
    <3>1. call[d].fn # "clock_settime" => call[d].at \notin SetSteps
      BY <2>1 DEF Own, Working
    <3> QED  BY <1>1, <1>5, <1>11, <2>1, <2>3, <3>1 DEF Own, Copied, clock_get, SetSteps
  <2>5. Moment(d)'
    <3>1. call[d].id = "MONOTONIC" /\ call'[d].id = "MONOTONIC" =>
            /\ Value(clock_get(call[d].id))' = Value(clock_get(call[d].id))
            /\ Scale(d)' = Scale(d) /\ Behind(d)' = Behind(d)
      BY <1>1 DEF Value, clock_get, Scale, Behind
    <3> QED  BY <1>1, <1>5, <1>11, <2>1, <2>3, <3>1 DEF Own, Moment
  <2>6. Sleeping(d)'
    BY <1>1, <1>5, <1>11, <2>1 DEF Own, Sleeping, Value, Behind
  <2> QED  BY <2>2, <2>4, <2>5, <2>6 DEF Own
<1> QED  BY <1>7, <1>8, <1>9, <1>10, <1>11 DEF Inv

(* Into no clean reading of the real-time clock does the end of a setting  *)
(* fall, so the new offset disturbs none.                                  *)
LEMMA SetFlagAfterStep == ASSUME Inv, NEW c \in Contexts, SetFlagAfter(c) PROVE Inv'
<1>0. call \in [Contexts -> Locals] /\ call[c] \in Locals /\ Own(c)  BY DEF Inv, Types
<1>1. /\ call[c].at = "set_after"
      /\ UNCHANGED <<cvr, pending, elapsed, lost, monotonic, realtime, timer_update_flag, pendsv>>
  BY DEF SetFlagAfter, sysVars, clockVars
<1>2. call[c].fn = "clock_settime"  BY <1>0, <1>1 DEF Own, Working, SetSteps
<1>3. ~NotWriting  BY <1>1, <1>2 DEF NotWriting
<1>4. \A d \in Contexts : ~CleanReal(d)  BY <1>3 DEF Inv, Offsets
<1>5. CASE call' = [call EXCEPT ![c].at = "set_before"] /\ UNCHANGED offset
  <2> DEFINE l == [call[c] EXCEPT !.at = "set_before"]
  <2>1. l \in Locals /\ call' = [call EXCEPT ![c] = l] /\ call'[c] = l
    BY <1>0, <1>5 DEF Locals, SetSteps
  <2>2. Own(c)'
    BY <1>0, <1>1, <1>2, <2>1
       DEF Own, Working, Copied, Moment, Sleeping, Locals, ReadSteps, SetSteps, Reading
  <2>3. Offsets'
    BY <1>0, <1>1, <1>2, <1>5, <2>1, OffsetsKept DEF Locals, clockVars
  <2> QED  BY <1>1, <1>5, <2>1, <2>2, <2>3, OneCall DEF sysVars, clockVars
<1>6. CASE /\ call' = [call EXCEPT ![c] = Idle]
           /\ offset' = Value(realtime) - Value(monotonic)
  <2>1. call'[c] = Idle /\ \A d \in Contexts : d # c => call'[d] = call[d]
    BY <1>0, <1>6
  <2>2. Types'
    <3>1. offset' \in Int  BY <1>6, ValueType DEF Inv, Types
    <3>2. call' \in [Contexts -> Locals]  BY <1>0, <1>6, IdleLocals
    <3> QED  BY <1>1, <3>1, <3>2 DEF Inv, Types
  <2>3. Ticking'  BY <1>1 DEF Inv, Ticking, Late, Value
  <2>4. Offsets'
    <3>1. Steady'  BY <1>1, <1>6 DEF Steady, Value
    <3>2. \A d \in Contexts : ~CleanReal(d)'  BY <1>4, <2>1 DEF CleanReal, Idle
    <3> QED  BY <3>1, <3>2 DEF Offsets
  <2>5. Own(c)'
    BY <1>0, <1>1, <2>1
       DEF Idle, Own, Working, Copied, Moment, Sleeping, ReadSteps, SetSteps, Reading, Inv, Types
  <2>6. ASSUME NEW d \in Contexts, d # c PROVE Own(d)'
    <3>1. Own(d) /\ call'[d] = call[d] /\ call[d] \in Locals  BY <1>0, <2>1, <2>6 DEF Inv
    <3>2. Working(d)' /\ Copied(d)' /\ Sleeping(d)'
      BY <1>1, <3>1 DEF Own, Working, Copied, Sleeping, Fresh, FlagSame, clock_get, Value, Behind
    <3>3. call[d].at = "after" /\ call[d].clean => call[d].id = "MONOTONIC"
      <4>1. call[d].at = "after" => call[d].fn \in Reading
        BY <3>1 DEF Own, Working, ReadSteps
      <4> QED  BY <1>4, <3>1, <4>1 DEF Own, Working, CleanReal, Locals, Clocks
    <3>4. call[d].id = "MONOTONIC" =>
            /\ Value(clock_get(call[d].id))' = Value(clock_get(call[d].id))
            /\ Scale(d)' = Scale(d) /\ Behind(d)' = Behind(d)
      BY <1>1, <3>1 DEF Value, clock_get, Scale, Behind
    <3>5. Moment(d)'
      BY <1>1, <3>1, <3>3, <3>4 DEF Own, Moment, Fresh, FlagSame
    <3> QED  BY <3>2, <3>5 DEF Own
  <2> QED  BY <2>2, <2>3, <2>4, <2>5, <2>6 DEF Inv
<1> QED  BY <1>5, <1>6 DEF SetFlagAfter

-----------------------------------------------------------------------------
(* Theorems. *)

(* Whatever steps SysTick, the signal handler and the calls take, and in   *)
(* whatever order: the monotonic clock with the counter is the time        *)
(* elapsed, what a call has copied is current unless the flag or a setting *)
(* says otherwise, and the real-time clock keeps its offset.               *)
THEOREM ClockInvariant == Spec => []Inv
<1>1. Init => Inv
  <2> SUFFICES ASSUME Init PROVE Inv  OBVIOUS
  <2> USE DEF Init
  <2>0. N \in Nat /\ N >= 2 /\ Zero \in Time
    BY ClockAssumption, Second DEF Zero, Time
  <2>1. Types
    <3>1. /\ cvr \in 0..(N - 1) /\ monotonic \in Time /\ realtime \in Time
          /\ timer_update_flag \in Nat /\ elapsed \in Nat /\ lost \in Nat /\ offset \in Int
      BY <2>0
    <3>2. call \in [Contexts -> Locals]  BY IdleLocals
    <3>3. pending \in BOOLEAN /\ pendsv \in BOOLEAN  BY Zenon
    <3> QED  BY <3>1, <3>2, <3>3, Zenon DEF Types
  <2>2. Value(monotonic) = 0 /\ Value(realtime) = 0  BY Second DEF Zero, Value
  <2>3. Ticking  BY <2>0, <2>2 DEF Ticking, Late
  <2>4. \A c \in Contexts : call[c] = Idle  OBVIOUS
  <2>5. Offsets  BY <2>2, <2>4 DEF Offsets, Steady, CleanReal, Idle
  <2>6. \A c \in Contexts : Own(c)
    BY <2>4 DEF Own, Working, Copied, Moment, Sleeping, Idle, ReadSteps, SetSteps, Reading
  <2> QED  BY <2>1, <2>3, <2>5, <2>6 DEF Inv
<1>2. Inv /\ [Next]_vars => Inv'
  <2> SUFFICES ASSUME Inv, [Next]_vars PROVE Inv'  OBVIOUS
  <2>1. CASE Count  BY <2>1, CountStep
  <2>2. CASE sys_tick_handler  BY <2>2, TickStep
  <2>3. CASE PendSV  BY <2>3, NoChange DEF PendSV
  <2>4. ASSUME NEW c \in Contexts,
               \/ \E id \in Clocks : clock_gettime(c, id)
               \/ \E rqt \in Sleeps : clock_nanosleep(c, rqt)
               \/ \E t \in SetTimes : clock_settime(c, t)
        PROVE  Inv'
    BY <2>4, Begins
  <2>5. ASSUME NEW c \in Contexts,
               FlagBefore(c) \/ CopySec(c) \/ CopyNsec(c) \/ systick_get_value(c)
        PROVE  Inv'
    BY <2>5, ReadingSteps
  <2>6. ASSUME NEW c \in Contexts, FlagAfter(c) PROVE Inv'  BY <2>6, FlagAfterStep
  <2>7. ASSUME NEW c \in Contexts, SetFlagBefore(c) PROVE Inv'  BY <2>7, SetFlagBeforeStep
  <2>8. ASSUME NEW c \in Contexts, WriteSec(c) \/ WriteNsec(c) PROVE Inv'  BY <2>8, WriteStep
  <2>9. ASSUME NEW c \in Contexts, SetFlagAfter(c) PROVE Inv'  BY <2>9, SetFlagAfterStep
  <2>10. CASE UNCHANGED vars
    <3>1. pendsv' \in BOOLEAN  BY <2>10 DEF vars, Inv, Types
    <3> QED  BY <2>10, <3>1, NoChange DEF vars
  <2> QED  BY <2>1, <2>2, <2>3, <2>4, <2>5, <2>6, <2>7, <2>8, <2>9, <2>10 DEF Next
<1> QED  BY <1>1, <1>2, PTL DEF Spec

(* A call that is under way returns only at the end of its loop. *)
LEMMA OnlyAtTheEnd ==
    ASSUME Inv, [Next]_vars, NEW c \in Contexts, call[c].fn # "none", call'[c].at = "none"
    PROVE  FlagAfter(c) \/ SetFlagAfter(c)
<1>0. call \in [Contexts -> Locals] /\ call[c] \in Locals  BY DEF Inv, Types
<1>1. call[c].at # "none"
  BY <1>0 DEF Inv, Own, Working, Locals, ReadSteps, SetSteps, Reading
<1>2. ASSUME call'[c] = call[c] PROVE FALSE  BY <1>1, <1>2
<1>4. ASSUME Count \/ sys_tick_handler \/ PendSV \/ UNCHANGED vars PROVE FALSE
  BY <1>2, <1>4 DEF Count, sys_tick_handler, PendSV, vars
<1>5. ASSUME NEW d \in Contexts,
             \/ \E id \in Clocks : clock_gettime(d, id)
             \/ \E rqt \in Sleeps : clock_nanosleep(d, rqt)
             \/ \E t \in SetTimes : clock_settime(d, t)
      PROVE  FALSE
  <2>1. d # c  BY <1>1, <1>5 DEF clock_gettime, clock_nanosleep, clock_settime, Begin
  <2>2. call'[c] = call[c]
    BY <1>0, <1>5, <2>1 DEF clock_gettime, clock_nanosleep, clock_settime, Begin
  <2> QED  BY <1>2, <2>2
<1>6. ASSUME NEW d \in Contexts,
             \/ FlagBefore(d) \/ CopySec(d) \/ CopyNsec(d) \/ systick_get_value(d)
             \/ SetFlagBefore(d)
      PROVE  FALSE
  <2>1. CASE d # c
    BY <1>0, <1>2, <1>6, <2>1
       DEF FlagBefore, CopySec, CopyNsec, systick_get_value, SetFlagBefore, Step
  <2>2. CASE d = c
    <3>1. ~FlagBefore(c)  BY <1>0 DEF FlagBefore, Step, Locals
    <3>2. ~CopySec(c)  BY <1>0 DEF CopySec, Step, Locals
    <3>3. ~CopyNsec(c)  BY <1>0 DEF CopyNsec, Step, Locals
    <3>4. ~systick_get_value(c)  BY <1>0 DEF systick_get_value, Step, Locals
    <3>5. ~SetFlagBefore(c)  BY <1>0 DEF SetFlagBefore, Step, Locals
    <3> QED  BY <1>6, <2>2, <3>1, <3>2, <3>3, <3>4, <3>5
  <2> QED  BY <2>1, <2>2
<1>7. ASSUME NEW d \in Contexts, WriteSec(d) \/ WriteNsec(d) PROVE FALSE
  <2>1. call'[c].at \in {call[c].at, "set_nsec", "set_after"}
    BY <1>0, <1>7 DEF WriteSec, WriteNsec, Write, Locals
  <2> QED  BY <1>1, <2>1
<1>8. ASSUME NEW d \in Contexts, FlagAfter(d) \/ SetFlagAfter(d) PROVE d = c
  BY <1>0, <1>2, <1>8 DEF FlagAfter, Step, SetFlagAfter
<1> QED  BY <1>4, <1>5, <1>6, <1>7, <1>8 DEF Next

(* A call of clock_gettime() gives a moment between its begin and its end, *)
(* whenever ticks and signal handlers come, for every length of a tick.    *)
THEOREM ReadingIsAMoment == Spec => ReadsTime
<1>1. ASSUME Inv, [Next]_vars, NEW c \in Contexts, Returns(c, "clock_gettime"), call[c].clean,
             lost = 0
      PROVE  Value(Result(c)) - Scale(c) \in (call[c].began - Behind(c))..elapsed
  <2>0. call[c] \in Locals /\ call \in [Contexts -> Locals] /\ Own(c)  BY <1>1 DEF Inv, Types
  <2>1. FlagAfter(c) \/ SetFlagAfter(c)  BY <1>1, OnlyAtTheEnd DEF Returns
  <2>2. ~SetFlagAfter(c)
    BY <1>1, <2>0 DEF SetFlagAfter, Returns, Own, Working, SetSteps
  <2>3. call[c].at = "after" /\ FlagSame(c)
    <3>1. call' # [call EXCEPT ![c] = Again(c)]
      BY <1>1, <2>0 DEF Again, Returns, Locals
    <3> QED  BY <1>1, <2>1, <2>2, <3>1, ReadingEnds DEF Returns
  <2>4. Fresh(c)  BY <1>1, <2>3 DEF Fresh
  <2>5. Value(Result(c)) = Value(clock_get(call[c].id)) + (N - call[c].fraction)
    BY <1>1, <2>0, <2>3, <2>4, ReadsClock DEF Inv, Own
  <2>6. /\ call[c].began - Behind(c)
            <= Value(clock_get(call[c].id)) + (N - call[c].fraction) - Scale(c)
        /\ Value(clock_get(call[c].id)) + (N - call[c].fraction) - Scale(c) <= elapsed
    <3>1. Moment(c)  BY <2>0 DEF Own
    <3> QED  BY <1>1, <2>3, <2>4, <3>1 DEF Moment
  <2>7. /\ Value(Result(c)) \in Int /\ Scale(c) \in Int /\ elapsed \in Int
        /\ call[c].began \in Int /\ Behind(c) \in Int
        /\ Value(clock_get(call[c].id)) \in Int /\ N - call[c].fraction \in Int
    BY <1>1, <2>0, ResultValue, ValueType, ClockAssumption
       DEF Inv, Types, Locals, Scale, Behind, clock_get
  <2> QED  BY <2>5, <2>6, <2>7
<1>2. Inv /\ [Next]_vars =>
        [\A c \in Contexts :
            Returns(c, "clock_gettime") /\ call[c].clean /\ lost = 0 =>
                LET scale == IF call[c].id = "MONOTONIC" THEN 0 ELSE offset
                    behind == IF c = "handler" THEN N ELSE 0
                IN  Value(Result(c)) - scale \in (call[c].began - behind)..elapsed]_vars
  BY <1>1 DEF Scale, Behind
<1> QED  BY <1>2, ClockInvariant, PTL DEF Spec, ReadsTime

(* After clock_settime() the clock shows what was set: if a tick came      *)
(* between the two words it is written again.                              *)
THEOREM SettingTakes == Spec => SettimeTakes
<1>1. ASSUME Inv, [Next]_vars, NEW c \in Contexts, Returns(c, "clock_settime"), call[c].clean
      PROVE  realtime = call[c].tp
  <2>0. /\ call[c] \in Locals /\ call \in [Contexts -> Locals] /\ Own(c)
        /\ call[c].tp \in Time /\ realtime \in Time
    BY <1>1 DEF Inv, Types, Locals
  <2>1. FlagAfter(c) \/ SetFlagAfter(c)  BY <1>1, OnlyAtTheEnd DEF Returns
  <2>2. ~FlagAfter(c)
    BY <1>1, <2>0 DEF FlagAfter, Step, Returns, Own, Working, ReadSteps, Reading
  <2>3. call[c].at = "set_after" /\ FlagSame(c)
    BY <1>1, <2>0, <2>1, <2>2 DEF SetFlagAfter, Returns, Locals
  <2>4. realtime.sec = call[c].tp.sec /\ realtime.nsec = call[c].tp.nsec
    BY <1>1, <2>0, <2>3 DEF Own, Copied, Fresh
  <2> QED  BY <2>0, <2>4 DEF Time
<1>2. Inv /\ [Next]_vars =>
        [\A c \in Contexts :
            Returns(c, "clock_settime") /\ call[c].clean => realtime = call[c].tp]_vars
  BY <1>1
<1> QED  BY <1>2, ClockInvariant, PTL DEF Spec, SettimeTakes

(* clock_nanosleep() called by the thread sleeps no shorter than asked,    *)
(* whatever the seconds and nanoseconds of the end it computes.            *)
THEOREM SleepsLongEnough == Spec => NoShortSleep
<1>1. ASSUME Inv, [Next]_vars, NEW fn \in {"sleep_second", "sleep_loop"},
             Returns("thread", fn), lost = 0
      PROVE  elapsed - call["thread"].began >= Value(call["thread"].rqt)
  <2> DEFINE c == "thread"
  <2>0. /\ c \in Contexts /\ call[c] \in Locals /\ call \in [Contexts -> Locals] /\ Own(c)
        /\ call[c].fn = fn /\ fn \in Reading \ {"clock_gettime"}
    BY <1>1 DEF Inv, Types, Contexts, Returns, Reading
  <2>1. FlagAfter(c) \/ SetFlagAfter(c)  BY <1>1, <2>0, OnlyAtTheEnd DEF Returns, Reading
  <2>2. ~SetFlagAfter(c)
    BY <1>1, <2>0 DEF SetFlagAfter, Own, Working, SetSteps
  <2>3. /\ call[c].at = "after" /\ FlagSame(c)
        /\ \/ SleepOver(End(c), Result(c))
           \/ call[c].fn = "sleep_loop" /\ SleepOver(call[c].tend, Result(c))
    <3>1. call' # [call EXCEPT ![c] = Again(c)]
      BY <1>1, <2>0 DEF Again, Returns, Locals
    <3>2. call' # [call EXCEPT ![c] = [Again(c) EXCEPT !.fn = "sleep_loop", !.tend = End(c)]]
      BY <1>1, <2>0 DEF Again, Returns, Locals
    <3> HIDE DEF c
    <3> QED  BY <1>1, <2>0, <2>1, <2>2, <3>1, <3>2, ReadingEnds
  <2>4. /\ End(c) \in Time /\ Value(End(c)) = Value(Result(c)) + Value(call[c].rqt)
        /\ Value(Result(c)) >= call[c].began - Behind(c) /\ Value(Result(c)) <= elapsed
    <3> HIDE DEF c
    <3> QED  BY <1>1, <2>0, <2>3, EndIsLater
  <2>5. Behind(c) = 0  BY DEF Behind
  <2>6. /\ Result(c) \in Time /\ call[c].tend \in Time /\ Value(call[c].rqt) \in Int
        /\ call[c].began \in Int /\ elapsed \in Int /\ Value(Result(c)) \in Int
        /\ Value(call[c].tend) \in Int
    BY <1>1, <2>0, ResultValue, ValueType, Second DEF Inv, Types, Locals
  <2>7. CASE SleepOver(End(c), Result(c))
    <3>1. Value(End(c)) <= Value(Result(c))
      BY <2>4, <2>6, <2>7, DiffOrders DEF SleepOver
    <3> HIDE DEF c
    <3>2. elapsed - call[c].began >= Value(call[c].rqt)
      BY <2>4, <2>5, <2>6, <3>1
    <3> QED  BY <3>2 DEF c
  <2>8. CASE call[c].fn = "sleep_loop" /\ SleepOver(call[c].tend, Result(c))
    <3>1. Value(call[c].tend) <= Value(Result(c))
      BY <2>6, <2>8, DiffOrders DEF SleepOver
    <3>2. Value(call[c].tend) >= call[c].began - Behind(c) + Value(call[c].rqt)
      BY <1>1, <2>0, <2>8 DEF Own, Sleeping
    <3> HIDE DEF c
    <3>3. elapsed - call[c].began >= Value(call[c].rqt)
      BY <2>4, <2>5, <2>6, <3>1, <3>2
    <3> QED  BY <3>3 DEF c
  <2> QED  BY <2>3, <2>7, <2>8
<1>2. Inv /\ [Next]_vars =>
        [\A fn \in {"sleep_second", "sleep_loop"} :
            Returns("thread", fn) /\ lost = 0 =>
                elapsed - call["thread"].began >= Value(call["thread"].rqt)]_vars
  BY <1>1
<1> QED  BY <1>2, ClockInvariant, PTL DEF Spec, NoShortSleep
==============================================================================
