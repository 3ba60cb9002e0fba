-------------------------------- MODULE Clock --------------------------------
(***************************************************************************)
(* The clocks of src/src/clock_gettime_systick.c, with the sums and        *)
(* differences of timespec.c and the sleeps of clock_nanosleep_poll.c.     *)
(*                                                                         *)
(* SysTick counts down from N - 1 and interrupts at 0; its handler adds a  *)
(* tick to both clocks.  Calls read a clock in three parts (two words and  *)
(* the counter) and begin again if timer_update_flag shows that a tick     *)
(* came in between.  SysTick preempts the thread, but not the signal       *)
(* handlers under PendSV, which has the same priority and preempts the     *)
(* thread too.  The unit of time is a count: nanoseconds are multiples of  *)
(* it.  The synchronisation at the end of clock_gettime() is in Timesync.  *)
(***************************************************************************)
EXTENDS Integers

CONSTANTS
    N,                     \* counts in a tick: rcc_ahb_frequency/SYSTICK_FREQ_HZ
    TICKS,                 \* ticks in a second: SYSTICK_FREQ_HZ
    SetTimes,              \* what clock_settime() is called with
    Sleeps,                \* how long a clock_nanosleep() may be
    MaxElapsed             \* bound: where time ends

ASSUME ClockAssumption ==
    /\ N \in Nat \ {0, 1} /\ TICKS \in Nat \ {0}
    /\ SetTimes \subseteq [sec : Nat, nsec : 0..(N * TICKS - 1)]
    /\ Sleeps \subseteq [sec : Nat, nsec : 0..(N * TICKS - 1)]
    /\ MaxElapsed \in Nat

VARIABLES
    cvr,                   \* SysTick: the counter
    pending,               \* SysTick: its interrupt is pending
    monotonic, realtime,   \* the clocks, without the current tick
    timer_update_flag,
    pendsv,                \* a signal handler runs
    call,                  \* the call each context is in
    elapsed,               \* history: counts since the start
    lost,                  \* history: ticks that found the last one pending
    offset                 \* history: realtime - monotonic, as last set

sysVars == <<cvr, pending, elapsed, lost>>
clockVars == <<monotonic, realtime, timer_update_flag>>
vars == <<sysVars, clockVars, pendsv, call, offset>>

Contexts == {"thread", "handler"}
Clocks == {"MONOTONIC", "REALTIME"}
NSECS == N * TICKS                         \* NSECS_IN_SEC

Zero == [sec |-> 0, nsec |-> 0]
Value(t) == t.sec * NSECS + t.nsec

(* No call, and the local variables a call starts with. *)
Idle ==
    [at |-> "none", fn |-> "none", id |-> "MONOTONIC", flag_before |-> 0, tp |-> Zero,
     fraction |-> 0, rqt |-> Zero, tend |-> Zero, began |-> 0, clean |-> TRUE]

Init ==
    /\ cvr = N - 1 /\ pending = FALSE
    /\ monotonic = Zero /\ realtime = Zero /\ timer_update_flag = 0
    /\ pendsv = FALSE
    /\ call = [c \in Contexts |-> Idle]
    /\ elapsed = 1 /\ lost = 0 /\ offset = 0

-----------------------------------------------------------------------------
(* timespec.c *)

timespec_add(t1, t2) ==
    LET nsec == t1.nsec + t2.nsec IN
    IF nsec >= NSECS THEN [sec |-> t1.sec + t2.sec + 1, nsec |-> nsec - NSECS]
                     ELSE [sec |-> t1.sec + t2.sec, nsec |-> nsec]

(* What timespec_diff returns: its sign is that of to - from. *)
timespec_diff(to, from) ==
    LET borrow == IF to.nsec < from.nsec THEN 1 ELSE 0
        nsec == to.nsec - from.nsec + borrow * NSECS
        sec == to.sec - from.sec - borrow
    IN  IF sec = 0 THEN nsec ELSE sec

(* systick_fraction_to_timespec.  A count is taken to be a whole number of *)
(* nanoseconds, NSECS_IN_SEC / rcc_ahb_frequency: 125 at the 8 MHz of the  *)
(* STM32F103.  On the STM32F411, at 16 MHz, the division gives 62 for      *)
(* 62.5, and readings within a tick run slow, which is not modelled.       *)
fraction_to_timespec(fraction) == [sec |-> 0, nsec |-> N - fraction]

-----------------------------------------------------------------------------
(* SysTick and the processor. *)

(* A pending SysTick preempts the thread before the next count. *)
Running(c) ==
    IF pendsv THEN c = "handler" ELSE c = "thread" /\ (~pending \/ cvr = 0)

(* The counter counts; at 0 the interrupt becomes pending. *)
Count ==
    /\ elapsed < MaxElapsed
    /\ pendsv \/ ~pending \/ cvr = 0
    /\ elapsed' = elapsed + 1
    /\ cvr' = IF cvr = 0 THEN N - 1 ELSE cvr - 1
    /\ pending' = (pending \/ cvr = 1)
    /\ lost' = IF cvr = 1 /\ pending THEN lost + 1 ELSE lost
    /\ UNCHANGED <<clockVars, pendsv, call, offset>>

(* sys_tick_handler, which starts later than one count after the interrupt. *)
sys_tick_handler ==
    /\ pending /\ ~pendsv /\ cvr # 0
    /\ pending' = FALSE
    /\ monotonic' = timespec_add(monotonic, [sec |-> 0, nsec |-> N])
    /\ realtime' = timespec_add(realtime, [sec |-> 0, nsec |-> N])
    /\ timer_update_flag' = timer_update_flag + 1
    /\ UNCHANGED <<cvr, elapsed, lost, pendsv, call, offset>>

(* A signal handler begins, and ends. *)
PendSV ==
    /\ call["handler"].at = "none"
    /\ pendsv' = ~pendsv
    /\ UNCHANGED <<sysVars, clockVars, call, offset>>

-----------------------------------------------------------------------------
(* Calls. *)

clock_get(id) == IF id = "MONOTONIC" THEN monotonic ELSE realtime

(* Somebody is in the middle of setting the clock. *)
Setting == \E c \in Contexts : call[c].fn = "clock_settime"

Begin(c, locals) ==
    /\ Running(c) /\ call[c].at = "none"
    /\ call' = [call EXCEPT ![c] = locals]
    /\ UNCHANGED <<sysVars, clockVars, pendsv, offset>>

clock_gettime(c, id) ==
    Begin(c, [Idle EXCEPT !.at = "before", !.fn = "clock_gettime", !.id = id,
                          !.began = elapsed, !.clean = id = "REALTIME" => ~Setting])

(* A relative sleep on CLOCK_MONOTONIC, the only kind the repository asks  *)
(* for (nanosleep, sleep); it reads the clock once more than it            *)
(* has to.  With TIMER_ABSTIME the end would be given, on CLOCK_REALTIME a *)
(* clock_settime() would move it.                                          *)
clock_nanosleep(c, rqt) ==
    Begin(c, [Idle EXCEPT !.at = "before", !.fn = "sleep_first", !.rqt = rqt,
                          !.began = elapsed])

(* Other clocks and values are refused with EINVAL. *)
clock_settime(c, t) ==
    Begin(c, [Idle EXCEPT !.at = "set_before", !.fn = "clock_settime", !.tp = t,
                          !.clean = ~Setting])

(* Step `from' of the call of c: its local variables become `locals'. *)
Step(c, from, locals) ==
    /\ Running(c) /\ call[c].at = from
    /\ call' = [call EXCEPT ![c] = locals]
    /\ UNCHANGED <<sysVars, clockVars, pendsv, offset>>

FlagBefore(c) ==
    Step(c, "before", [call[c] EXCEPT !.at = "sec", !.flag_before = timer_update_flag])

CopySec(c) ==
    Step(c, "sec", [call[c] EXCEPT !.at = "nsec", !.tp.sec = clock_get(call[c].id).sec])

CopyNsec(c) ==
    Step(c, "nsec", [call[c] EXCEPT !.at = "counter", !.tp.nsec = clock_get(call[c].id).nsec])

systick_get_value(c) ==
    Step(c, "counter", [call[c] EXCEPT !.at = "after", !.fraction = cvr])

(* Mutant: the flag is not looked at. *)
FlagIgnored(c) == TRUE

(* No tick came in between. *)
FlagSame(c) == call[c].flag_before = timer_update_flag

(* The time that clock_gettime() gives. *)
Result(c) == timespec_add(call[c].tp, fraction_to_timespec(call[c].fraction))

(* Mutant: a sleep ends when less than a count is left of it. *)
SleepOverSoon(tend, tcurrent) == timespec_diff(tend, tcurrent) <= 1

(* A sleep is over. *)
SleepOver(tend, tcurrent) == timespec_diff(tend, tcurrent) <= 0

FlagAfter(c) ==
    LET l == call[c]
        again == [l EXCEPT !.at = "before"]
        tend == timespec_add(Result(c), l.rqt)
        read == CASE l.fn = "clock_gettime"      -> Idle
                  [] l.fn = "sleep_first"        -> [again EXCEPT !.fn = "sleep_second"]
                  [] l.fn = "sleep_second"       ->
                        IF SleepOver(tend, Result(c)) THEN Idle
                        ELSE [again EXCEPT !.fn = "sleep_loop", !.tend = tend]
                  [] l.fn = "sleep_loop"         ->
                        IF SleepOver(l.tend, Result(c)) THEN Idle ELSE again
    IN  Step(c, "after", IF FlagSame(c) THEN read ELSE again)

-----------------------------------------------------------------------------
(* clock_settime *)

SetFlagBefore(c) ==
    Step(c, "set_before", [call[c] EXCEPT !.at = "set_sec", !.flag_before = timer_update_flag])

(* A word of the clock is written; what other calls are doing with it is   *)
(* spoiled.                                                                *)
Write(c, from, to, clk) ==
    /\ Running(c) /\ call[c].at = from
    /\ realtime' = clk
    /\ call' = [d \in Contexts |->
                    IF d = c THEN [call[d] EXCEPT !.at = to]
                             ELSE [call[d] EXCEPT !.clean = @ /\ call[d].id = "MONOTONIC"
                                                              /\ call[d].fn # "clock_settime"]]
    /\ UNCHANGED <<sysVars, monotonic, timer_update_flag, pendsv, offset>>

WriteSec(c) == Write(c, "set_sec", "set_nsec", [realtime EXCEPT !.sec = call[c].tp.sec])
WriteNsec(c) == Write(c, "set_nsec", "set_after", [realtime EXCEPT !.nsec = call[c].tp.nsec])

(* Mutant: the clock is written once, tick or no tick. *)
SetOnce(c) ==
    /\ Running(c) /\ call[c].at = "set_after"
    /\ call' = [call EXCEPT ![c] = Idle]
    /\ offset' = Value(realtime) - Value(monotonic)
    /\ UNCHANGED <<sysVars, clockVars, pendsv>>

SetFlagAfter(c) ==
    /\ Running(c) /\ call[c].at = "set_after"
    /\ \/ /\ ~FlagSame(c)
          /\ call' = [call EXCEPT ![c].at = "set_before"]
          /\ UNCHANGED offset
       \/ /\ FlagSame(c)
          /\ call' = [call EXCEPT ![c] = Idle]
          /\ offset' = Value(realtime) - Value(monotonic)
    /\ UNCHANGED <<sysVars, clockVars, pendsv>>

-----------------------------------------------------------------------------

Next ==
    \/ Count \/ sys_tick_handler \/ PendSV
    \/ \E c \in Contexts :
        \/ \E id \in Clocks : clock_gettime(c, id)
        \/ \E rqt \in Sleeps : clock_nanosleep(c, rqt)
        \/ \E t \in SetTimes : clock_settime(c, t)
        \/ FlagBefore(c) \/ CopySec(c) \/ CopyNsec(c) \/ systick_get_value(c)
        \/ FlagAfter(c)
        \/ SetFlagBefore(c) \/ WriteSec(c) \/ WriteNsec(c) \/ SetFlagAfter(c)
    \/ elapsed = MaxElapsed /\ UNCHANGED vars

Spec == Init /\ [][Next]_vars

-----------------------------------------------------------------------------
(* Properties. *)

(* A call of fn returns in this step. *)
Returns(c, fn) == call[c].fn = fn /\ call'[c].at = "none"

(* What clock_gettime() gives is a moment between its begin and its end,   *)
(* on the scale of the clock it was asked for.  In a signal handler, which *)
(* a pending SysTick does not preempt, it may be one tick behind, and      *)
(* nothing is claimed after a handler that ran for so long that a tick was *)
(* lost, or of a read into which a clock_settime() fell.                   *)
ReadsTime ==
    [][\A c \in Contexts :
        Returns(c, "clock_gettime") /\ call[c].clean /\ lost = 0 =>
            LET scale == IF call[c].id = "MONOTONIC" THEN 0 ELSE offset
                behind == IF c = "handler" THEN N ELSE 0
            IN  Value(Result(c)) - scale \in (call[c].began - behind)..elapsed]_vars

(* After clock_settime() the clock shows what was set, also if a tick fell *)
(* between its two words, unless a signal handler has set it meanwhile.    *)
SettimeTakes ==
    [][\A c \in Contexts :
        Returns(c, "clock_settime") /\ call[c].clean => realtime = call[c].tp]_vars

(* A sleep of the thread on CLOCK_MONOTONIC is never shorter than it was   *)
(* asked to be, in seconds and in parts of one.                            *)
NoShortSleep ==
    [][\A fn \in {"sleep_second", "sleep_loop"} :
        Returns("thread", fn) /\ lost = 0 =>
            elapsed - call["thread"].began >= Value(call["thread"].rqt)]_vars
=============================================================================
