------------------------------- MODULE Timers -------------------------------
(***************************************************************************)
(* POSIX timers: src/src/timers.c, on the clocks of                        *)
(* clock_gettime_systick.c.                                                *)
(*                                                                         *)
(* Timers expire in sys_timers_manage(), which only timer_settime() calls: *)
(* the functions that should program a hardware timer are empty.  Its loop *)
(* calls SIGEV_THREAD functions of the application, which may call         *)
(* timer_settime() again, and a signal handler, which may call it too,     *)
(* preempts it between any two of its phases.  Both nest like calls, so    *)
(* the program is a stack of frames of which the top one runs.  A clock    *)
(* counts SysTicks; the clock reads of one scan of the table coincide.     *)
(***************************************************************************)
EXTENDS Integers, Sequences, FiniteSets

CONSTANTS
    TIMER_MAX,             \* length of sys_timers[]
    Clocks,                \* the clocks the application uses
    Times,                 \* the it_value and it_interval it asks for
    Notify,                \* the sigev_notify it asks for
    MaxTime,               \* bound: where the clocks end
    MaxDepth,              \* bound: frames on the stack
    MaxReentries           \* bound: of the count reentered

ASSUME TimerAssumption == TIMER_MAX \in Nat
ASSUME ClockAssumption ==
    /\ Clocks \subseteq {"CLOCK_MONOTONIC", "CLOCK_REALTIME"}
    /\ Clocks # {}
ASSUME TimeAssumption ==
    /\ MaxTime \in Nat \ {0}
    /\ Times \subseteq Nat
    /\ Notify \subseteq {"SIGEV_NONE", "SIGEV_SIGNAL", "SIGEV_THREAD"}
    /\ Notify # {}
    /\ MaxDepth \in Nat \ {0}
    /\ MaxReentries \in Nat

VARIABLES
    timers,                \* sys_timers[]
    now,                   \* the clocks
    stack,                 \* what runs: the thread at the bottom
    owed,                  \* history: timers due when a timer_settime() began
                           \* and neither expired, set nor deleted since
    shots,                 \* history: expiries of a one-shot timer since it
                           \* was set
    reentered              \* history: calls of timer_settime() for another
                           \* timer while this one, armed, was being expired;
                           \* and the calls that had chosen it to be expired
                           \* when it was set

vars == <<timers, now, stack, owed, shots, reentered>>
history == <<owed, shots, reentered>>

Tds == 0..(TIMER_MAX - 1)
NONE == -1

(* A clock never shows 0, so that an absolute time 0 is "disarmed". *)
Now == 1..MaxTime

Timer == [allocated : BOOLEAN, clockid : Clocks, notify : Notify,
          it_value : Nat, it_interval : Times \cup {0}]

(* A frame: who runs, where it is in timer_settime(), and td_expiring. *)
Frame == [who : {"thread", "callback", "handler"},
          pc : {"user", "scan", "check", "expire", "rearm"},
          td : Tds \cup {NONE}]

TypeOK ==
    /\ timers \in [Tds -> Timer]
    /\ now \in [Clocks -> Now]
    /\ stack \in Seq(Frame)
    /\ Len(stack) \in 1..MaxDepth
    /\ owed \subseteq Tds
    /\ shots \in [Tds -> Nat]
    /\ reentered \in [Tds -> Nat]

Init ==
    /\ timers = [td \in Tds |->
                    [allocated |-> FALSE, clockid |-> CHOOSE c \in Clocks : TRUE,
                     notify |-> CHOOSE n \in Notify : TRUE,
                     it_value |-> 0, it_interval |-> 0]]
    /\ now = [c \in Clocks |-> 1]
    /\ stack = <<[who |-> "thread", pc |-> "user", td |-> NONE]>>
    /\ owed = {}
    /\ shots = [td \in Tds |-> 0]
    /\ reentered = [td \in Tds |-> 0]

Top == stack[Len(stack)]
GoTo(pc, td) == stack' = [stack EXCEPT ![Len(stack)].pc = pc, ![Len(stack)].td = td]
Push(who) == Append(stack, [who |-> who, pc |-> "user", td |-> NONE])

isarmed(td) == timers[td].allocated /\ timers[td].it_value # 0
Armed == {td \in Tds : isarmed(td)}

time_to_expiration(td) == timers[td].it_value - now[timers[td].clockid]
Due(td) == time_to_expiration(td) <= 0

OneShot(td) == timers[td].it_interval = 0

(* The frames that are at one of the given places with this timer, and     *)
(* those of them that have still to expire it.                             *)
FramesAt(pcs, td) == {k \in 1..Len(stack) : stack[k].pc \in pcs /\ stack[k].td = td}
Pending(td) == FramesAt({"check", "expire"}, td)

(* The one-shot timers that are armed although a frame is expiring them. *)
Reentrant == {td \in Armed : OneShot(td) /\ FramesAt({"check", "expire", "rearm"}, td) # {}}

-----------------------------------------------------------------------------
(* The calls. *)

Free == {td \in Tds : ~timers[td].allocated}

(* sys_timer_alloc: the lowest free timer. *)
sys_timer_alloc(td) == td \in Free /\ \A u \in Free : td <= u

(* timer_create(); not from a signal handler, for it is not                *)
(* async-signal-safe.                                                      *)
Create(clockid, notify) ==
    /\ Top.pc = "user" /\ Top.who # "handler"
    /\ \E td \in Tds :
        /\ sys_timer_alloc(td)
        /\ timers' = [timers EXCEPT ![td] =
                        [allocated |-> TRUE, clockid |-> clockid, notify |-> notify,
                         it_value |-> 0, it_interval |-> 0]]
        /\ shots' = [shots EXCEPT ![td] = 0]
        /\ reentered' = [reentered EXCEPT ![td] = Cardinality(Pending(td))]
    /\ UNCHANGED <<now, stack, owed>>

(* timer_delete(), likewise. *)
Delete(td) ==
    /\ Top.pc = "user" /\ Top.who # "handler"
    /\ timers[td].allocated
    /\ timers' = [timers EXCEPT ![td].allocated = FALSE]
    /\ owed' = owed \ {td}
    /\ UNCHANGED <<now, stack, shots, reentered>>

(* timer_settime(): the new expiry, and on to sys_timers_manage(). *)
Settime(td, value, interval) ==
    /\ Top.pc = "user"
    /\ timers[td].allocated
    /\ timers' = [timers EXCEPT ![td].it_value = value, ![td].it_interval = interval]
    /\ owed' = {u \in Armed \ {td} : Due(u)}
                \cup {u \in {td} : value \in 1..now[timers[u].clockid]}
    /\ \A u \in Reentrant \ {td} : reentered[u] < MaxReentries
    /\ shots' = [shots EXCEPT ![td] = 0]
    /\ reentered' = [u \in Tds |-> IF u = td THEN Cardinality(Pending(td))
                                  ELSE IF u \in Reentrant THEN reentered[u] + 1
                                  ELSE reentered[u]]
    /\ GoTo("scan", NONE)
    /\ UNCHANGED now

(* A relative time counts from now, 0 disarms. *)
SettimeRelative(td, t, interval) ==
    Settime(td, IF t = 0 THEN 0 ELSE now[timers[td].clockid] + t, interval)

SettimeAbsolute(td, t, interval) == t \in Now /\ Settime(td, t, interval)

-----------------------------------------------------------------------------
(* sys_timers_manage. *)

(* Mutant: the comparison of the times to expiration is the wrong way      *)
(* round.                                                                  *)
ExpiresLast(td) ==
    /\ td \in Armed
    /\ \A u \in Armed : time_to_expiration(u) <= time_to_expiration(td)

(* sys_timer_next_expiring: the armed timer with the least time left, the  *)
(* first of them in the table.                                             *)
next_expiring(td) ==
    /\ td \in Armed
    /\ \A u \in Armed : \/ time_to_expiration(td) < time_to_expiration(u)
                        \/ time_to_expiration(td) = time_to_expiration(u) /\ td <= u

Scan ==
    /\ Top.pc = "scan"
    /\ \E td \in Tds : next_expiring(td) /\ GoTo("check", td)
    /\ UNCHANGED <<timers, now, history>>

(* Nothing is armed: timer_settime() returns. *)
ScanFindsNone ==
    /\ Top.pc = "scan" /\ Armed = {}
    /\ GoTo("user", NONE)
    /\ UNCHANGED <<timers, now, history>>

(* The chosen timer is due, or timer_settime() returns.  A timer disarmed  *)
(* since the scan has the expiry 0, which is due.                          *)
Check ==
    /\ Top.pc = "check"
    /\ IF Due(Top.td) THEN GoTo("expire", Top.td) ELSE GoTo("user", NONE)
    /\ UNCHANGED <<timers, now, history>>

Expires ==
    /\ owed' = owed \ {Top.td}
    /\ shots' = [shots EXCEPT ![Top.td] = IF OneShot(Top.td) THEN @ + 1 ELSE @]

(* timer_expired: nothing to tell, a signal that sigqueue_info accepts or  *)
(* drops, or a function that makes no call of interest here ...            *)
Expire ==
    /\ Top.pc = "expire"
    /\ Expires
    /\ GoTo("rearm", Top.td)
    /\ UNCHANGED <<timers, now, reentered>>

(* ... or one that does. *)
ExpireCalls ==
    /\ Top.pc = "expire" /\ timers[Top.td].notify = "SIGEV_THREAD"
    /\ Len(stack) < MaxDepth
    /\ Expires
    /\ stack' = [Push("callback") EXCEPT ![Len(stack)].pc = "rearm"]
    /\ UNCHANGED <<timers, now, reentered>>

(* Mutant: the timer is armed again whatever its interval. *)
RearmAlways ==
    /\ Top.pc = "rearm"
    /\ LET t == timers[Top.td] IN
        timers' = [timers EXCEPT ![Top.td].it_value = now[t.clockid] + t.it_interval]
    /\ GoTo("scan", NONE)
    /\ UNCHANGED <<now, history>>

(* Mutant: the next expiry is counted from the time left, not from now. *)
RearmFromTimeLeft ==
    /\ Top.pc = "rearm"
    /\ LET t == timers[Top.td] IN
        timers' = [timers EXCEPT ![Top.td].it_value =
                    IF t.it_interval > 0 THEN time_to_expiration(Top.td) + t.it_interval ELSE 0]
    /\ GoTo("scan", NONE)
    /\ UNCHANGED <<now, history>>

(* The end of timer_expired: armed again one interval from now, or         *)
(* disarmed; and the loop goes round.                                      *)
Rearm ==
    /\ Top.pc = "rearm"
    /\ LET t == timers[Top.td] IN
        timers' = [timers EXCEPT ![Top.td].it_value =
                    IF t.it_interval > 0 THEN now[t.clockid] + t.it_interval ELSE 0]
    /\ GoTo("scan", NONE)
    /\ UNCHANGED <<now, history>>

(* The function or the handler returns. *)
FrameReturns ==
    /\ Top.pc = "user" /\ Top.who # "thread"
    /\ stack' = SubSeq(stack, 1, Len(stack) - 1)
    /\ UNCHANGED <<timers, now, history>>

-----------------------------------------------------------------------------
(* Interrupts. *)

(* PendSV runs a signal handler of the application; PendSV does not nest. *)
HandlerRuns ==
    /\ \A k \in 1..Len(stack) : stack[k].who # "handler"
    /\ Len(stack) < MaxDepth
    /\ stack' = Push("handler")
    /\ UNCHANGED <<timers, now, history>>

(* sys_tick_handler advances both clocks. *)
sys_tick_handler ==
    /\ \A c \in Clocks : now[c] < MaxTime
    /\ now' = [c \in Clocks |-> now[c] + 1]
    /\ UNCHANGED <<timers, stack, history>>

(* clock_settime() steps CLOCK_REALTIME: from the application, or from     *)
(* timesync inside a clock_gettime().  All that was owed is forgiven: a    *)
(* step back between scan and check lets timer_settime() return early.     *)
clock_settime(t) ==
    /\ "CLOCK_REALTIME" \in Clocks
    /\ now' = [now EXCEPT !["CLOCK_REALTIME"] = t]
    /\ owed' = {}
    /\ UNCHANGED <<timers, stack, shots, reentered>>

-----------------------------------------------------------------------------

Next ==
    \/ \E c \in Clocks, n \in Notify : Create(c, n)
    \/ \E td \in Tds : Delete(td)
    \/ \E td \in Tds, t \in Times, i \in Times :
        SettimeRelative(td, t, i) \/ SettimeAbsolute(td, t, i)
    \/ Scan
    \/ ScanFindsNone
    \/ Check
    \/ Expire
    \/ ExpireCalls
    \/ Rearm
    \/ FrameReturns
    \/ HandlerRuns
    \/ sys_tick_handler
    \/ \E t \in Now : clock_settime(t)

Spec == Init /\ [][Next]_vars

-----------------------------------------------------------------------------
(* Properties. *)

InUser == Len(stack) = 1 /\ Top.pc = "user"

(* When timer_settime() returns to the thread, every timer that was due    *)
(* when it was called has expired, whichever calls its functions made and  *)
(* whichever handlers preempted it, unless CLOCK_REALTIME was stepped.     *)
NoneLeftDue == InUser => owed = {}

(* A timer without an interval expires once for each time it is set, and   *)
(* at most once more for every timer_settime() that its function, or a     *)
(* handler, calls for another timer in the middle of its expiry, while it  *)
(* is still armed: only the first loop to finish an expiry finds it armed. *)
(* A loop that had chosen it when it was set still expires it, once.       *)
OneShotOnce ==
    \A td \in Tds : OneShot(td) => shots[td] <= 1 + reentered[td]
=============================================================================
