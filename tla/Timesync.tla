------------------------------ MODULE Timesync ------------------------------
(***************************************************************************)
(* The synchronisation of CLOCK_REALTIME in src/src/timesync.c by means of *)
(* sntp.c, and the hook in clock_gettime() that calls it.                  *)
(*                                                                         *)
(* Every read of the real-time clock looks whether it is time to           *)
(* synchronise; a synchronisation reads the clock itself, when it sends    *)
(* the request (T1) and when the reply has come (T4).                      *)
(* clock_gettime_mutex is there to stop that recursion.  A signal handler  *)
(* may interrupt the thread at any step and do all of this too.  The       *)
(* reading of the clock is one step here; Clock has its parts.             *)
(*                                                                         *)
(* Messages may be lost, late or repeated: nothing in sntp_reply() tells   *)
(* the reply to this request from the late one to a request that timed     *)
(* out, and T1 comes from the reply.  The socket's port is all that keeps  *)
(* them apart, and get_avail_port() hands a port out again soon.           *)
(*                                                                         *)
(* Times are integers with UNITS in a second.  The conversion to the fixed *)
(* point of NTP keeps multiples of TO_NTP, the one back of FROM_NTP; the   *)
(* rounding of the constants they multiply by is left out.                 *)
(***************************************************************************)
EXTENDS Integers, Sequences, FiniteSets, FiniteSetsExt

CONSTANTS
    UNITS,                 \* in a second: NSECS_IN_SEC
    TO_NTP,                \* what timespec_to_ntp keeps: 2^16 ns
    FROM_NTP,              \* what ntp_to_timespec keeps: 2^-14 s
    NONE,                  \* no time
    Epoch,                 \* the server's time at the start; the clock's is 0
    INTERVAL,              \* TIMESYNC_INTERVAL
    W5100_N_SOCKETS,
    UserTimes,             \* what the application passes to clock_settime()
    MaxTime,               \* bound: how long the server's clock goes on
    MaxSteps               \* bound: exchanges, settings and handlers

ASSUME TimeAssumption ==
    /\ UNITS \in Nat \ {0} /\ TO_NTP \in Nat \ {0}
    /\ FROM_NTP \in Nat \ {0}
    /\ NONE \notin Int
    /\ Epoch \in Nat /\ INTERVAL \in Nat /\ MaxTime \in Nat /\ MaxSteps \in Nat
    /\ UserTimes \subseteq Nat /\ W5100_N_SOCKETS \in Nat

VARIABLES
    now,                   \* the server's clock
    realtime,              \* CLOCK_REALTIME
    next_sync,
    clock_gettime_mutex,
    stack,                 \* the calls under way, the running one last
    wire,                  \* requests, T2 = NONE, and replies in the network
    Sn_PORT,               \* the chip's register of each socket
    steps                  \* history: exchanges, settings, handlers so far

net == <<wire, Sn_PORT>>
vars == <<now, realtime, next_sync, clock_gettime_mutex, stack, net, steps>>

(* A call: its function, its next step, the time it works on, and the time *)
(* stamps of the reply it has.  History: the server's time when t was read *)
(* and when T1 was.                                                        *)
Frame(fn, at) ==
    [fn |-> fn, at |-> at, t |-> NONE, when |-> NONE, T1 |-> NONE, when1 |-> NONE,
     T2 |-> NONE]

Init ==
    /\ now = Epoch
    /\ realtime = 0
    /\ next_sync = 0
    /\ clock_gettime_mutex = FALSE
    /\ stack = << Frame("user", "user") >>
    /\ wire = {}
    /\ Sn_PORT = [i \in 1..W5100_N_SOCKETS |-> 0]
    /\ steps = 0

-----------------------------------------------------------------------------
(* Conversions, on the fraction of a second. *)

Fraction(t) == t % UNITS
Seconds(t) == t - Fraction(t)

(* lsrr: a shift to the right that rounds. *)
lsrr(f, grain) == (f + grain \div 2) \div grain

(* timespec_to_ntp, and the server's echo of it: the product is cut to 32  *)
(* bits, so that a fraction that rounds to a whole second loses it.        *)
timespec_to_ntp(t) == Seconds(t) + ((lsrr(Fraction(t), TO_NTP) * TO_NTP) % UNITS)

(* ntp_to_timespec: at the upper end lsrr does not round. *)
ntp_to_timespec(t) ==
    LET f == Fraction(t) IN
    Seconds(t) + FROM_NTP * (IF f + FROM_NTP \div 2 < UNITS THEN lsrr(f, FROM_NTP)
                                                              ELSE f \div FROM_NTP)

(* timespec_half rounds down, negative times too. *)
timespec_half(t) == t \div 2

(* Mutant: the sum of the offsets is not halved. *)
EstimateNotHalved(T1, T2, T3, T4) == T4 + (T2 - T1) + (T3 - T4)

(* The time that T4 should have been, from the offsets on both ways. *)
system_clock_estimate(T1, T2, T3, T4) ==
    T4 + timespec_half(T2 - T1) + timespec_half(T3 - T4)

(* T1 is in the last part of a second that rounds to the next one. *)
Wraps(t) == lsrr(Fraction(t), TO_NTP) * TO_NTP >= UNITS

-----------------------------------------------------------------------------
(* The stack. *)

Depth == Len(stack)
Top == stack[Depth]
At(fn, at) == Top.fn = fn /\ Top.at = at

(* The running call goes on as f. *)
GoOn(f) == stack' = [stack EXCEPT ![Depth] = f]

(* It calls g, and will go on as f. *)
Call(f, g) == stack' = Append([stack EXCEPT ![Depth] = f], g)

Below == SubSeq(stack, 1, Depth - 1)

(* It returns and leaves its caller the time t, read when the server had w. *)
ReturnTime(t, w) ==
    stack' = IF stack[Depth - 1].fn = "user" THEN Below
             ELSE [Below EXCEPT ![Depth - 1] = [@ EXCEPT !.t = t, !.when = w]]

(* It returns and leaves the time of its caller as it is. *)
ReturnError == stack' = Below

-----------------------------------------------------------------------------
(* The application, in the thread or in a signal handler. *)

UserCall(fn) ==
    /\ At("user", "user")
    /\ Call(Top, CASE fn = "clock_gettime" -> Frame("clock_gettime", "read")
                   [] fn = "timesync"      -> Frame("timesync", "read")
                   [] fn = "timesync_now"  -> Frame("sync", "socket"))
    /\ UNCHANGED <<now, realtime, next_sync, clock_gettime_mutex, net, steps>>

clock_settime(t) ==
    /\ At("user", "user") /\ steps < MaxSteps
    /\ realtime' = t
    /\ steps' = steps + 1
    /\ UNCHANGED <<now, next_sync, clock_gettime_mutex, stack, net>>

InHandler == \E i \in 2..Depth : stack[i].fn = "user"

HandlerBegins ==
    /\ ~InHandler /\ steps < MaxSteps
    /\ Call(Top, Frame("user", "user"))
    /\ steps' = steps + 1
    /\ UNCHANGED <<now, realtime, next_sync, clock_gettime_mutex, net>>

HandlerEnds ==
    /\ Depth > 1 /\ At("user", "user")
    /\ ReturnError
    /\ UNCHANGED <<now, realtime, next_sync, clock_gettime_mutex, net, steps>>

-----------------------------------------------------------------------------
(* clock_gettime(CLOCK_REALTIME) and timesync() *)

(* The clock is read; nobody synchronises while the mutex is taken. *)
clock_gettime ==
    /\ At("clock_gettime", "read")
    /\ \/ clock_gettime_mutex /\ ReturnTime(realtime, now)
       \/ /\ ~clock_gettime_mutex
          /\ GoOn([Top EXCEPT !.t = realtime, !.when = now, !.at = "lock"])
    /\ UNCHANGED <<now, realtime, next_sync, clock_gettime_mutex, net, steps>>

(* Mutant: the mutex is forgotten. *)
NoLock ==
    /\ At("clock_gettime", "lock")
    /\ GoOn([Top EXCEPT !.at = "check"])
    /\ UNCHANGED <<now, realtime, next_sync, clock_gettime_mutex, net, steps>>

Lock ==
    /\ At("clock_gettime", "lock")
    /\ clock_gettime_mutex' = TRUE
    /\ GoOn([Top EXCEPT !.at = "check"])
    /\ UNCHANGED <<now, realtime, next_sync, net, steps>>

time_to_sync(t) == t >= next_sync

(* timesync_timespec *)
timesync_timespec ==
    /\ Top.at = "check"
    /\ LET rest == [Top EXCEPT !.at = "done"] IN
        \/ time_to_sync(Top.t) /\ Call(rest, Frame("sync", "socket"))
        \/ ~time_to_sync(Top.t) /\ GoOn(rest)
    /\ UNCHANGED <<now, realtime, next_sync, clock_gettime_mutex, net, steps>>

Unlock ==
    /\ At("clock_gettime", "done")
    /\ clock_gettime_mutex' = FALSE
    /\ ReturnTime(Top.t, Top.when)
    /\ UNCHANGED <<now, realtime, next_sync, net, steps>>

(* timesync() reads the clock, and looks for itself whether it is time. *)
timesync ==
    /\ Top.fn = "timesync"
    /\ \/ Top.at = "read" /\ Call([Top EXCEPT !.at = "check"], Frame("clock_gettime", "read"))
       \/ Top.at = "done" /\ ReturnError
    /\ UNCHANGED <<now, realtime, next_sync, clock_gettime_mutex, net, steps>>

-----------------------------------------------------------------------------
(* timesync_now_timespec() with sntp_gettime() *)

(* Sockets that are open. *)
Sockets == Cardinality({i \in 1..Depth : stack[i].fn = "sync" /\ stack[i].at # "socket"})

(* sntp_socket; then sntp_request reads the clock. *)
sntp_socket ==
    /\ At("sync", "socket")
    /\ \/ /\ steps < MaxSteps /\ Sockets < W5100_N_SOCKETS
          /\ steps' = steps + 1
          /\ Call([Top EXCEPT !.at = "send"], Frame("clock_gettime", "read"))
       \/ ReturnError /\ UNCHANGED steps
    /\ UNCHANGED <<now, realtime, next_sync, clock_gettime_mutex, net>>

(* The first port, from 0x7FF0 down, that no open socket has in its        *)
(* register.  The socket that asks is one of them: if it has the port of   *)
(* the exchange before, that one is not taken again until the next.        *)
get_avail_port == Min((1..(Sockets + 1)) \ {Sn_PORT[i] : i \in 1..Sockets})

(* sendto binds the socket, the last one opened; a request that is not     *)
(* sent ends the exchange.                                                 *)
sntp_request ==
    /\ At("sync", "send")
    /\ Sn_PORT' = [Sn_PORT EXCEPT ![Sockets] = get_avail_port]
    /\ \/ /\ GoOn([Top EXCEPT !.at = "recv", !.t = NONE, !.when = NONE])
          /\ wire' = wire \cup {[T1 |-> Top.t, when1 |-> Top.when, T2 |-> NONE,
                                  port |-> get_avail_port]}
       \/ ReturnError /\ UNCHANGED wire
    /\ UNCHANGED <<now, realtime, next_sync, clock_gettime_mutex, steps>>

(* The server answers a request, or never does; its T2 and T3 are the      *)
(* same.  The exchange may have ended by then.                             *)
ServerAnswers ==
    /\ \E m \in wire :
        /\ m.T2 = NONE
        /\ wire' = (wire \ {m}) \cup {[T1 |-> m.T1, when1 |-> m.when1, T2 |-> now,
                                         port |-> m.port]}
    /\ UNCHANGED <<now, realtime, next_sync, clock_gettime_mutex, stack, Sn_PORT, steps>>

(* recv: a reply to this port, whatever request it is for, or a bad one,   *)
(* or none in time.  A reply makes sntp_reply read the clock again.  It    *)
(* stays in the network, which may repeat it.                              *)
sntp_reply ==
    /\ At("sync", "recv")
    /\ \/ \E m \in wire :
            /\ m.T2 # NONE /\ m.port = Sn_PORT[Sockets]
            /\ Call([Top EXCEPT !.at = "set", !.T1 = m.T1, !.when1 = m.when1, !.T2 = m.T2],
                    Frame("clock_gettime", "read"))
       \/ ReturnError
    /\ UNCHANGED <<now, realtime, next_sync, clock_gettime_mutex, net, steps>>

Estimate ==
    system_clock_estimate(ntp_to_timespec(timespec_to_ntp(Top.T1)), ntp_to_timespec(Top.T2),
                          ntp_to_timespec(Top.T2), Top.t)

(* close, and clock_settime with the estimate, which is the caller's time. *)
SyncEnds ==
    /\ At("sync", "set")
    /\ realtime' = Estimate
    /\ next_sync' = Estimate + INTERVAL
    /\ ReturnTime(Estimate, now)
    /\ UNCHANGED <<now, clock_gettime_mutex, net, steps>>

(* Both clocks go on. *)
Tick ==
    /\ now < Epoch + MaxTime
    /\ now' = now + 1
    /\ realtime' = realtime + 1
    /\ UNCHANGED <<next_sync, clock_gettime_mutex, stack, net, steps>>

-----------------------------------------------------------------------------

Run ==
    \/ clock_gettime \/ Lock \/ timesync_timespec \/ Unlock \/ timesync
    \/ sntp_socket \/ sntp_request \/ sntp_reply \/ SyncEnds

Next ==
    \/ \E fn \in {"clock_gettime", "timesync", "timesync_now"} : UserCall(fn)
    \/ \E t \in UserTimes : clock_settime(t)
    \/ HandlerBegins \/ HandlerEnds
    \/ Run \/ ServerAnswers \/ Tick

Spec == Init /\ [][Next]_vars

-----------------------------------------------------------------------------
(* Properties. *)

Distance(a, b) == IF a < b THEN b - a ELSE a - b

(* What the conversions lose: of T2 up to FROM_NTP, and half of what they  *)
(* lose of T1.                                                             *)
Loss == (5 * FROM_NTP + TO_NTP) \div 4

(* T1 and T4 of the running exchange were read on one scale: between them *)
(* nobody set the clock, or set it back to what it was.                    *)
OneScale == Top.T1 - Top.when1 = Top.t - Top.when

(* A synchronisation sets the clock to the server's time, wrong by no more *)
(* than the time since the request was made that it has the reply to and   *)
(* what the conversions lose.  After a late reply that is longer than the  *)
(* exchange: all that the code guarantees, as it does not look whose reply *)
(* it is.  Two cases are not claimed: the clock was set between T1 and T4, *)
(* by a signal handler or another synchronisation, and a T1 whose second   *)
(* timespec_to_ntp() loses (see StampIsT1).                                *)
SyncedToServer ==
    [][At("sync", "set") /\ Len(stack') < Depth /\ OneScale /\ ~Wraps(Top.T1)
            => Distance(realtime', now) <= now - Top.when1 + Loss]_vars

(* What sntp.c:122-128 says of timespec_to_ntp(): nanoseconds from 0 to    *)
(* 1e9 - 1 convert to a fraction from 0 to 2^32 - 1.  Then the time stamp  *)
(* of a request is the time that was read but for the rounding.            *)
StampIsT1 == \A m \in wire : Distance(timespec_to_ntp(m.T1), m.T1) <= TO_NTP

(* However the calls nest, clock_gettime_mutex stops the recursion: at     *)
(* most two synchronisations, with a socket each, are under way in one     *)
(* context, and at most three with a signal handler.                       *)
RecursionStops == Sockets <= IF InHandler THEN 3 ELSE 2
=============================================================================
