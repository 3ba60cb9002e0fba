--------------------------- MODULE TimesyncProofs ---------------------------
(***************************************************************************)
(* Theorems about Timesync.tla, for every unit of time, grain of the       *)
(* conversions, interval and bound: however calls and a signal handler     *)
(* nest, the recursion stops, and a synchronisation sets the clock to the  *)
(* server's time but for the time since its answered request was made and  *)
(* what the conversions lose.                                              *)
(***************************************************************************)
EXTENDS Timesync, FiniteSetTheorems, TLAPS

-----------------------------------------------------------------------------
(* The invariant. *)

Calls ==
    [fn : {"user", "clock_gettime", "timesync", "sync"},
     at : {"user", "read", "lock", "check", "done", "socket", "send", "recv", "set"},
     t : Int \cup {NONE}, when : Int \cup {NONE}, T1 : Int \cup {NONE},
     when1 : Int \cup {NONE}, T2 : Int \cup {NONE}]

Types ==
    /\ now \in Int /\ realtime \in Int /\ clock_gettime_mutex \in BOOLEAN
    /\ stack \in Seq(Calls) /\ Depth >= 1

(* The steps of a function, and the times it has by then. *)
Formed(f) ==
    /\ f.fn = "user" => f.at = "user"
    /\ f.fn = "clock_gettime" =>
        /\ f.at \in {"read", "lock", "check", "done"}
        /\ f.at = "read" <=> f.t = NONE
        /\ f.t = NONE <=> f.when = NONE
    /\ f.fn = "timesync" => f.at \in {"read", "check", "done"}
    /\ f.fn = "sync" =>
        /\ f.at \in {"socket", "send", "recv", "set"}
        /\ f.at \in {"socket", "recv"} => f.t = NONE
        /\ f.t = NONE <=> f.when = NONE
        /\ f.at = "set" => f.T1 \in Int /\ f.when1 \in Int /\ f.T2 \in Int

(* Exchange f has called clock_gettime(). *)
Waits(f) == f.fn = "sync" /\ f.at \in {"send", "set"} /\ f.t = NONE

(* Call g may be made by f; a signal handler may come anywhere but there. *)
Over(f, g) ==
    /\ g.fn = "clock_gettime" =>
        f.fn = "user" \/ (f.fn = "timesync" /\ f.at = "check") \/ Waits(f)
    /\ g.fn = "timesync" => f.fn = "user"
    /\ g.fn = "sync" =>
        f.fn = "user" \/ (f.fn \in {"timesync", "clock_gettime"} /\ f.at = "done")
    /\ Waits(f) => g.fn = "clock_gettime"

Shape ==
    /\ stack[1].fn = "user"
    /\ \A k \in 1..Depth : Formed(stack[k])
    /\ \A k \in 1..(Depth - 1) : Over(stack[k], stack[k + 1])
    /\ ~Waits(stack[Depth])
    /\ \A i, j \in 2..Depth : stack[i].fn = "user" /\ stack[j].fn = "user" => i = j

(* Call f has taken clock_gettime_mutex.  No call that found it free has a *)
(* call below it that holds it, so when it takes the mutex nobody does.    *)
Holds(f) == f.fn = "clock_gettime" /\ f.at \in {"check", "done"}
Exclusive ==
    /\ \A k \in 1..Depth : Holds(stack[k]) => clock_gettime_mutex
    /\ \A j \in 1..Depth : \A i \in 1..(j - 1) :
        stack[j].fn = "clock_gettime" /\ stack[j].at # "read" => ~Holds(stack[i])

(* When exchange k, or the clock_gettime() it has called, has read the     *)
(* clock.                                                                  *)
Got(k) ==
    IF k < Depth /\ stack[k + 1].fn = "clock_gettime" THEN stack[k + 1].when
    ELSE stack[k].when

(* Exchange f has read the clock at w.  The reply it works with was sent   *)
(* after the T1 in it was read, and T4 is read after T1.                   *)
Sound(f, w) ==
    /\ f.fn = "sync" /\ f.at = "send" /\ w # NONE => w <= now
    /\ f.fn = "sync" /\ f.at = "set" =>
        /\ f.when1 <= f.T2 /\ f.T2 <= now
        /\ w # NONE => f.when1 <= w /\ w <= now

Exchanges == \A k \in 1..Depth : Sound(stack[k], Got(k))

(* So are the messages in the network, whatever exchange they are for. *)
Messages ==
    \A m \in wire :
        /\ m.T1 \in Int /\ m.when1 \in Int /\ m.when1 <= now
        /\ m.T2 # NONE => m.T2 \in Int /\ m.when1 <= m.T2 /\ m.T2 <= now

SyncInv == Types /\ Shape /\ Exclusive /\ Exchanges /\ Messages

-----------------------------------------------------------------------------
(* Conversions. *)

LEMMA Quotient ==
    ASSUME NEW a \in Int, NEW g \in Nat \ {0}
    PROVE  /\ a \div g \in Int
           /\ (a \div g) * g <= a /\ a < (a \div g) * g + g
  OBVIOUS

LEMMA Remainder ==
    ASSUME NEW a \in Int, NEW g \in Nat \ {0}
    PROVE  a % g \in 0..(g - 1)
  OBVIOUS

(* lsrr rounds to the nearest multiple. *)
LEMMA Rounds ==
    ASSUME NEW f \in Int, NEW g \in Nat \ {0}
    PROVE  LET r == lsrr(f, g) * g
           IN  r \in Int /\ 2 * (r - f) <= g /\ 2 * (f - r) <= g
<1> DEFINE h == g \div 2
           n == (f + h) \div g
           r == n * g
<1>1. h \in Int /\ 2 * h <= g /\ g <= 2 * h + 1  OBVIOUS
<1> HIDE DEF h
<1>2. f + h \in Int  BY <1>1
<1>3. n \in Int /\ n * g <= f + h /\ f + h < n * g + g  BY <1>2, Quotient
<1>4. n * g \in Int  BY <1>3
<1>5. r \in Int /\ r <= f + h /\ f + h < r + g  BY <1>3, <1>4
<1> HIDE DEF n, r
<1>6. 2 * (r - f) <= g /\ 2 * (f - r) <= g  BY <1>1, <1>5
<1>7. r = lsrr(f, g) * g  BY DEF r, n, h, lsrr
<1> QED  BY <1>5, <1>6, <1>7

LEMMA SplitTime ==
    ASSUME NEW t \in Int
    PROVE  Fraction(t) \in 0..(UNITS - 1) /\ Seconds(t) \in Int /\ Seconds(t) + Fraction(t) = t
<1>1. Fraction(t) \in 0..(UNITS - 1)  BY Remainder, TimeAssumption DEF Fraction
<1> QED  BY <1>1 DEF Seconds

(* What the conversions may be wrong by. *)
LEMMA FromNtp ==
    ASSUME NEW t \in Int
    PROVE  /\ ntp_to_timespec(t) \in Int
           /\ 2 * (ntp_to_timespec(t) - t) <= FROM_NTP
           /\ t - ntp_to_timespec(t) <= FROM_NTP - 1
<1> DEFINE f == Fraction(t)
           s == Seconds(t)
<1>1. f \in Int /\ s \in Int /\ s + f = t  BY SplitTime
<1>2. FROM_NTP \in Nat \ {0}  BY TimeAssumption
<1>3. CASE f + FROM_NTP \div 2 < UNITS
  <2> DEFINE r == lsrr(f, FROM_NTP) * FROM_NTP
  <2>1. r \in Int /\ 2 * (r - f) <= FROM_NTP /\ 2 * (f - r) <= FROM_NTP
    BY <1>1, <1>2, Rounds
  <2>2. lsrr(f, FROM_NTP) \in Int
    <3>1. FROM_NTP \div 2 \in Int  BY <1>2
    <3>2. f + FROM_NTP \div 2 \in Int  BY <1>1, <3>1
    <3> QED  BY <1>2, <3>2, Quotient DEF lsrr
  <2>3. ntp_to_timespec(t) = s + FROM_NTP * lsrr(f, FROM_NTP)
    BY <1>3 DEF ntp_to_timespec
  <2>4. FROM_NTP * lsrr(f, FROM_NTP) = r  BY <1>2, <2>2
  <2> HIDE DEF r, f, s
  <2> QED  BY <1>1, <1>2, <2>1, <2>3, <2>4
<1>4. CASE ~(f + FROM_NTP \div 2 < UNITS)
  <2> DEFINE q == f \div FROM_NTP
             r == q * FROM_NTP
  <2>1. q \in Int /\ q * FROM_NTP <= f /\ f < q * FROM_NTP + FROM_NTP
    BY <1>1, <1>2, Quotient
  <2>2. ntp_to_timespec(t) = s + FROM_NTP * q  BY <1>4 DEF ntp_to_timespec
  <2> HIDE DEF q, f, s
  <2>3. FROM_NTP * q = r /\ r \in Int  BY <1>2, <2>1
  <2>4. r <= f /\ f < r + FROM_NTP  BY <2>1
  <2> HIDE DEF r
  <2> QED  BY <1>1, <1>2, <2>2, <2>3, <2>4
<1> QED  BY <1>3, <1>4

LEMMA ToNtp ==
    ASSUME NEW t \in Int, ~Wraps(t)
    PROVE  /\ timespec_to_ntp(t) \in Int
           /\ 2 * (timespec_to_ntp(t) - t) <= TO_NTP
           /\ 2 * (t - timespec_to_ntp(t)) <= TO_NTP
<1> DEFINE f == Fraction(t)
           s == Seconds(t)
           r == lsrr(f, TO_NTP) * TO_NTP
<1>1. f \in 0..(UNITS - 1) /\ s \in Int /\ s + f = t  BY SplitTime
<1>2. TO_NTP \in Nat \ {0} /\ UNITS \in Nat \ {0}  BY TimeAssumption
<1>3. f \in Int  BY <1>1, <1>2
<1>4. r \in Int /\ 2 * (r - f) <= TO_NTP /\ 2 * (f - r) <= TO_NTP  BY <1>2, <1>3, Rounds
<1>5. r >= 0
  <2> DEFINE h == TO_NTP \div 2
             n == (f + h) \div TO_NTP
  <2>1. h \in Nat  BY <1>2
  <2>2. f + h \in Nat /\ f + h \in Int  BY <1>1, <1>2, <2>1
  <2>3. n \in Nat
    <3> HIDE DEF f, h
    <3>1. n \in Int /\ f + h < n * TO_NTP + TO_NTP  BY <1>2, <2>2, Quotient
    <3>2. ASSUME n < 0 PROVE FALSE
      <4>1. n + 1 <= 0 /\ n + 1 \in Int  BY <3>1, <3>2
      <4>2. (n + 1) * TO_NTP <= 0  BY <1>2, <4>1
      <4>3. (n + 1) * TO_NTP = n * TO_NTP + TO_NTP  BY <1>2, <3>1
      <4> DEFINE z == n * TO_NTP + TO_NTP
      <4>4. z \in Int  BY <1>2, <3>1
      <4>5. z <= 0 /\ f + h < z  BY <3>1, <4>2, <4>3
      <4> HIDE DEF z
      <4>6. f + h >= 0 /\ f + h \in Int  BY <2>2
      <4> DEFINE y == f + h
      <4>7. y >= 0 /\ y \in Int /\ y < z  BY <4>5, <4>6
      <4> HIDE DEF y
      <4> QED  BY <4>4, <4>5, <4>7
    <3> QED  BY <3>1, <3>2
  <2>4. n * TO_NTP >= 0  BY <1>2, <2>3
  <2> QED  BY <2>4 DEF lsrr
<1>6. r < UNITS  BY <1>2, <1>4 DEF Wraps
<1>7. timespec_to_ntp(t) = s + (r % UNITS)  BY DEF timespec_to_ntp
<1> HIDE DEF f, s, r
<1>8. r % UNITS = r  BY <1>2, <1>4, <1>5, <1>6
<1> QED  BY <1>1, <1>2, <1>3, <1>4, <1>7, <1>8

(* The estimate is the server's time, but for the length of the exchange   *)
(* and what the conversions lose.                                          *)
LEMMA EstimateNear ==
    ASSUME NEW T1 \in Int, NEW T2 \in Int, NEW T4 \in Int,
           NEW s \in Int, NEW n \in Int, ~Wraps(T1),
           s <= T2, T2 <= n, T1 <= T4, T4 - T1 <= n - s
    PROVE  LET e == system_clock_estimate(ntp_to_timespec(timespec_to_ntp(T1)),
                                          ntp_to_timespec(T2), ntp_to_timespec(T2), T4)
           IN  e \in Int /\ Distance(e, n) <= n - s + Loss
<1> DEFINE p == timespec_to_ntp(T1)
           a == ntp_to_timespec(p)
           b == ntp_to_timespec(T2)
           x == (b - a) \div 2
           y == (b - T4) \div 2
           e == system_clock_estimate(a, b, b, T4)
<1>1. p \in Int /\ 2 * (p - T1) <= TO_NTP /\ 2 * (T1 - p) <= TO_NTP  BY ToNtp
<1> HIDE DEF p
<1>2. a \in Int /\ 2 * (a - p) <= FROM_NTP /\ p - a <= FROM_NTP - 1  BY <1>1, FromNtp
<1>3. b \in Int /\ 2 * (b - T2) <= FROM_NTP /\ T2 - b <= FROM_NTP - 1  BY FromNtp
<1>4. TO_NTP \in Nat /\ FROM_NTP \in Nat /\ FROM_NTP >= 1  BY TimeAssumption
<1>5. e = T4 + x + y  BY DEF system_clock_estimate, timespec_half
<1> HIDE DEF a, b, e
<1>6. x \in Int /\ 2 * x <= b - a /\ b - a <= 2 * x + 1  BY <1>2, <1>3
<1>7. y \in Int /\ 2 * y <= b - T4 /\ b - T4 <= 2 * y + 1  BY <1>3
<1>8. Loss \in Int /\ 4 * Loss >= 5 * FROM_NTP + TO_NTP - 3
  BY <1>4 DEF Loss
<1> HIDE DEF x, y
<1>9. e \in Int  BY <1>5, <1>6, <1>7
<1>10. e - n <= n - s + Loss
  BY <1>1, <1>2, <1>3, <1>4, <1>5, <1>6, <1>7, <1>8
<1>11. n - e <= n - s + Loss
  BY <1>1, <1>2, <1>3, <1>4, <1>5, <1>6, <1>7, <1>8
<1>12. Distance(e, n) <= n - s + Loss  BY <1>9, <1>10, <1>11 DEF Distance
<1> QED  BY <1>9, <1>12 DEF e, a, b, p

-----------------------------------------------------------------------------
(* What the operators on the stack do. *)

(* The first n - 1 calls stay, and call n goes on as f. *)
Shortened(s, n, f) ==
    /\ s \in Seq(Calls) /\ Len(s) = n /\ s[n] = f
    /\ \A k \in 1..(n - 1) : s[k] = stack[k]

LEMMA Frames ==
    ASSUME Types
    PROVE  /\ Depth \in Nat /\ Depth >= 1 /\ Top = stack[Depth] /\ Top \in Calls
           /\ Len(stack) = Depth /\ \A k \in 1..Depth : stack[k] \in Calls
  BY DEF Types, Depth, Top

LEMMA GoOnStack ==
    ASSUME Types, NEW f \in Calls, GoOn(f)
    PROVE  Shortened(stack', Depth, f)
  BY Frames DEF Types, GoOn, Depth, Shortened

LEMMA CallStack ==
    ASSUME Types, NEW f \in Calls, NEW g \in Calls, Call(f, g)
    PROVE  /\ stack' \in Seq(Calls) /\ Len(stack') = Depth + 1
           /\ stack'[Depth] = f /\ stack'[Depth + 1] = g
           /\ \A k \in 1..(Depth - 1) : stack'[k] = stack[k]
  BY Frames DEF Types, Call, Depth

LEMMA BelowStack ==
    ASSUME Types, Depth > 1
    PROVE  Shortened(Below, Depth - 1, stack[Depth - 1])
<1>1. stack \in Seq(Calls) /\ Depth \in Nat /\ Len(stack) = Depth  BY Frames DEF Types
<1>2. 1 \in 1..(Len(stack) + 1) /\ Depth - 1 \in 0..Len(stack)  BY <1>1
<1>3. Below \in Seq(Calls) /\ Len(Below) = Depth - 1
  BY <1>1, <1>2 DEF Below
<1>4. \A k \in 1..(Depth - 1) : Below[k] = stack[k]
  BY <1>1, <1>2 DEF Below
<1> QED  BY <1>1, <1>3, <1>4 DEF Shortened

(* A call that gets the time t, read at w, unless it is the application. *)
Given(f, t, w) == IF f.fn = "user" THEN f ELSE [f EXCEPT !.t = t, !.when = w]

LEMMA Changed ==
    ASSUME NEW s \in Seq(Calls), NEW f \in Calls, Len(s) >= 1
    PROVE  LET r == [s EXCEPT ![Len(s)] = f]
           IN  /\ r \in Seq(Calls) /\ Len(r) = Len(s) /\ r[Len(s)] = f
               /\ \A k \in 1..(Len(s) - 1) : r[k] = s[k]
  OBVIOUS

LEMMA GivenStack ==
    ASSUME Types, Depth > 1, NEW t \in Int, NEW w \in Int
    PROVE  Shortened(IF stack[Depth - 1].fn = "user" THEN Below
                     ELSE [Below EXCEPT ![Depth - 1] = [@ EXCEPT !.t = t, !.when = w]],
                     Depth - 1, Given(stack[Depth - 1], t, w))
<1> DEFINE m == Depth - 1
<1>1. Shortened(Below, m, stack[m]) /\ m \in Nat /\ m >= 1 /\ stack[m] \in Calls
  BY BelowStack, Frames
<1>2. CASE stack[m].fn = "user"  BY <1>1, <1>2 DEF Given
<1>3. CASE stack[m].fn # "user"
  <2> DEFINE f == [stack[m] EXCEPT !.t = t, !.when = w]
             s == [Below EXCEPT ![m] = f]
  <2> HIDE DEF m
  <2>1. f \in Calls  BY <1>1 DEF Calls
  <2>2. /\ Below \in Seq(Calls) /\ Len(Below) = m /\ Below[m] = stack[m]
        /\ \A k \in 1..(m - 1) : Below[k] = stack[k]
    BY <1>1 DEF Shortened
  <2>3. [Below EXCEPT ![m] = [@ EXCEPT !.t = t, !.when = w]] = s  BY <2>2
  <2>4. /\ s \in Seq(Calls) /\ Len(s) = m /\ s[m] = f
        /\ \A k \in 1..(m - 1) : s[k] = Below[k]
    BY <1>1, <2>1, <2>2, Changed
  <2>5. Shortened(s, m, f)  BY <2>2, <2>4 DEF Shortened
  <2> QED  BY <1>3, <2>3, <2>5 DEF Given, m
<1> QED  BY <1>2, <1>3

LEMMA ReturnTimeStack ==
    ASSUME Types, Depth > 1, NEW t \in Int, NEW w \in Int, ReturnTime(t, w)
    PROVE  Shortened(stack', Depth - 1, Given(stack[Depth - 1], t, w))
  BY GivenStack DEF ReturnTime

(* The steps keep the invariant if the calls they change are in order. *)
LEMMA Replaces ==
    ASSUME SyncInv, NEW n \in {Depth, Depth - 1}, n >= 1, NEW f \in Calls,
           Shortened(stack', n, f), UNCHANGED now, realtime' \in Int, Messages',
           clock_gettime_mutex' \in BOOLEAN,
           f.fn = stack[n].fn, Formed(f), ~Waits(f),
           Holds(f) => clock_gettime_mutex',
           \A k \in 1..(n - 1) : Holds(stack[k]) => clock_gettime_mutex',
           f.fn = "clock_gettime" /\ f.at # "read" => \A k \in 1..(n - 1) : ~Holds(stack[k]),
           Sound(f, f.when),
           n > 1 /\ f.fn = "clock_gettime" => Sound(stack[n - 1], f.when)
    PROVE  SyncInv'
<1>0. /\ Depth \in Nat /\ Depth >= 1 /\ n \in Nat /\ n <= Depth /\ Depth' = n
      /\ stack'[n] = f /\ \A k \in 1..(n - 1) : stack'[k] = stack[k]
      /\ \A k \in 1..Depth : stack[k] \in Calls
  BY Frames DEF SyncInv, Shortened, Depth
<1>1. Types'  BY <1>0 DEF SyncInv, Types, Shortened
<1>2. Shape'
  <2>1. stack'[1].fn = "user"  BY <1>0 DEF SyncInv, Shape
  <2>2. \A k \in 1..n : Formed(stack'[k])  BY <1>0 DEF SyncInv, Shape
  <2>3. \A k \in 1..(n - 1) : Over(stack'[k], stack'[k + 1])
    <3> TAKE k \in 1..(n - 1)
    <3>1. Over(stack[k], stack[k + 1])  BY <1>0 DEF SyncInv, Shape
    <3>2. stack'[k] = stack[k] /\ stack'[k + 1].fn = stack[k + 1].fn  BY <1>0
    <3> QED  BY <3>1, <3>2 DEF Over
  <2>4. \A i, j \in 2..n : stack'[i].fn = "user" /\ stack'[j].fn = "user" => i = j
    <3>1. \A k \in 1..n : stack'[k].fn = stack[k].fn  BY <1>0
    <3> QED  BY <1>0, <3>1 DEF SyncInv, Shape
  <2> QED  BY <1>0, <2>1, <2>2, <2>3, <2>4 DEF Shape, Formed, Over, Waits
<1>3. Exclusive'
  <2>1. \A k \in 1..n : Holds(stack'[k]) => clock_gettime_mutex'  BY <1>0
  <2>2. ASSUME NEW j \in 1..n, NEW i \in 1..(j - 1),
               stack'[j].fn = "clock_gettime", stack'[j].at # "read"
        PROVE  ~Holds(stack'[i])
    <3>1. stack'[i] = stack[i]  BY <1>0
    <3>2. CASE j = n  BY <1>0, <2>2, <3>1, <3>2
    <3>3. CASE j < n
      <4>1. stack'[j] = stack[j] /\ j \in 1..Depth  BY <1>0, <3>3
      <4> QED  BY <2>2, <3>1, <4>1 DEF SyncInv, Exclusive
    <3> QED  BY <1>0, <3>2, <3>3
  <2> QED  BY <1>0, <2>1, <2>2 DEF Exclusive, Holds
<1>4. Exchanges'
  <2>1. ASSUME NEW k \in 1..n PROVE Sound(stack'[k], Got(k)')
    <3>1. CASE k = n
      <4>1. Got(k)' = f.when  BY <1>0, <3>1 DEF Got
      <4> QED  BY <1>0, <3>1, <4>1
    <3>2. CASE k < n
      <4>1. stack'[k] = stack[k] /\ k \in 1..Depth /\ k < Depth  BY <1>0, <3>2
      <4>2. Sound(stack[k], Got(k))  BY <4>1 DEF SyncInv, Exchanges
      <4>3. CASE k + 1 < n
        <5>1. stack'[k + 1] = stack[k + 1]  BY <1>0, <4>3
        <5>2. Got(k)' = Got(k)  BY <1>0, <3>2, <4>1, <5>1 DEF Got
        <5> QED  BY <4>1, <4>2, <5>2
      <4>4. CASE k + 1 = n
        <5>1. stack'[k + 1] = f  BY <1>0, <4>4
        <5>2. CASE f.fn = "clock_gettime"
          <6>1. Got(k)' = f.when  BY <1>0, <3>2, <5>1, <5>2 DEF Got
          <6>2. k = n - 1 /\ n > 1  BY <1>0, <4>4
          <6>3. Sound(stack[n - 1], f.when)  BY <5>2, <6>2
          <6> QED  BY <4>1, <6>1, <6>2, <6>3
        <5>3. CASE f.fn # "clock_gettime"
          <6>1. stack[k + 1].fn # "clock_gettime"  BY <1>0, <4>4, <5>3
          <6>2. Got(k)' = Got(k)  BY <1>0, <3>2, <4>1, <5>1, <5>3, <6>1 DEF Got
          <6> QED  BY <4>1, <4>2, <6>2
        <5> QED  BY <5>2, <5>3
      <4> QED  BY <1>0, <3>2, <4>3, <4>4
    <3> QED  BY <1>0, <3>1, <3>2
  <2> QED  BY <1>0, <2>1 DEF Exchanges, Sound
<1> QED  BY <1>1, <1>2, <1>3, <1>4 DEF SyncInv

LEMMA Pushes ==
    ASSUME SyncInv, NEW f \in Calls, NEW g \in Calls, Call(f, g),
           UNCHANGED <<now, realtime, clock_gettime_mutex, wire>>,
           f.fn = Top.fn, Formed(f), Formed(g), Over(f, g), ~Waits(g),
           g.fn = "user" => ~InHandler,
           Holds(f) => Holds(Top), g.fn = "clock_gettime" => g.at = "read",
           f.fn = "clock_gettime" => f.when = Top.when /\ (f.at # "read" => Top.at # "read"),
           Sound(f, IF g.fn = "clock_gettime" THEN g.when ELSE f.when), Sound(g, g.when)
    PROVE  SyncInv'
<1>0. /\ Depth \in Nat /\ Depth >= 1 /\ Depth' = Depth + 1 /\ Top = stack[Depth]
      /\ stack'[Depth] = f /\ stack'[Depth + 1] = g
      /\ \A k \in 1..(Depth - 1) : stack'[k] = stack[k]
      /\ \A k \in 1..Depth : stack[k] \in Calls
  BY Frames, CallStack DEF SyncInv, Depth
<1>1. Types'  BY <1>0, CallStack DEF SyncInv, Types
<1>2. \A k \in 1..Depth : stack'[k].fn = stack[k].fn  BY <1>0
<1>3. Shape'
  <2>1. stack'[1].fn = "user"  BY <1>0, <1>2 DEF SyncInv, Shape
  <2>2. \A k \in 1..(Depth + 1) : Formed(stack'[k])  BY <1>0 DEF SyncInv, Shape
  <2>3. ASSUME NEW k \in 1..Depth PROVE Over(stack'[k], stack'[k + 1])
    <3>1. CASE k = Depth  BY <1>0, <3>1
    <3>2. CASE k < Depth
      <4>1. Over(stack[k], stack[k + 1])  BY <1>0, <3>2 DEF SyncInv, Shape
      <4>2. stack'[k] = stack[k] /\ stack'[k + 1].fn = stack[k + 1].fn  BY <1>0, <1>2, <3>2
      <4> QED  BY <4>1, <4>2 DEF Over
    <3> QED  BY <1>0, <3>1, <3>2
  <2>4. ASSUME NEW i \in 2..(Depth + 1), NEW j \in 2..(Depth + 1),
               stack'[i].fn = "user", stack'[j].fn = "user"
        PROVE  i = j
    <3>1. \A k \in 2..Depth : g.fn = "user" => stack[k].fn # "user"  BY DEF InHandler
    <3> QED  BY <1>0, <1>2, <2>4, <3>1 DEF SyncInv, Shape
  <2> QED  BY <1>0, <2>1, <2>2, <2>3, <2>4 DEF Shape, Formed, Over, Waits
<1>4. Exclusive'
  <2>1. \A k \in 1..Depth : Holds(stack'[k]) => Holds(stack[k])  BY <1>0
  <2>2. ~Holds(g)  BY DEF Holds
  <2>3. \A k \in 1..(Depth + 1) : Holds(stack'[k]) => clock_gettime_mutex'
    BY <1>0, <2>1, <2>2 DEF SyncInv, Exclusive
  <2>4. ASSUME NEW j \in 1..(Depth + 1), NEW i \in 1..(j - 1),
               stack'[j].fn = "clock_gettime", stack'[j].at # "read"
        PROVE  ~Holds(stack'[i])
    <3>1. j \in 1..Depth  BY <1>0, <2>4
    <3>2. stack[j].fn = "clock_gettime" /\ stack[j].at # "read"  BY <1>0, <2>4, <3>1
    <3>3. ~Holds(stack[i])  BY <3>1, <3>2 DEF SyncInv, Exclusive
    <3> QED  BY <1>0, <2>1, <3>1, <3>3
  <2> QED  BY <1>0, <2>3, <2>4 DEF Exclusive, Holds
<1>5. Exchanges'
  <2>1. ASSUME NEW k \in 1..(Depth + 1) PROVE Sound(stack'[k], Got(k)')
    <3>1. CASE k = Depth + 1
      <4>1. Got(k)' = g.when  BY <1>0, <3>1 DEF Got
      <4> QED  BY <1>0, <3>1, <4>1
    <3>2. CASE k = Depth
      <4>1. Got(k)' = IF g.fn = "clock_gettime" THEN g.when ELSE f.when  BY <1>0, <3>2 DEF Got
      <4> QED  BY <1>0, <3>2, <4>1
    <3>3. CASE k < Depth
      <4>1. stack'[k] = stack[k] /\ k \in 1..Depth /\ k + 1 \in 1..Depth  BY <1>0, <3>3
      <4>2. Sound(stack[k], Got(k))  BY <4>1 DEF SyncInv, Exchanges
      <4>3. /\ stack'[k + 1].fn = stack[k + 1].fn
            /\ stack[k + 1].fn = "clock_gettime" => stack'[k + 1].when = stack[k + 1].when
        BY <1>0, <1>2, <3>3, <4>1
      <4>4. Got(k)' = Got(k)  BY <1>0, <3>3, <4>1, <4>3 DEF Got
      <4> QED  BY <4>1, <4>2, <4>4
    <3> QED  BY <1>0, <3>1, <3>2, <3>3
  <2> QED  BY <1>0, <2>1 DEF Exchanges, Sound
<1>6. Messages'  BY DEF SyncInv, Messages
<1> QED  BY <1>1, <1>3, <1>4, <1>5, <1>6 DEF SyncInv

-----------------------------------------------------------------------------
(* The steps. *)

LEMMA NewFrame ==
    ASSUME NEW fn \in {"user", "clock_gettime", "timesync", "sync"},
           NEW at \in {"user", "read", "socket"}
    PROVE  /\ Frame(fn, at) \in Calls /\ Frame(fn, at).fn = fn /\ Frame(fn, at).at = at
           /\ Frame(fn, at).t = NONE /\ Frame(fn, at).when = NONE
  BY DEF Frame, Calls

(* What is known of the running call. *)
LEMMA Running ==
    ASSUME SyncInv
    PROVE  /\ Top \in Calls /\ Formed(Top) /\ ~Waits(Top) /\ Sound(Top, Top.when)
           /\ Holds(Top) => clock_gettime_mutex
           /\ Top.fn = "clock_gettime" /\ Top.at # "read" =>
                \A k \in 1..(Depth - 1) : ~Holds(stack[k])
           /\ \A k \in 1..(Depth - 1) : Holds(stack[k]) => clock_gettime_mutex
           /\ clock_gettime_mutex \in BOOLEAN
<1>1. Depth \in Nat /\ Depth >= 1 /\ Top = stack[Depth] /\ Top \in Calls
  BY Frames DEF SyncInv
<1>2. Got(Depth) = Top.when  BY <1>1 DEF Got
<1> QED  BY <1>1, <1>2 DEF SyncInv, Types, Shape, Exclusive, Exchanges

(* And of its caller. *)
LEMMA Caller ==
    ASSUME SyncInv, Top.fn # "user"
    PROVE  /\ Depth > 1 /\ stack[Depth - 1] \in Calls /\ Formed(stack[Depth - 1])
           /\ Over(stack[Depth - 1], Top)
           /\ Sound(stack[Depth - 1],
                    IF Top.fn = "clock_gettime" THEN Top.when ELSE stack[Depth - 1].when)
<1>1. /\ Depth \in Nat /\ Depth >= 1 /\ Top = stack[Depth]
      /\ \A k \in 1..Depth : stack[k] \in Calls
  BY Frames DEF SyncInv
<1>2. Depth > 1  BY <1>1 DEF SyncInv, Shape
<1>3. Got(Depth - 1) = IF Top.fn = "clock_gettime" THEN Top.when ELSE stack[Depth - 1].when
  BY <1>1, <1>2 DEF Got
<1> QED  BY <1>1, <1>2, <1>3 DEF SyncInv, Shape, Exchanges

LEMMA Quiet ==
    ASSUME SyncInv, UNCHANGED <<now, realtime, wire>>
    PROVE  realtime' \in Int /\ Messages'
  BY DEF SyncInv, Types, Messages

(* Steps that leave the calls as they are. *)
LEMMA Frozen ==
    ASSUME SyncInv, UNCHANGED <<now, clock_gettime_mutex, stack>>, realtime' \in Int, Messages'
    PROVE  SyncInv'
<1>1. Depth' = Depth  BY DEF Depth
<1>2. Types'  BY <1>1 DEF SyncInv, Types
<1>3. Shape' /\ Exclusive'
  BY <1>1 DEF SyncInv, Shape, Exclusive, Formed, Over, Waits, Holds
<1>4. Exchanges'  BY <1>1 DEF SyncInv, Exchanges, Sound, Got
<1> QED  BY <1>2, <1>3, <1>4 DEF SyncInv

(* A call that is not waited for returns. *)
LEMMA Returns ==
    ASSUME SyncInv, Depth > 1, Top.fn # "clock_gettime", ReturnError,
           UNCHANGED <<now, realtime, clock_gettime_mutex, wire>>
    PROVE  SyncInv'
<1> DEFINE n == Depth - 1
           f == stack[n]
<1>1. /\ Depth \in Nat /\ n \in 1..Depth /\ n >= 1 /\ f \in Calls /\ Top = stack[Depth]
      /\ n < Depth /\ stack[n + 1] = Top
  BY Frames DEF SyncInv
<1>2. Shortened(stack', n, f)  BY BelowStack DEF SyncInv, ReturnError
<1>3. Formed(f) /\ Over(f, Top)  BY <1>1 DEF SyncInv, Shape
<1>4. ~Waits(f)  BY <1>3 DEF Over
<1>5. Got(n) = f.when  BY <1>1 DEF Got
<1>6. Sound(f, f.when)  BY <1>1, <1>5 DEF SyncInv, Exchanges
<1>7. \A k \in 1..n : Holds(stack[k]) => clock_gettime_mutex
  BY <1>1 DEF SyncInv, Exclusive
<1>8. f.fn = "clock_gettime" /\ f.at # "read" => \A k \in 1..(n - 1) : ~Holds(stack[k])
  BY <1>1 DEF SyncInv, Exclusive
<1>9. n > 1 /\ f.fn = "clock_gettime" => Sound(stack[n - 1], f.when)
  <2>1. SUFFICES ASSUME n > 1, f.fn = "clock_gettime" PROVE Sound(stack[n - 1], f.when)
    OBVIOUS
  <2>2. n - 1 \in 1..Depth /\ n - 1 < Depth /\ stack[n - 1 + 1] = f  BY <1>1, <2>1
  <2>3. Got(n - 1) = f.when  BY <2>1, <2>2 DEF Got
  <2> QED  BY <2>2, <2>3 DEF SyncInv, Exchanges
<1>10. clock_gettime_mutex' \in BOOLEAN  BY DEF SyncInv, Types
<1>11. n \in {Depth, Depth - 1} /\ \A k \in 1..(n - 1) : k \in 1..n  BY <1>1
<1> HIDE DEF n
<1>12. Holds(f) => clock_gettime_mutex'  BY <1>1, <1>7
<1>13. \A k \in 1..(n - 1) : Holds(stack[k]) => clock_gettime_mutex'  BY <1>7, <1>11
<1> QED
  BY <1>1, <1>2, <1>3, <1>4, <1>6, <1>8, <1>9, <1>10, <1>11, <1>12, <1>13, Quiet, Replaces

(* A call of clock_gettime() returns the time v, read at w, to a caller    *)
(* for which it is sound; clock_gettime_mutex is set if a call holds it.   *)
LEMMA ReturnsTime ==
    ASSUME SyncInv, Top.fn = "clock_gettime", NEW v \in Int, NEW w \in Int,
           ReturnTime(v, w),
           UNCHANGED <<now, realtime, wire>>, clock_gettime_mutex' \in BOOLEAN,
           \A k \in 1..(Depth - 1) : Holds(stack[k]) => clock_gettime_mutex',
           Sound(stack[Depth - 1], w)
    PROVE  SyncInv'
<1> DEFINE n == Depth - 1
           f == Given(stack[n], v, w)
<1>1. /\ Depth > 1 /\ Depth \in Nat /\ n \in 1..Depth /\ n >= 1
      /\ stack[n] \in Calls /\ Formed(stack[n]) /\ Over(stack[n], Top)
  BY Caller, Frames DEF SyncInv
<1>2. /\ stack[n].fn = "user" \/ (stack[n].fn = "timesync" /\ stack[n].at = "check")
            \/ Waits(stack[n])
  BY <1>1 DEF Over
<1>3. Shortened(stack', n, f)  BY <1>1, ReturnTimeStack DEF SyncInv
<1>4. n \in {Depth, Depth - 1}  OBVIOUS
<1> HIDE DEF n
<1>5. f \in Calls /\ f.fn = stack[n].fn /\ Formed(f) /\ ~Waits(f) /\ f.fn # "clock_gettime"
  BY <1>1, <1>2, TimeAssumption DEF Given, Calls, Formed, Waits
<1>6. Sound(f, f.when)
  BY <1>1, <1>2 DEF Given, Calls, Sound, Waits, n
<1>7. /\ Holds(f) => clock_gettime_mutex'
      /\ \A k \in 1..(n - 1) : Holds(stack[k]) => clock_gettime_mutex'
  <2>1. ~Holds(f)  BY <1>5 DEF Holds
  <2> QED  BY <1>1, <2>1 DEF n
<1> HIDE DEF f
<1>8. realtime' \in Int /\ Messages'  BY Quiet
<1> QED  BY <1>1, <1>3, <1>4, <1>5, <1>6, <1>7, <1>8, Replaces

(* The running call goes on as f, with clock_gettime_mutex as it was. *)
LEMMA GoesOn ==
    ASSUME SyncInv, NEW f \in Calls, GoOn(f),
           UNCHANGED <<now, realtime>>, Messages', clock_gettime_mutex' \in BOOLEAN,
           f.fn = Top.fn, Formed(f), ~Waits(f),
           Holds(f) => clock_gettime_mutex',
           clock_gettime_mutex => clock_gettime_mutex',
           f.fn = "clock_gettime" /\ f.at # "read" =>
                \A k \in 1..(Depth - 1) : ~Holds(stack[k]),
           Sound(f, f.when),
           Depth > 1 /\ f.fn = "clock_gettime" => Sound(stack[Depth - 1], f.when)
    PROVE  SyncInv'
<1>1. Depth \in Nat /\ Depth >= 1 /\ Top = stack[Depth]  BY Frames DEF SyncInv
<1>2. Shortened(stack', Depth, f)  BY GoOnStack DEF SyncInv
<1>3. \A k \in 1..(Depth - 1) : Holds(stack[k]) => clock_gettime_mutex'  BY Running
<1>4. realtime' \in Int  BY DEF SyncInv, Types
<1> QED  BY <1>1, <1>2, <1>3, <1>4, Replaces

LEMMA UserCallStep ==
    ASSUME SyncInv, NEW fn \in {"clock_gettime", "timesync", "timesync_now"},
           UserCall(fn)
    PROVE  SyncInv'
<1>1. PICK g \in {Frame("clock_gettime", "read"), Frame("timesync", "read"),
                  Frame("sync", "socket")} : Call(Top, g)
  BY DEF UserCall
<1>2. Top.fn = "user" /\ UNCHANGED <<now, realtime, clock_gettime_mutex, wire>>
  BY DEF UserCall, At, net
<1>3. Top \in Calls /\ Formed(Top) /\ ~Waits(Top) /\ Sound(Top, Top.when)  BY Running
<1>4. /\ g \in Calls /\ g.t = NONE /\ g.when = NONE
      /\ \/ g.fn = "clock_gettime" /\ g.at = "read"
         \/ g.fn = "timesync" /\ g.at = "read"
         \/ g.fn = "sync" /\ g.at = "socket"
  BY <1>1, NewFrame
<1>5. Formed(g) /\ Over(Top, g) /\ ~Waits(g)  BY <1>2, <1>3, <1>4 DEF Formed, Over, Waits
<1>6. /\ Sound(g, g.when)
      /\ Sound(Top, IF g.fn = "clock_gettime" THEN g.when ELSE Top.when)
  BY <1>2, <1>4 DEF Sound
<1> QED  BY <1>1, <1>2, <1>3, <1>4, <1>5, <1>6, Pushes

LEMMA HandlerSteps ==
    ASSUME SyncInv, HandlerBegins \/ HandlerEnds PROVE SyncInv'
<1>1. CASE HandlerBegins
  <2> DEFINE g == Frame("user", "user")
  <2>1. /\ ~InHandler /\ Call(Top, g) /\ UNCHANGED <<now, realtime, clock_gettime_mutex, wire>>
    BY <1>1 DEF HandlerBegins, net
  <2>2. g \in Calls /\ g.fn = "user" /\ g.at = "user"  BY NewFrame
  <2>3. Top \in Calls /\ Formed(Top) /\ ~Waits(Top) /\ Sound(Top, Top.when)  BY Running
  <2> HIDE DEF g
  <2>4. Formed(g) /\ Over(Top, g) /\ ~Waits(g) /\ Sound(g, g.when)
    BY <2>2, <2>3 DEF Formed, Over, Waits, Sound
  <2> QED  BY <2>1, <2>2, <2>3, <2>4, Pushes
<1>2. CASE HandlerEnds
  BY <1>2, Returns DEF HandlerEnds, At, net
<1> QED  BY <1>1, <1>2

(* The clock is read, after T1 of the reply that its caller may have. *)
LEMMA ReadsNow ==
    ASSUME SyncInv, At("clock_gettime", "read")
    PROVE  Sound(stack[Depth - 1], now)
<1> DEFINE f == stack[Depth - 1]
<1>1. /\ Top.fn = "clock_gettime" /\ f \in Calls /\ Formed(f) /\ Sound(f, Top.when)
  BY Running, Caller DEF At
<1>2. now \in Int /\ now <= now  BY DEF SyncInv, Types
<1> HIDE DEF f
<1>3. ASSUME f.fn = "sync", f.at = "set" PROVE f.when1 <= now
  BY <1>1, <1>2, <1>3 DEF Formed, Sound
<1>4. Sound(f, now)  BY <1>1, <1>2, <1>3 DEF Sound
<1> QED  BY <1>4 DEF f

LEMMA clock_gettimeStep ==
    ASSUME SyncInv, clock_gettime PROVE SyncInv'
<1>1. /\ Top.fn = "clock_gettime" /\ Top.at = "read"
      /\ UNCHANGED <<now, realtime, clock_gettime_mutex, wire>>
      /\ Sound(stack[Depth - 1], now)
  BY ReadsNow DEF clock_gettime, At, net
<1>2. /\ Top \in Calls /\ Formed(Top) /\ realtime \in Int /\ clock_gettime_mutex' \in BOOLEAN
      /\ \A k \in 1..(Depth - 1) : Holds(stack[k]) => clock_gettime_mutex'
      /\ now \in Int
  BY <1>1, Running DEF SyncInv, Types
<1>3. CASE ReturnTime(realtime, now)  BY <1>1, <1>2, <1>3, ReturnsTime
<1> DEFINE f == [Top EXCEPT !.t = realtime, !.when = now, !.at = "lock"]
<1>4. CASE ~clock_gettime_mutex /\ GoOn(f)
  <2>1. /\ f \in Calls /\ f.fn = "clock_gettime" /\ f.at = "lock" /\ f.t = realtime
        /\ f.when = now
    BY <1>1, <1>2 DEF Calls
  <2>2. GoOn(f)  BY <1>4
  <2> HIDE DEF f
  <2>3. Formed(f) /\ ~Waits(f) /\ ~Holds(f) /\ Sound(f, f.when)
    BY <1>2, <2>1, TimeAssumption DEF Formed, Waits, Holds, Sound
  <2>4. \A k \in 1..(Depth - 1) : ~Holds(stack[k])  BY <1>1, <1>2, <1>4
  <2> QED  BY <1>1, <1>2, <2>1, <2>2, <2>3, <2>4, Quiet, GoesOn
<1> QED  BY <1>3, <1>4 DEF clock_gettime

LEMMA LockStep == ASSUME SyncInv, Lock PROVE SyncInv'
<1> DEFINE f == [Top EXCEPT !.at = "check"]
<1>1. /\ Top.fn = "clock_gettime" /\ Top.at = "lock" /\ clock_gettime_mutex' = TRUE
      /\ GoOn(f) /\ UNCHANGED <<now, realtime, wire>>
  BY DEF Lock, At, net
<1>2. /\ Top \in Calls /\ Formed(Top) /\ \A k \in 1..(Depth - 1) : ~Holds(stack[k])
      /\ Sound(stack[Depth - 1], Top.when)
  BY <1>1, Running, Caller
<1>3. f \in Calls /\ f.fn = "clock_gettime" /\ f.at = "check" /\ f.t = Top.t /\ f.when = Top.when
  BY <1>1, <1>2 DEF Calls
<1> HIDE DEF f
<1>4. Formed(f) /\ ~Waits(f) /\ Sound(f, f.when)
  BY <1>1, <1>2, <1>3 DEF Formed, Waits, Sound
<1>5. clock_gettime_mutex' \in BOOLEAN  BY <1>1, Zenon
<1>6. clock_gettime_mutex'  BY <1>1, Zenon
<1> QED  BY <1>1, <1>2, <1>3, <1>4, <1>5, <1>6, Quiet, GoesOn

LEMMA timesync_timespecStep ==
    ASSUME SyncInv, timesync_timespec PROVE SyncInv'
<1> DEFINE f == [Top EXCEPT !.at = "done"]
           g == Frame("sync", "socket")
<1>1. /\ Top.at = "check" /\ (GoOn(f) \/ Call(f, g))
      /\ UNCHANGED <<now, realtime, clock_gettime_mutex, wire>>
  BY DEF timesync_timespec, net
<1>2. /\ Top \in Calls /\ Formed(Top) /\ clock_gettime_mutex \in BOOLEAN
      /\ Holds(Top) => clock_gettime_mutex
      /\ Top.fn = "clock_gettime" /\ Top.at # "read" =>
            \A k \in 1..(Depth - 1) : ~Holds(stack[k])
  BY Running
<1>3. Top.fn \in {"timesync", "clock_gettime"}  BY <1>1, <1>2 DEF Formed, Calls
<1>4. Top.fn = "clock_gettime" => Sound(stack[Depth - 1], Top.when)  BY Caller
<1>5. f \in Calls /\ f.fn = Top.fn /\ f.at = "done" /\ f.t = Top.t /\ f.when = Top.when
  BY <1>2 DEF Calls
<1>6. g \in Calls /\ g.fn = "sync" /\ g.at = "socket" /\ g.t = NONE /\ g.when = NONE
  BY NewFrame
<1> HIDE DEF f, g
<1>7. Formed(f) /\ ~Waits(f) /\ Sound(f, f.when) /\ (Holds(f) => Holds(Top))
  BY <1>1, <1>2, <1>3, <1>5 DEF Formed, Waits, Sound, Holds
<1>8. CASE GoOn(f)
  BY <1>1, <1>2, <1>3, <1>4, <1>5, <1>7, <1>8, Quiet, GoesOn
<1>9. CASE Call(f, g)
  <2>1. Formed(g) /\ Over(f, g) /\ ~Waits(g) /\ Sound(g, g.when)
    BY <1>3, <1>5, <1>6, <1>7 DEF Formed, Over, Waits, Sound
  <2> QED  BY <1>1, <1>5, <1>6, <1>7, <1>9, <2>1, Pushes
<1> QED  BY <1>1, <1>8, <1>9

LEMMA UnlockStep == ASSUME SyncInv, Unlock PROVE SyncInv'
<1>1. /\ Top.fn = "clock_gettime" /\ Top.at = "done" /\ clock_gettime_mutex' = FALSE
      /\ ReturnTime(Top.t, Top.when) /\ UNCHANGED <<now, realtime, wire>>
  BY DEF Unlock, At, net
<1>2. /\ Top \in Calls /\ Formed(Top) /\ \A k \in 1..(Depth - 1) : ~Holds(stack[k])
      /\ Sound(stack[Depth - 1], Top.when)
  BY <1>1, Running, Caller
<1>3. Top.t \in Int /\ Top.when \in Int  BY <1>1, <1>2 DEF Formed, Calls
<1>4. clock_gettime_mutex' \in BOOLEAN  BY <1>1, Zenon
<1> QED  BY <1>1, <1>2, <1>3, <1>4, ReturnsTime

LEMMA timesyncStep == ASSUME SyncInv, timesync PROVE SyncInv'
<1> DEFINE f == [Top EXCEPT !.at = "check"]
           g == Frame("clock_gettime", "read")
<1>1. Top.fn = "timesync" /\ UNCHANGED <<now, realtime, clock_gettime_mutex, wire>>
  BY DEF timesync, net
<1>2. CASE Call(f, g)
  <2>1. Top \in Calls /\ Formed(Top)  BY Running
  <2>2. f \in Calls /\ f.fn = "timesync" /\ f.at = "check"  BY <1>1, <2>1 DEF Calls
  <2>3. g \in Calls /\ g.fn = "clock_gettime" /\ g.at = "read" /\ g.t = NONE /\ g.when = NONE
    BY NewFrame
  <2> HIDE DEF f, g
  <2>4. /\ Formed(f) /\ Formed(g) /\ Over(f, g) /\ ~Waits(g) /\ ~Holds(f) /\ Sound(g, g.when)
        /\ Sound(f, g.when)
    BY <2>2, <2>3 DEF Formed, Over, Waits, Holds, Sound
  <2> QED  BY <1>1, <1>2, <2>2, <2>3, <2>4, Pushes
<1>3. CASE ReturnError
  BY <1>1, <1>3, Caller, Returns
<1> QED  BY <1>2, <1>3 DEF timesync

LEMMA sntp_socketStep == ASSUME SyncInv, sntp_socket PROVE SyncInv'
<1> DEFINE f == [Top EXCEPT !.at = "send"]
           g == Frame("clock_gettime", "read")
<1>1. /\ Top.fn = "sync" /\ Top.at = "socket"
      /\ UNCHANGED <<now, realtime, clock_gettime_mutex, wire>>
  BY DEF sntp_socket, At, net
<1>2. CASE Call(f, g)
  <2>1. Top \in Calls /\ Formed(Top)  BY Running
  <2>2. f \in Calls /\ f.fn = "sync" /\ f.at = "send" /\ f.t = NONE /\ f.when = NONE
    BY <1>1, <2>1 DEF Calls, Formed
  <2>3. g \in Calls /\ g.fn = "clock_gettime" /\ g.at = "read" /\ g.t = NONE /\ g.when = NONE
    BY NewFrame
  <2> HIDE DEF f, g
  <2>4. /\ Formed(f) /\ Formed(g) /\ Over(f, g) /\ ~Waits(g) /\ ~Holds(f)
        /\ Sound(g, g.when) /\ Sound(f, g.when)
    BY <2>2, <2>3 DEF Formed, Over, Waits, Holds, Sound
  <2> QED  BY <1>1, <1>2, <2>2, <2>3, <2>4, Pushes
<1>3. CASE ReturnError
  BY <1>1, <1>3, Caller, Returns
<1> QED  BY <1>2, <1>3 DEF sntp_socket

LEMMA sntp_requestStep == ASSUME SyncInv, sntp_request PROVE SyncInv'
<1> DEFINE f == [Top EXCEPT !.at = "recv", !.t = NONE, !.when = NONE]
           m == [T1 |-> Top.t, when1 |-> Top.when, T2 |-> NONE, port |-> get_avail_port]
<1>1. /\ Top.fn = "sync" /\ Top.at = "send"
      /\ UNCHANGED <<now, realtime, clock_gettime_mutex>>
  BY DEF sntp_request, At
<1>2. CASE GoOn(f) /\ wire' = wire \cup {m}
  <2>1. /\ Top \in Calls /\ Formed(Top) /\ ~Waits(Top) /\ Sound(Top, Top.when)
        /\ clock_gettime_mutex \in BOOLEAN
    BY Running
  <2>2. Top.t \in Int /\ Top.when \in Int /\ Top.when <= now
    BY <1>1, <2>1 DEF Waits, Calls, Formed, Sound
  <2>3. f \in Calls /\ f.fn = "sync" /\ f.at = "recv" /\ f.t = NONE /\ f.when = NONE
    BY <1>1, <2>1 DEF Calls
  <2>4. m.T1 \in Int /\ m.when1 \in Int /\ m.when1 <= now /\ m.T2 = NONE  BY <2>2
  <2> HIDE DEF f, m
  <2>5. Messages'  BY <1>1, <1>2, <2>4 DEF SyncInv, Messages
  <2>6. Formed(f) /\ ~Waits(f) /\ ~Holds(f) /\ Sound(f, f.when)
    BY <2>3 DEF Formed, Waits, Holds, Sound
  <2> QED  BY <1>1, <1>2, <2>1, <2>3, <2>5, <2>6, GoesOn
<1>3. CASE ReturnError /\ UNCHANGED wire
  BY <1>1, <1>3, Caller, Returns
<1> QED  BY <1>2, <1>3 DEF sntp_request

LEMMA sntp_replyStep == ASSUME SyncInv, sntp_reply PROVE SyncInv'
<1>1. /\ Top.fn = "sync" /\ Top.at = "recv"
      /\ UNCHANGED <<now, realtime, clock_gettime_mutex, wire>>
  BY DEF sntp_reply, At, net
<1>2. ASSUME NEW m \in wire, m.T2 # NONE,
             Call([Top EXCEPT !.at = "set", !.T1 = m.T1, !.when1 = m.when1, !.T2 = m.T2],
                  Frame("clock_gettime", "read"))
      PROVE  SyncInv'
  <2> DEFINE f == [Top EXCEPT !.at = "set", !.T1 = m.T1, !.when1 = m.when1, !.T2 = m.T2]
             g == Frame("clock_gettime", "read")
  <2>1. Top \in Calls /\ Formed(Top)  BY Running
  <2>2. /\ m.T1 \in Int /\ m.when1 \in Int /\ m.T2 \in Int
        /\ m.when1 <= m.T2 /\ m.T2 <= now
    BY <1>2 DEF SyncInv, Messages
  <2>3. /\ f \in Calls /\ f.fn = "sync" /\ f.at = "set" /\ f.t = NONE /\ f.when = NONE
        /\ f.T1 = m.T1 /\ f.when1 = m.when1 /\ f.T2 = m.T2
    BY <1>1, <2>1, <2>2 DEF Calls, Formed
  <2>4. g \in Calls /\ g.fn = "clock_gettime" /\ g.at = "read" /\ g.t = NONE /\ g.when = NONE
    BY NewFrame
  <2>5. Call(f, g)  BY <1>2
  <2> HIDE DEF f, g
  <2>6. /\ Formed(f) /\ Formed(g) /\ Over(f, g) /\ ~Waits(g) /\ ~Holds(f)
        /\ Sound(g, g.when) /\ Sound(f, g.when)
    BY <2>2, <2>3, <2>4 DEF Formed, Over, Waits, Holds, Sound
  <2> QED  BY <1>1, <2>3, <2>4, <2>5, <2>6, Pushes
<1>3. CASE ReturnError
  BY <1>1, <1>3, Caller, Returns
<1> QED  BY <1>2, <1>3 DEF sntp_reply

(* The application sets the clock: no call under way changes. *)
LEMMA clock_settimeStep ==
    ASSUME SyncInv, NEW t \in UserTimes, clock_settime(t) PROVE SyncInv'
<1>1. realtime' = t /\ UNCHANGED <<now, clock_gettime_mutex, stack, wire>>
  BY DEF clock_settime, net
<1>2. realtime' \in Int  BY <1>1, TimeAssumption
<1>3. Messages'  BY <1>1 DEF SyncInv, Messages
<1> QED  BY <1>1, <1>2, <1>3, Frozen

LEMMA ToNtpType ==
    ASSUME NEW t \in Int PROVE timespec_to_ntp(t) \in Int
<1> DEFINE r == lsrr(Fraction(t), TO_NTP) * TO_NTP
<1>1. Fraction(t) \in Int /\ Seconds(t) \in Int  BY SplitTime, TimeAssumption
<1>2. r \in Int  BY <1>1, Rounds, TimeAssumption
<1> HIDE DEF r
<1>3. r % UNITS \in Int  BY <1>2, TimeAssumption
<1> QED  BY <1>1, <1>3 DEF timespec_to_ntp, r

LEMMA EstimateType ==
    ASSUME SyncInv, At("sync", "set") PROVE Estimate \in Int
<1>1. Top \in Calls /\ Formed(Top) /\ ~Waits(Top) /\ Top.fn = "sync" /\ Top.at = "set"
  BY Running DEF At
<1>2. Top.T1 \in Int /\ Top.T2 \in Int /\ Top.t \in Int
  BY <1>1 DEF Calls, Formed, Waits
<1>3. ntp_to_timespec(timespec_to_ntp(Top.T1)) \in Int /\ ntp_to_timespec(Top.T2) \in Int
  BY <1>2, ToNtpType, FromNtp
<1> QED  BY <1>2, <1>3 DEF Estimate, system_clock_estimate, timespec_half

LEMMA SyncEndsStep == ASSUME SyncInv, SyncEnds PROVE SyncInv'
<1> DEFINE n == Depth - 1
           f == Given(stack[n], Estimate, now)
<1>1. /\ Top.fn = "sync" /\ Top.at = "set" /\ realtime' = Estimate
      /\ ReturnTime(Estimate, now) /\ UNCHANGED <<now, clock_gettime_mutex, wire>>
  BY DEF SyncEnds, At, net
<1>2. Estimate \in Int /\ now \in Int  BY EstimateType DEF SyncEnds, SyncInv, Types
<1>3. /\ Depth > 1 /\ Depth \in Nat /\ stack[n] \in Calls /\ Formed(stack[n])
      /\ Over(stack[n], Top)
  BY <1>1, Caller, Frames DEF SyncInv
<1>4. Shortened(stack', n, f)  BY <1>1, <1>2, <1>3, ReturnTimeStack DEF SyncInv
<1>5. /\ stack[n].fn \in {"user", "timesync", "clock_gettime"}
      /\ stack[n].fn # "user" => stack[n].at = "done"
  BY <1>1, <1>3 DEF Over
<1>6. n \in {Depth, Depth - 1} /\ n >= 1 /\ n \in 1..Depth  BY <1>3
<1>7. Messages'  BY <1>1 DEF SyncInv, Messages
<1>8. /\ \A k \in 1..n : Holds(stack[k]) => clock_gettime_mutex'
      /\ stack[n].fn = "clock_gettime" => \A k \in 1..(n - 1) : ~Holds(stack[k])
      /\ clock_gettime_mutex' \in BOOLEAN
  BY <1>1, <1>3, <1>5, <1>6 DEF SyncInv, Exclusive, Types
<1>9. n > 1 /\ stack[n].fn = "clock_gettime" => Sound(stack[n - 1], now)
  <2>1. SUFFICES ASSUME n > 1, stack[n].fn = "clock_gettime"
                 PROVE  Sound(stack[n - 1], now)
    OBVIOUS
  <2>2. n - 1 \in 1..Depth /\ n - 1 < Depth /\ (n - 1) + 1 = n  BY <1>3, <2>1
  <2>3. Got(n - 1) = stack[n].when  BY <2>1, <2>2 DEF Got
  <2> HIDE DEF n
  <2>4. Sound(stack[n - 1], stack[n].when) /\ Formed(stack[n - 1])
    BY <2>2, <2>3 DEF SyncInv, Exchanges, Shape
  <2> DEFINE e == stack[n - 1]
  <2> HIDE DEF e
  <2>5. e.fn = "sync" /\ e.at = "set" => e.when1 <= now /\ e.when1 <= e.T2 /\ e.T2 <= now
    BY <1>2, <2>4 DEF Formed, Sound, e
  <2> QED  BY <1>2, <2>5 DEF Sound, e
<1> HIDE DEF n
<1>10. /\ f \in Calls /\ f.fn = stack[n].fn /\ f.at = stack[n].at
       /\ f.fn # "user" => f.t = Estimate /\ f.when = now
  BY <1>2, <1>3, <1>5 DEF Given, Calls
<1> HIDE DEF f
<1>11. Formed(f)  BY <1>2, <1>3, <1>5, <1>10, TimeAssumption DEF Formed
<1>12. ~Waits(f) /\ Sound(f, f.when) /\ (Holds(f) => Holds(stack[n]))
  BY <1>5, <1>10 DEF Waits, Sound, Holds
<1>13. n > 1 /\ f.fn = "clock_gettime" => Sound(stack[n - 1], f.when)
  BY <1>9, <1>10
<1>14. \A k \in 1..(n - 1) : k \in 1..n  BY <1>6
<1>15. n \in 1..n  BY <1>6
<1> QED
  BY <1>1, <1>2, <1>4, <1>6, <1>7, <1>8, <1>10, <1>11, <1>12, <1>13, <1>14, <1>15, Replaces

(* The server answers, no matter which request. *)
LEMMA ServerAnswersStep == ASSUME SyncInv, ServerAnswers PROVE SyncInv'
<1>1. PICK m \in wire :
        wire' = (wire \ {m}) \cup {[T1 |-> m.T1, when1 |-> m.when1, T2 |-> now,
                                       port |-> m.port]}
  BY DEF ServerAnswers
<1>2. UNCHANGED <<now, realtime, clock_gettime_mutex, stack>>  BY DEF ServerAnswers
<1> DEFINE a == [T1 |-> m.T1, when1 |-> m.when1, T2 |-> now, port |-> m.port]
<1>3. a.T1 = m.T1 /\ a.when1 = m.when1 /\ a.T2 = now  OBVIOUS
<1>4. wire' = (wire \ {m}) \cup {a}  BY <1>1
<1> HIDE DEF a
<1>5. now \in Int /\ now <= now /\ realtime' \in Int  BY <1>2 DEF SyncInv, Types
<1>6. Messages'  BY <1>2, <1>3, <1>4, <1>5 DEF SyncInv, Messages
<1> QED  BY <1>2, <1>5, <1>6, Frozen

LEMMA TickStep == ASSUME SyncInv, Tick PROVE SyncInv'
<1>1. /\ now' = now + 1 /\ realtime' = realtime + 1
      /\ UNCHANGED <<stack, clock_gettime_mutex, wire>> /\ now \in Int /\ realtime \in Int
  BY DEF Tick, SyncInv, Types, net
<1>2. Depth' = Depth  BY <1>1 DEF Depth
<1>3. Types'  BY <1>1, <1>2 DEF SyncInv, Types
<1>4. Shape'  BY <1>1, <1>2 DEF SyncInv, Shape, Formed, Over, Waits
<1>5. Exclusive'  BY <1>1, <1>2 DEF SyncInv, Exclusive, Holds
<1>6. Exchanges'
  <2>1. ASSUME NEW k \in 1..Depth PROVE Sound(stack[k], Got(k))'
    <3> DEFINE f == stack[k]
               w == Got(k)
    <3>1. Sound(f, w) /\ Formed(f)  BY DEF SyncInv, Exchanges, Shape
    <3>2. Got(k)' = w /\ stack'[k] = f  BY <1>1, <1>2 DEF Got
    <3>3. w \in Int \cup {NONE}
      <4>1. Depth \in Nat /\ \A j \in 1..Depth : stack[j] \in Calls  BY Frames DEF SyncInv
      <4> QED  BY <4>1 DEF Got, Calls
    <3> HIDE DEF f, w
    <3>4. f.fn = "sync" /\ f.at = "send" /\ w # NONE => w <= now'
      BY <1>1, <3>1, <3>3 DEF Sound
    <3>5. f.fn = "sync" /\ f.at = "set" =>
            /\ f.when1 <= f.T2 /\ f.T2 <= now'
            /\ w # NONE => f.when1 <= w /\ w <= now'
      BY <1>1, <3>1, <3>3 DEF Sound, Formed
    <3> QED  BY <3>2, <3>4, <3>5 DEF Sound
  <2> QED  BY <1>2, <2>1 DEF Exchanges
<1>7. Messages'  BY <1>1 DEF SyncInv, Messages
<1> QED  BY <1>3, <1>4, <1>5, <1>6, <1>7 DEF SyncInv

LEMMA InitSync == ASSUME Init PROVE SyncInv
<1> DEFINE f == Frame("user", "user")
<1>1. f \in Calls /\ f.fn = "user" /\ f.at = "user"  BY NewFrame
<1>2. stack = <<f>>  BY DEF Init
<1> HIDE DEF f
<1>3. stack \in Seq(Calls) /\ Depth = 1 /\ stack[1] = f  BY <1>1, <1>2 DEF Depth
<1>4. Types
  <2>1. clock_gettime_mutex \in BOOLEAN  BY Zenon DEF Init
  <2> QED  BY <1>3, <2>1, TimeAssumption DEF Init, Types
<1>5. Formed(f) /\ ~Waits(f) /\ ~Holds(f)  BY <1>1 DEF Formed, Waits, Holds
<1>6. Shape /\ Exclusive  BY <1>1, <1>3, <1>5 DEF Shape, Exclusive
<1>7. Exchanges  BY <1>1, <1>3 DEF Exchanges, Sound
<1>8. Messages  BY DEF Init, Messages
<1> QED  BY <1>4, <1>6, <1>7, <1>8 DEF SyncInv

LEMMA NextSync == ASSUME SyncInv, [Next]_vars PROVE SyncInv'
<1>1. CASE UNCHANGED vars
  <2>1. UNCHANGED <<now, realtime, clock_gettime_mutex, stack, wire>>  BY <1>1 DEF vars, net
  <2> QED  BY <2>1, Quiet, Frozen
<1>2. CASE Next
  BY <1>2, UserCallStep, clock_settimeStep, HandlerSteps, clock_gettimeStep, LockStep,
     timesync_timespecStep, UnlockStep, timesyncStep, sntp_socketStep, sntp_requestStep,
     sntp_replyStep, SyncEndsStep, ServerAnswersStep, TickStep DEF Next, Run
<1> QED  BY <1>1, <1>2

(* The calls under way nest as the code makes them, at most one of them    *)
(* holds clock_gettime_mutex, and the time stamps of every reply, also of  *)
(* one that comes late, and of the exchange that took it are in the order  *)
(* of the server's clock.                                                  *)
THEOREM SyncInvariant == Spec => []SyncInv
<1>1. Init => SyncInv  BY InitSync
<1>2. SyncInv /\ [Next]_vars => SyncInv'  BY NextSync
<1> QED  BY <1>1, <1>2, PTL DEF Spec

(* Of the steps that can be taken at the end of an exchange only SyncEnds  *)
(* returns.                                                                *)
LEMMA SyncedStep ==
    ASSUME SyncInv, Next, At("sync", "set"), Len(stack') < Depth, OneScale, ~Wraps(Top.T1)
    PROVE  Distance(realtime', now) <= now - Top.when1 + Loss
<1>1. Top.fn = "sync" /\ Top.at = "set" /\ Depth \in Nat /\ Depth >= 1
  BY Frames DEF At, SyncInv
<1>2. SyncEnds
  <2>1. ~HandlerBegins
    <3>1. ASSUME NEW g, Call(Top, g) PROVE Len(stack') = Depth + 1
      BY <1>1, <3>1 DEF Call, SyncInv, Types, Depth
    <3> QED  BY <1>1, <3>1 DEF HandlerBegins
  <2>2. ~Tick /\ ~ServerAnswers  BY <1>1 DEF Tick, ServerAnswers, Depth
  <2> QED
    BY <1>1, <2>1, <2>2 DEF Next, Run, UserCall, clock_settime, HandlerEnds,
       clock_gettime, Lock, timesync_timespec, Unlock, timesync, sntp_socket, sntp_request,
       sntp_reply, At
<1>3. Top \in Calls /\ Formed(Top) /\ ~Waits(Top) /\ Sound(Top, Top.when) /\ now \in Int
  BY Running DEF SyncInv, Types
<1>4. /\ Top.T1 \in Int /\ Top.T2 \in Int /\ Top.t \in Int /\ Top.when1 \in Int
      /\ Top.when \in Int /\ Top.when # NONE
  BY <1>1, <1>3 DEF Formed, Waits, Calls
<1>5. /\ Top.when1 <= Top.T2 /\ Top.T2 <= now
      /\ Top.when1 <= Top.when /\ Top.when <= now
  BY <1>1, <1>3, <1>4 DEF Sound
<1>6. Top.T1 <= Top.t /\ Top.t - Top.T1 <= now - Top.when1
  BY <1>3, <1>4, <1>5 DEF OneScale
<1>7. realtime' = Estimate  BY <1>2 DEF SyncEnds
<1> QED  BY <1>3, <1>4, <1>5, <1>6, <1>7, EstimateNear DEF Estimate

(* timesync_now_timespec() sets the clock to the server's time, wrong by   *)
(* no more than the time since the request that was answered read it and   *)
(* what the conversions lose, whichever request that is, unless the clock  *)
(* was set in between or T1 rounds to a whole second.                      *)
THEOREM SynchronisationSetsServersTime == Spec => SyncedToServer
<1>1. SyncInv /\ [Next]_vars =>
        [At("sync", "set") /\ Len(stack') < Depth /\ OneScale /\ ~Wraps(Top.T1)
            => Distance(realtime', now) <= now - Top.when1 + Loss]_vars
  BY SyncedStep
<1> QED  BY <1>1, SyncInvariant, PTL DEF Spec, SyncedToServer

-----------------------------------------------------------------------------
(* How deep synchronisations nest. *)

(* The call that exchange i is owed to: the application's call under way   *)
(* (which is at most one for each context), or 0 if it is that of the only *)
(* clock_gettime() that holds the mutex.                                   *)
Root(i) ==
    IF stack[i - 1].fn = "clock_gettime" THEN 0
    ELSE IF stack[i - 1].fn = "user" THEN i - 1 ELSE i - 2

LEMMA Roots ==
    ASSUME SyncInv, NEW i \in 1..Depth, stack[i].fn = "sync"
    PROVE  /\ i > 1 /\ Root(i) \in 0..Depth
           /\ stack[i - 1].fn \in {"user", "timesync", "clock_gettime"}
           /\ Root(i) # 0 => /\ stack[Root(i)].fn = "user"
                             /\ i = Root(i) + 1 \/ i = Root(i) + 2
                             /\ i = Root(i) + 2 => stack[Root(i) + 1].fn = "timesync"
           /\ Root(i) = 0 => stack[i - 1].fn = "clock_gettime" /\ Holds(stack[i - 1])
<1>1. Depth \in Nat /\ stack[1].fn = "user"  BY Frames DEF SyncInv, Shape
<1>2. i > 1 /\ i - 1 \in 1..(Depth - 1)  BY <1>1
<1>3. Over(stack[i - 1], stack[i])
  <2>1. \A k \in 1..(Depth - 1) : Over(stack[k], stack[k + 1])  BY DEF SyncInv, Shape
  <2>2. (i - 1) + 1 = i  BY <1>1
  <2> QED  BY <1>2, <2>1, <2>2
<1>4. CASE stack[i - 1].fn = "user"  BY <1>1, <1>2, <1>4 DEF Root
<1>5. CASE stack[i - 1].fn = "clock_gettime" /\ stack[i - 1].at = "done"
  BY <1>1, <1>2, <1>5 DEF Root, Holds
<1>6. CASE stack[i - 1].fn = "timesync"
  <2>1. i > 2 /\ i - 2 \in 1..(Depth - 1)  BY <1>1, <1>2, <1>6
  <2>2. Over(stack[i - 2], stack[i - 1])
    <3>1. \A k \in 1..(Depth - 1) : Over(stack[k], stack[k + 1])  BY DEF SyncInv, Shape
    <3>2. (i - 2) + 1 = i - 1  BY <1>1
    <3> QED  BY <2>1, <3>1, <3>2
  <2>3. stack[i - 2].fn = "user"  BY <1>6, <2>2 DEF Over
  <2>4. Root(i) = i - 2  BY <1>6 DEF Root
  <2> QED  BY <1>1, <1>2, <1>6, <2>1, <2>3, <2>4
<1>7. stack[i - 1].fn = "user" \/ (stack[i - 1].fn \in {"timesync", "clock_gettime"}
                                    /\ stack[i - 1].at = "done")
  BY <1>3 DEF Over
<1> QED  BY <1>4, <1>5, <1>6, <1>7

(* No two exchanges have the same root: one call of the application is     *)
(* under way in a context, and one call holds the mutex.                   *)
LEMMA OneExchangeEach ==
    ASSUME SyncInv, NEW i \in 1..Depth, NEW j \in 1..Depth,
           stack[i].fn = "sync", stack[j].fn = "sync", Root(i) = Root(j)
    PROVE  i = j
<1>1. Depth \in Nat /\ i > 1 /\ j > 1  BY Frames, Roots DEF SyncInv
<1>2. CASE Root(i) = 0
  <2>1. ASSUME NEW a \in 1..Depth, NEW b \in 1..Depth, a > 1, b > 1, a < b,
               stack[b - 1].fn = "clock_gettime", Holds(stack[a - 1]), Holds(stack[b - 1])
        PROVE  FALSE
    <3>1. b - 1 \in 1..Depth /\ a - 1 \in 1..((b - 1) - 1)  BY <1>1, <2>1
    <3>2. stack[b - 1].at # "read"  BY <2>1 DEF Holds
    <3> QED  BY <2>1, <3>1, <3>2 DEF SyncInv, Exclusive
  <2>2. /\ stack[i - 1].fn = "clock_gettime" /\ Holds(stack[i - 1])
        /\ stack[j - 1].fn = "clock_gettime" /\ Holds(stack[j - 1])
    BY <1>2, Roots
  <2>3. ~(i < j) /\ ~(j < i)  BY <1>1, <2>1, <2>2
  <2> QED  BY <1>1, <2>3
<1>3. CASE Root(i) # 0
  <2> DEFINE r == Root(i)
  <2>1. /\ r \in 0..Depth /\ (i = r + 1 \/ i = r + 2) /\ (j = r + 1 \/ j = r + 2)
        /\ i = r + 2 => stack[r + 1].fn = "timesync"
        /\ j = r + 2 => stack[r + 1].fn = "timesync"
    BY <1>3, Roots
  <2> HIDE DEF r
  <2> QED  BY <1>1, <2>1
<1> QED  BY <1>2, <1>3

LEMMA Bounded == ASSUME SyncInv PROVE RecursionStops
<1> DEFINE S == {i \in 1..Depth : stack[i].fn = "sync" /\ stack[i].at # "socket"}
           W == {i \in 0..Depth : i = 0 \/ stack[i].fn = "user"}
           f == [i \in S |-> Root(i)]
<1>1. Depth \in Nat /\ Depth >= 1  BY Frames DEF SyncInv
<1>2. f \in Injection(S, W)
  <2>1. f \in [S -> W]  BY Roots
  <2>2. \A i, j \in S : f[i] = f[j] => i = j  BY OneExchangeEach
  <2>3. IsInjective(f)  BY <2>2 DEF IsInjective
  <2> QED  BY <2>1, <2>3 DEF Injection
<1>3. Cardinality({0, 1}) = 2 /\ IsFiniteSet({0, 1})
  <2>1. IsFiniteSet({0}) /\ Cardinality({0}) = 1  BY FS_Singleton, Zenon
  <2>2. {0, 1} = {0} \cup {1} /\ 1 \notin {0}  OBVIOUS
  <2>3. IsFiniteSet({0} \cup {1}) /\ Cardinality({0} \cup {1}) = Cardinality({0}) + 1
    BY <2>1, <2>2, FS_AddElement
  <2> QED  BY <2>1, <2>2, <2>3
<1>4. CASE ~InHandler
  <2>1. W \subseteq {0, 1}  BY <1>1, <1>4 DEF InHandler
  <2>2. IsFiniteSet(W) /\ Cardinality(W) <= 2  BY <1>3, <2>1, FS_Subset
  <2>3. Cardinality(W) \in Nat /\ Cardinality(S) \in Nat /\ Cardinality(S) <= Cardinality(W)
    BY <1>2, <2>2, FS_Injection, FS_CardinalityType
  <2>4. Cardinality(S) = Sockets  BY DEF Sockets
  <2> HIDE DEF S, W, f
  <2>5. Cardinality(S) <= 2  BY <2>2, <2>3
  <2> QED  BY <1>4, <2>4, <2>5 DEF RecursionStops
<1>5. CASE InHandler
  <2>1. PICK h \in 2..Depth : stack[h].fn = "user"  BY <1>5 DEF InHandler
  <2>2. W \subseteq {0, 1} \cup {h}
    <3>1. \A i \in 2..Depth : stack[i].fn = "user" => i = h  BY <2>1 DEF SyncInv, Shape
    <3> QED  BY <1>1, <3>1
  <2>3. IsFiniteSet({0, 1} \cup {h}) /\ Cardinality({0, 1} \cup {h}) <= 3
    BY <1>3, FS_AddElement
  <2>4. Cardinality({0, 1} \cup {h}) \in Nat  BY <2>3, FS_CardinalityType
  <2>5. IsFiniteSet(W) /\ Cardinality(W) <= Cardinality({0, 1} \cup {h})
    BY <2>2, <2>3, FS_Subset
  <2>6. Cardinality(W) \in Nat /\ Cardinality(S) \in Nat /\ Cardinality(S) <= Cardinality(W)
    BY <1>2, <2>5, FS_Injection, FS_CardinalityType
  <2>7. Cardinality(S) = Sockets  BY DEF Sockets
  <2> HIDE DEF S, W, f
  <2>8. Cardinality(S) <= 3  BY <2>3, <2>4, <2>5, <2>6
  <2> QED  BY <1>5, <2>7, <2>8 DEF RecursionStops
<1> QED  BY <1>4, <1>5

(* clock_gettime_mutex stops the recursion: with its socket each, at most  *)
(* two synchronisations are under way in one context and at most three     *)
(* with a signal handler, whatever the bound on steps.                     *)
THEOREM NestingIsBounded == Spec => []RecursionStops
  BY SyncInvariant, Bounded, PTL
=============================================================================
