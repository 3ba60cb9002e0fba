-------------------------- MODULE W5100StreamProofs --------------------------
(***************************************************************************)
(* Proofs about W5100Stream for rings and registers of any size.           *)
(***************************************************************************)
EXTENDS W5100Stream, TLAPS

-----------------------------------------------------------------------------
(* Arithmetic of division with remainder. *)

LEMMA DivisionFacts ==
    ASSUME NEW N \in Nat \ {0}, NEW a \in Int
    PROVE  /\ a % N \in 0..(N - 1)
           /\ a \div N \in Int
           /\ a = N * (a \div N) + (a % N)
<1>1. a % N \in 0..(N - 1)
    BY SMT
<1>2. a \div N \in Int
    BY SMT
<1>3. a = N * (a \div N) + (a % N)
    BY SMT
<1> QED BY <1>1, <1>2, <1>3

LEMMA TimesAssociative ==
    ASSUME NEW x \in Int, NEW y \in Int, NEW z \in Int
    PROVE  (x * y) * z = x * (y * z)
BY SMT

(* Quotient and remainder are unique. *)
LEMMA DivisionUnique ==
    ASSUME NEW N \in Nat \ {0}, NEW q1 \in Int, NEW q2 \in Int,
           NEW r1 \in 0..(N - 1), NEW r2 \in 0..(N - 1),
           N * q1 + r1 = N * q2 + r2
    PROVE  q1 = q2 /\ r1 = r2
<1>1. ASSUME q1 < q2 PROVE FALSE
    <2>1. N * (q2 - q1) >= N BY <1>1, SMT
    <2> QED BY <2>1, SMT
<1>2. ASSUME q2 < q1 PROVE FALSE
    <2>1. N * (q1 - q2) >= N BY <1>2, SMT
    <2> QED BY <2>1, SMT
<1> QED BY <1>1, <1>2, SMT

LEMMA ModIs ==
    ASSUME NEW N \in Nat \ {0}, NEW a \in Int, NEW q \in Int, NEW r \in 0..(N - 1),
           a = N * q + r
    PROVE  a % N = r
BY DivisionFacts, DivisionUnique, SMT

(* Adding a multiple of the divisor does not change the remainder. *)
LEMMA ModShift ==
    ASSUME NEW N \in Nat \ {0}, NEW a \in Int, NEW m \in Int
    PROVE  (a + N * m) % N = a % N
<1>1. /\ a % N \in 0..(N - 1)
      /\ a \div N \in Int
      /\ a = N * (a \div N) + (a % N)
    BY DivisionFacts
<1> DEFINE b == a + N * m
           q == (a \div N) + m
<1>2. b = N * q + (a % N) /\ b \in Int /\ q \in Int
    BY <1>1, SMT
<1> HIDE DEF b, q
<1>3. b % N = a % N
    BY <1>1, <1>2, ModIs
<1> QED BY <1>3 DEF b

(* Equal remainders are a multiple of the divisor apart. *)
LEMMA ModApart ==
    ASSUME NEW N \in Nat \ {0}, NEW a \in Int, NEW b \in Int,
           a < b, b - a < N
    PROVE  a % N # b % N
<1> SUFFICES ASSUME a % N = b % N PROVE FALSE
    OBVIOUS
<1>1. a = N * (a \div N) + (a % N) /\ a \div N \in Int /\ a % N \in 0..(N - 1)
    BY DivisionFacts
<1>2. b = N * (b \div N) + (b % N) /\ b \div N \in Int
    BY DivisionFacts
<1> DEFINE d == (b \div N) - (a \div N)
<1>3. b - a = N * d /\ d \in Int
    BY <1>1, <1>2, SMT
<1> HIDE DEF d
<1>4. CASE d >= 1
    <2>1. N * d >= N BY <1>3, <1>4, SMT
    <2> QED BY <2>1, <1>3, SMT
<1>5. CASE d <= 0
    <2>1. N * d <= 0 BY <1>3, <1>5, SMT
    <2> QED BY <2>1, <1>3, SMT
<1> QED BY <1>3, <1>4, <1>5, SMT

-----------------------------------------------------------------------------
(* Pointers and places in the ring. *)

(* The place of the k-th byte after pointer q. *)
SlotAt(q, k) == (q + k) % SIZE

LEMMA Sizes ==
    /\ SIZE \in Nat \ {0} /\ WIDTH \in Nat \ {0} /\ SIZE < WIDTH
    /\ RADIX \in Nat \ {0} /\ Starts \subseteq Pointers
    /\ MaxTime \in Nat /\ MaxBytes \in Nat
    /\ Lens \subseteq Nat \ {0} /\ Timeouts \subseteq Nat
BY RingAssumption, CallAssumption DEF Pointers

LEMMA SlotIn ==
    ASSUME NEW q \in Pointers, NEW k \in Int
    PROVE  SlotAt(q, k) \in Slots
<1>1. q + k \in Int BY Sizes DEF Pointers
<1> QED BY <1>1, Sizes, DivisionFacts DEF SlotAt, Slots

LEMMA SlotDistinct ==
    ASSUME NEW q \in Pointers, NEW j \in Int, NEW k \in Int,
           j # k, j - k < SIZE, k - j < SIZE
    PROVE  SlotAt(q, j) # SlotAt(q, k)
<1> DEFINE a == q + j
           b == q + k
<1>1. /\ a \in Int /\ b \in Int /\ a # b
      /\ a < b => b - a < SIZE
      /\ b < a => a - b < SIZE
    BY Sizes DEF Pointers
<1> HIDE DEF a, b
<1>2. a % SIZE # b % SIZE
    <2>1. SIZE \in Nat \ {0} BY Sizes
    <2>2. CASE a < b
        <3>1. b - a < SIZE BY <1>1, <2>2
        <3> QED BY <1>1, <2>1, <2>2, <3>1, ModApart
    <2>3. CASE b < a
        <3>1. a - b < SIZE BY <1>1, <2>3
        <3> QED BY <1>1, <2>1, <2>3, <3>1, ModApart
    <2> QED BY <1>1, <2>2, <2>3
<1> QED BY <1>2 DEF SlotAt, a, b

LEMMA WrapIn ==
    ASSUME NEW a \in Int
    PROVE  a % WIDTH \in Pointers
BY Sizes, DivisionFacts DEF Pointers

(* The ring divides the range of the pointers. *)
LEMMA SlotMoved ==
    ASSUME NEW q \in Pointers, NEW m \in Int, NEW k \in Int
    PROVE  SlotAt((q + m) % WIDTH, k) = SlotAt(q, m + k)
<1> DEFINE a == q + m
           b == a % WIDTH
<1>1. a \in Int /\ q \in Int /\ WIDTH \in Nat \ {0} /\ SIZE \in Nat \ {0}
    BY Sizes DEF Pointers
<1>2. b \in Int /\ a = WIDTH * (a \div WIDTH) + b /\ a \div WIDTH \in Int
    BY <1>1, DivisionFacts
<1>3. PICK w \in 1..WIDTH : WIDTH = SIZE * w
    BY RingAssumption
<1> DEFINE c == w * (a \div WIDTH)
<1>4. c \in Int
    BY <1>1, <1>2, <1>3
<1>5. WIDTH * (a \div WIDTH) = SIZE * c
    <2> DEFINE z == a \div WIDTH
    <2>1. z \in Int /\ w \in Int /\ SIZE \in Int
        BY <1>1, <1>2
    <2> HIDE DEF z
    <2>2. (SIZE * w) * z = SIZE * (w * z)
        BY <2>1, TimesAssociative
    <2> QED BY <2>2, <1>3 DEF z
<1> HIDE DEF c, b
<1>6. a + k = (b + k) + SIZE * c
    BY <1>1, <1>2, <1>4, <1>5
<1>7. ((b + k) + SIZE * c) % SIZE = (b + k) % SIZE
    <2> DEFINE x == b + k
    <2>1. x \in Int BY <1>2
    <2> HIDE DEF x
    <2>2. (x + SIZE * c) % SIZE = x % SIZE
        BY <2>1, <1>1, <1>4, ModShift
    <2> QED BY <2>2 DEF x
<1>8. q + (m + k) = a + k
    BY <1>1
<1> QED BY <1>6, <1>7, <1>8 DEF SlotAt, b

LEMMA PlaceIsSlot ==
    ASSUME NEW q \in Pointers, NEW i \in Nat, i < SIZE
    PROVE  Place(q, i) = SlotAt(q, i)
<1> DEFINE o == q % SIZE
           d == q \div SIZE
           a == q + i
<1>1. q \in Int /\ SIZE \in Nat \ {0}
    BY Sizes DEF Pointers
<1>2. o \in 0..(SIZE - 1) /\ d \in Int /\ q = SIZE * d + o
    BY <1>1, DivisionFacts
<1>3. a \in Int
    BY <1>1
<1> HIDE DEF o, d
<1>4. CASE i < SIZE - o
    <2>1. a = SIZE * d + (o + i) /\ o + i \in 0..(SIZE - 1)
        BY <1>1, <1>2, <1>4
    <2> HIDE DEF a
    <2>2. a % SIZE = o + i
        BY <2>1, <1>1, <1>2, <1>3, ModIs
    <2> QED BY <2>2, <1>4 DEF Place, SlotAt, a, o
<1>5. CASE ~(i < SIZE - o)
    <2>1. a = SIZE * (d + 1) + (i - (SIZE - o)) /\ i - (SIZE - o) \in 0..(SIZE - 1)
        BY <1>1, <1>2, <1>5, SMT
    <2> DEFINE e == d + 1
               r == i - (SIZE - o)
    <2>2. a = SIZE * e + r /\ r \in 0..(SIZE - 1) /\ e \in Int
        BY <2>1, <1>2
    <2> HIDE DEF a, e, r
    <2>3. a % SIZE = r
        BY <2>2, <1>1, <1>3, ModIs
    <2> QED BY <2>3, <1>5 DEF Place, SlotAt, a, o, r
<1> QED BY <1>4, <1>5

(* Distances between pointers. *)
LEMMA AheadIn ==
    ASSUME NEW a \in Pointers, NEW b \in Pointers
    PROVE  /\ Ahead(a, b) \in Nat /\ Ahead(a, b) < WIDTH
           /\ a = b => Ahead(a, b) = 0
<1> DEFINE d == a - b
<1>1. d \in Int /\ WIDTH \in Nat \ {0} /\ (a = b => d = 0)
    BY Sizes DEF Pointers
<1> HIDE DEF d
<1>2. d % WIDTH \in 0..(WIDTH - 1)
    BY <1>1, DivisionFacts
<1>3. d = 0 => d % WIDTH = 0
    BY <1>1, SMT
<1> QED BY <1>1, <1>2, <1>3 DEF Ahead, d

LEMMA AheadGrows ==
    ASSUME NEW a \in Pointers, NEW b \in Pointers, NEW m \in Nat,
           Ahead(a, b) + m < WIDTH
    PROVE  Ahead((a + m) % WIDTH, b) = Ahead(a, b) + m
<1> DEFINE x == a + m
           y == x % WIDTH
           e == x \div WIDTH
           d == a - b
           f == d \div WIDTH
           h == d % WIDTH
<1>1. a \in Int /\ b \in Int /\ x \in Int /\ d \in Int /\ WIDTH \in Nat \ {0}
    BY Sizes DEF Pointers
<1>2. y \in Int /\ e \in Int /\ x = WIDTH * e + y
    BY <1>1, DivisionFacts
<1>3. h \in 0..(WIDTH - 1) /\ f \in Int /\ d = WIDTH * f + h
    BY <1>1, DivisionFacts
<1>4. h = Ahead(a, b)
    BY DEF Ahead
<1> DEFINE k == f - e
           r == h + m
           z == y - b
<1>5. k \in Int /\ z \in Int /\ r \in 0..(WIDTH - 1)
    BY <1>1, <1>2, <1>3, <1>4
<1> HIDE DEF y, e, f, h
<1>6. z = WIDTH * k + r
    <2>1. WIDTH * k = WIDTH * f - WIDTH * e
        BY <1>1, <1>2, <1>3, SMT
    <2> QED BY <2>1, <1>1, <1>2, <1>3, SMT
<1> HIDE DEF k, r, z
<1>7. z % WIDTH = r
    BY <1>1, <1>5, <1>6, ModIs
<1> QED BY <1>7, <1>4 DEF Ahead, z, r, y

LEMMA AheadShrinks ==
    ASSUME NEW a \in Pointers, NEW b \in Pointers, NEW m \in Nat,
           m <= Ahead(a, b)
    PROVE  Ahead(a, (b + m) % WIDTH) = Ahead(a, b) - m
<1> DEFINE x == b + m
           y == x % WIDTH
           e == x \div WIDTH
           d == a - b
           f == d \div WIDTH
           h == d % WIDTH
<1>1. a \in Int /\ b \in Int /\ x \in Int /\ d \in Int /\ WIDTH \in Nat \ {0}
    BY Sizes DEF Pointers
<1>2. y \in Int /\ e \in Int /\ x = WIDTH * e + y
    BY <1>1, DivisionFacts
<1>3. h \in 0..(WIDTH - 1) /\ f \in Int /\ d = WIDTH * f + h
    BY <1>1, DivisionFacts
<1>4. h = Ahead(a, b)
    BY DEF Ahead
<1> DEFINE k == f + e
           r == h - m
           z == a - y
<1>5. k \in Int /\ z \in Int /\ r \in 0..(WIDTH - 1)
    BY <1>1, <1>2, <1>3, <1>4
<1> HIDE DEF y, e, f, h
<1>6. z = WIDTH * k + r
    <2>1. WIDTH * k = WIDTH * f + WIDTH * e
        BY <1>1, <1>2, <1>3, SMT
    <2> QED BY <2>1, <1>1, <1>2, <1>3, SMT
<1> HIDE DEF k, r, z
<1>7. z % WIDTH = r
    BY <1>1, <1>5, <1>6, ModIs
<1> QED BY <1>7, <1>4 DEF Ahead, z, r, y

(* The pointer that is ahead is the slot that far on. *)
LEMMA SlotAhead ==
    ASSUME NEW a \in Pointers, NEW b \in Pointers
    PROVE  SlotAt(b, Ahead(a, b)) = a % SIZE
<1> DEFINE d == a - b
           f == d \div WIDTH
           h == d % WIDTH
<1>1. a \in Int /\ b \in Int /\ d \in Int /\ WIDTH \in Nat \ {0}
        /\ SIZE \in Nat \ {0}
    BY Sizes DEF Pointers
<1>2. h \in Int /\ f \in Int /\ d = WIDTH * f + h
    BY <1>1, DivisionFacts
<1>3. PICK w \in 1..WIDTH : WIDTH = SIZE * w
    BY RingAssumption
<1> DEFINE c == w * f
           x == b + h
<1>4. c \in Int /\ x \in Int
    BY <1>1, <1>2
<1> HIDE DEF f, h
<1>5. WIDTH * f = SIZE * c
    <2>1. (SIZE * w) * f = SIZE * (w * f)
        BY <1>1, <1>2, TimesAssociative
    <2> QED BY <2>1, <1>3
<1> HIDE DEF c
<1>6. a = x + SIZE * c
    BY <1>1, <1>2, <1>4, <1>5
<1> HIDE DEF x
<1>7. (x + SIZE * c) % SIZE = x % SIZE
    BY <1>1, <1>4, ModShift
<1> QED BY <1>6, <1>7 DEF SlotAt, Ahead, x, h

LEMMA SlotAheadBy ==
    ASSUME NEW a \in Pointers, NEW b \in Pointers, NEW k \in Int
    PROVE  SlotAt(a, k) = SlotAt(b, Ahead(a, b) + k)
<1> DEFINE h == Ahead(a, b)
           x == (b + h) % WIDTH
<1>1. h \in Nat /\ h < WIDTH /\ b \in Int /\ a \in Int
    BY AheadIn, Sizes DEF Pointers
<1>2. x = a
    <2>1. Ahead(a, x) = 0
        <3>1. Ahead(a, (b + h) % WIDTH) = h - h
            BY <1>1, AheadShrinks
        <3> QED BY <3>1, <1>1
    <2>2. x \in Pointers
        BY <1>1, WrapIn
    <2> HIDE DEF x
    <2>3. x \in 0..(WIDTH - 1) /\ a \in 0..(WIDTH - 1) /\ WIDTH \in Nat \ {0}
        BY <2>2, Sizes DEF Pointers
    <2> DEFINE d == a - x
    <2>4. d \in Int /\ d = WIDTH * (d \div WIDTH) + (d % WIDTH) /\ d \div WIDTH \in Int
        BY <2>3, DivisionFacts
    <2>5. d % WIDTH = 0
        BY <2>1 DEF Ahead
    <2> DEFINE e == d \div WIDTH
    <2>6. d = WIDTH * e /\ e \in Int /\ d < WIDTH /\ d > -WIDTH
        BY <2>3, <2>4, <2>5
    <2> HIDE DEF d, e
    <2>7. CASE e >= 1
        <3>1. WIDTH * e >= WIDTH BY <2>3, <2>6, <2>7, SMT
        <3> QED BY <3>1, <2>3, <2>4, <2>6
    <2>8. CASE e <= -1
        <3>1. WIDTH * e <= -WIDTH BY <2>3, <2>6, <2>8, SMT
        <3> QED BY <3>1, <2>3, <2>4, <2>6
    <2>9. CASE e = 0
        <3>1. d = 0 BY <2>3, <2>6, <2>9
        <3> QED BY <3>1, <2>3 DEF d
    <2> QED BY <2>6, <2>7, <2>8, <2>9
<1>3. SlotAt(x, k) = SlotAt(b, h + k)
    BY <1>1, SlotMoved
<1> QED BY <1>2, <1>3

(* A size that is put together of two halves, of which the second is not   *)
(* older, is no more than the second; it is 0 only if there was nothing or *)
(* something changed.                                                      *)
LEMMA JoinBound ==
    ASSUME NEW a \in Nat, NEW b \in Nat, a <= b
    PROVE  /\ Join(a, b) \in Nat
           /\ Join(a, b) <= b
           /\ Join(a, b) = 0 => a = 0 \/ a < b
<1> DEFINE qa == a \div RADIX
           ra == a % RADIX
           qb == b \div RADIX
           rb == b % RADIX
<1>1. RADIX \in Nat \ {0} /\ a \in Int /\ b \in Int
    BY Sizes
<1>2. ra \in 0..(RADIX - 1) /\ qa \in Int /\ a = RADIX * qa + ra
    BY <1>1, DivisionFacts
<1>3. rb \in 0..(RADIX - 1) /\ qb \in Int /\ b = RADIX * qb + rb
    BY <1>1, DivisionFacts
<1>4. Join(a, b) = qa * RADIX + rb
    BY DEF Join
<1> HIDE DEF qa, ra, qb, rb
<1>5. qa * RADIX = RADIX * qa
    BY <1>1, <1>2, SMT
<1>6. qa >= 0
    <2> SUFFICES ASSUME qa <= -1 PROVE FALSE
        BY <1>2
    <2>1. RADIX * qa <= -RADIX BY <1>1, <1>2, SMT
    <2> QED BY <2>1, <1>1, <1>2
<1>7. RADIX * qa <= RADIX * qb
    <2>1. CASE qa <= qb
        <3>1. RADIX * (qb - qa) >= 0 BY <1>1, <1>2, <1>3, <2>1, SMT
        <3>2. RADIX * (qb - qa) = RADIX * qb - RADIX * qa BY <1>1, <1>2, <1>3, SMT
        <3>3. RADIX * qb \in Int /\ RADIX * qa \in Int BY <1>1, <1>2, <1>3
        <3> QED BY <3>1, <3>2, <3>3
    <2>2. CASE qa >= qb + 1
        <3>1. RADIX * (qa - qb) >= RADIX BY <1>1, <1>2, <1>3, <2>2, SMT
        <3>2. RADIX * (qa - qb) = RADIX * qa - RADIX * qb BY <1>1, <1>2, <1>3, SMT
        <3>3. RADIX * qb \in Int /\ RADIX * qa \in Int BY <1>1, <1>2, <1>3
        <3> QED BY <3>1, <3>2, <3>3, <1>1, <1>2, <1>3
    <2> QED BY <2>1, <2>2, <1>2, <1>3
<1>8. RADIX * qa >= 0 /\ RADIX * qa \in Int
    BY <1>1, <1>2, <1>6, SMT
<1>9. RADIX * qb \in Int
    BY <1>1, <1>3
<1>10. a = b => rb = ra
    BY DEF ra, rb
<1> QED BY <1>1, <1>2, <1>3, <1>4, <1>5, <1>7, <1>8, <1>9, <1>10

-----------------------------------------------------------------------------
(* The inductive invariant. *)

(* Which steps belong to which call. *)
Where ==
    /\ call = "none" => step = "none"
    /\ call = "recv" => step \in {"rhi", "rlo", "copy", "status", "wait"} /\ todo > 0
    /\ call = "send" => step \in {"whi", "wlo", "copy", "status", "wait"} /\ todo > 0
    /\ call = "poll" => step \in {"clock", "status", "rhi", "rlo", "whi", "wlo"}

(* The receive ring holds the bytes that arrived and were not returned. *)
RxOK ==
    /\ Unread <= SIZE
    /\ arrived = Len(got) + Unread
    /\ \A k \in 0..(Unread - 1) : rx[SlotAt(RX_RD, k)] = Len(got) + k + 1

(* Bytes of a send() that are in the ring and not yet the chip's. *)
Moved == IF call = "send" /\ step = "copy" THEN Len(buf) ELSE 0

(* The transmit ring holds the bytes that were accepted and not sent, and  *)
(* those of the transfer under way.                                        *)
TxOK ==
    /\ Unsent + Moved <= SIZE
    /\ accepted = Len(out) + Unsent
    /\ \A k \in 0..(Unsent + Moved - 1) : tx[SlotAt(tx_rd, k)] = Len(out) + k + 1

(* A transfer is of no more than there is, and what it has read is what    *)
(* comes next.                                                             *)
CopyOK ==
    step = "copy" =>
        /\ n > 0 /\ n <= todo /\ Len(buf) <= n
        /\ call = "recv" => /\ p = RX_RD /\ n <= Unread
                            /\ \A i \in 1..Len(buf) : buf[i] = Len(got) + i
        /\ call = "send" => p = TX_WR /\ n <= Room

(* Sizes only grow between the reads of their halves. *)
SeenOK ==
    /\ step = "rlo" => seen <= Unread
    /\ step = "wlo" => seen <= Room

Inv == TypeOK /\ Where /\ RxOK /\ TxOK /\ CopyOK /\ SeenOK /\ OverlooksOnlyInRace

(* The sizes are natural numbers. *)
LEMMA SizesIn ==
    ASSUME TypeOK
    PROVE  /\ Unread \in Nat /\ Unread < WIDTH
           /\ Unsent \in Nat /\ Unsent < WIDTH
           /\ Moved \in Nat /\ Len(buf) \in Nat /\ Len(got) \in Nat /\ Len(out) \in Nat
           /\ TxOK => Room \in Nat /\ Room <= SIZE
<1>1. rx_wr \in Pointers /\ tx_rd \in Pointers /\ RX_RD \in Pointers
        /\ TX_WR \in Pointers
    BY DEF TypeOK
<1>2. /\ Unread \in Nat /\ Unread < WIDTH
      /\ Unsent \in Nat /\ Unsent < WIDTH
    BY <1>1, AheadIn DEF Unread, Unsent
<1>3. Len(buf) \in Nat /\ Len(got) \in Nat /\ Len(out) \in Nat
    BY DEF TypeOK
<1>4. Moved \in Nat
    BY <1>3 DEF Moved
<1> QED BY <1>2, <1>3, <1>4, Sizes DEF Room, TxOK

LEMMA InitInv == Init => Inv
<1> SUFFICES ASSUME Init PROVE Inv
    OBVIOUS
<1> USE Sizes
<1>1. rx_wr \in Pointers /\ 0 \in Pointers
    BY DEF Init, Pointers
<1>2. TypeOK
    <2>1. rx \in [Slots -> Nat] /\ tx \in [Slots -> Nat]
        BY DEF Init
    <2>2. buf \in Seq(Nat) /\ got \in Seq(Nat) /\ out \in Seq(Nat)
        BY DEF Init
    <2> QED BY <1>1, <2>1, <2>2 DEF Init, TypeOK
<1>3. Unread = 0 /\ Unsent = 0
    BY <1>1, AheadIn DEF Init, Unread, Unsent
<1>4. Where
    BY DEF Init, Where
<1>5. RxOK
    BY <1>3 DEF Init, RxOK
<1>6. TxOK
    BY <1>3 DEF Init, TxOK, Moved
<1> QED BY <1>2, <1>4, <1>5, <1>6 DEF Init, Inv, CopyOK, SeenOK, OverlooksOnlyInRace

(* What a size register gives is at most what there is. *)
LEMMA BufLen ==
    ASSUME Inv, step \in {"rlo", "wlo"}
    PROVE  /\ Size \in Nat
           /\ buf_len \in Nat /\ buf_len <= Size
           /\ buf_len = 0 => seen = 0 \/ seen < Size
<1>1. Unread \in Nat /\ Room \in Nat
    BY SizesIn DEF Inv
<1>2. seen \in Nat /\ Size \in Nat /\ seen <= Size
    BY <1>1 DEF Inv, SeenOK, Size, TypeOK
<1> QED BY <1>2, JoinBound DEF buf_len

(* Steps that leave a ring and its stream alone. *)
RxSame == UNCHANGED <<rx, rx_wr, RX_RD, arrived, got>>
TxSame == UNCHANGED <<tx, tx_rd, TX_WR, accepted, out>>

(* Adding to a return value. *)
LEMMA ReturnedIn ==
    ASSUME NEW f \in [{"recv", "send"} -> Nat], NEW m \in Nat
    PROVE  /\ [f EXCEPT !["recv"] = @ + m] \in [{"recv", "send"} -> Nat]
           /\ [f EXCEPT !["send"] = @ + m] \in [{"recv", "send"} -> Nat]
OBVIOUS

LEMMA RxKept ==
    ASSUME RxSame
    PROVE  Unread' = Unread /\ (RxOK => RxOK')
BY DEF RxSame, RxOK, Unread

LEMMA TxKept ==
    ASSUME TxSame
    PROVE  Unsent' = Unsent /\ Room' = Room /\ (Moved' = Moved /\ TxOK => TxOK')
BY DEF TxSame, TxOK, Unsent, Room

LEMMA EmptySeq == <<>> \in Seq(Nat)
OBVIOUS

LEMMA JoinedSeq ==
    ASSUME NEW s \in Seq(Nat), NEW t \in Seq(Nat)
    PROVE  s \o t \in Seq(Nat) /\ Len(s \o t) = Len(s) + Len(t)
OBVIOUS

LEMMA ReturnTypes ==
    ASSUME Return
    PROVE  /\ call' = "none" /\ step' = "none" /\ todo' = 0 /\ Moved' = 0
           /\ nonblock' \in BOOLEAN /\ todo' \in Nat /\ tend' \in Nat /\ tcurrent' \in Nat
           /\ seen' \in Nat /\ p' \in Pointers /\ n' \in Nat /\ buf' \in Seq(Nat)
           /\ asked' \subseteq Events /\ sets' \subseteq Events
           /\ ready_at_end' \in BOOLEAN /\ torn' \in BOOLEAN
<1>1. 0 \in Pointers
    BY Sizes DEF Pointers
<1>2. buf' \in Seq(Nat)
    BY EmptySeq DEF Return
<1>3. Moved' = 0
    BY DEF Return, Moved
<1> QED BY <1>1, <1>2, <1>3 DEF Return

LEMMA BeginInv ==
    ASSUME Inv,
           \/ \E len \in Lens, nb \in BOOLEAN, t \in Timeouts :
                Recv(len, nb, t) \/ Send(len, nb, t)
           \/ \E events \in SUBSET Events, t \in Timeouts \cup {NEVER} :
                Poll(events, Least(now + t, NEVER))
    PROVE  Inv'
<1> USE Sizes
<1>1. RxSame /\ TxSame
    BY DEF Recv, Send, Poll, Begin, RxSame, TxSame, chipVars, streamVars
<1>2. step' \in {"rhi", "whi", "clock"} /\ Moved = 0 /\ Moved' = 0
    BY DEF Recv, Send, Poll, Begin, Moved, Inv, Where
<1>3. RxOK' /\ TxOK'
    BY <1>1, <1>2, RxKept, TxKept DEF Inv
<1>4. Unread \in Nat
    BY SizesIn DEF Inv
<1>5. TypeOK'
    <2>1. nonblock' \in BOOLEAN /\ ready_at_end' \in BOOLEAN /\ torn' \in BOOLEAN
        BY Zenon DEF Recv, Send, Poll, Inv, TypeOK
    <2>2. /\ todo' \in Nat /\ tend' \in Nat /\ tcurrent' \in Nat /\ seen' \in Nat
          /\ p' \in Pointers /\ n' \in Nat /\ buf' \in Seq(Nat)
          /\ asked' \subseteq Events /\ sets' \subseteq Events /\ told' \subseteq Events
        <3> USE DEF Inv, TypeOK, timeout_init, Least, NEVER
        <3>1. CASE \E len \in Lens, nb \in BOOLEAN, t \in Timeouts : Recv(len, nb, t)
            BY <1>4, <3>1 DEF Recv
        <3>2. CASE \E len \in Lens, nb \in BOOLEAN, t \in Timeouts : Send(len, nb, t)
            BY <1>4, <3>2 DEF Send
        <3>3. CASE \E events \in SUBSET Events, t \in Timeouts \cup {NEVER} :
                        Poll(events, Least(now + t, NEVER))
            BY <1>4, <3>3 DEF Poll
        <3> QED  BY <3>1, <3>2, <3>3
    <2>3. /\ UNCHANGED <<rx, tx, rx_wr, tx_rd, RX_RD, TX_WR, sr, now, connected>>
          /\ UNCHANGED <<arrived, got, accepted, out, returned>>
          /\ call' \in {"recv", "send", "poll"}
        BY DEF Recv, Send, Poll, Begin, chipVars, streamVars
    <2> QED BY <1>2, <2>1, <2>2, <2>3 DEF Inv, TypeOK
<1>6. Where'
    BY DEF Recv, Send, Poll, Begin, Where
<1> QED BY <1>2, <1>3, <1>5, <1>6 DEF Inv, CopyOK, SeenOK, OverlooksOnlyInRace

LEMMA ReadHighInv ==
    ASSUME Inv, ReadHigh
    PROVE  Inv'
<1>1. RxSame /\ TxSame
    BY DEF ReadHigh, RxSame, TxSame, chipVars, streamVars
<1>2. step' \in {"rlo", "wlo"} /\ Moved = 0 /\ Moved' = 0
    BY DEF ReadHigh, Moved
<1>3. RxOK' /\ TxOK' /\ Unread' = Unread /\ Room' = Room
    BY <1>1, <1>2, RxKept, TxKept DEF Inv
<1>4. Unread \in Nat /\ Room \in Nat
    BY SizesIn DEF Inv
<1>5. TypeOK'
    BY <1>4 DEF ReadHigh, chipVars, streamVars, Inv, TypeOK, Size
<1>6. Where'
    BY DEF ReadHigh, Inv, Where
<1>7. SeenOK'
    BY <1>3, <1>4 DEF ReadHigh, Size, SeenOK
<1> QED BY <1>2, <1>3, <1>5, <1>6, <1>7 DEF Inv, CopyOK, OverlooksOnlyInRace

LEMMA StartTransferInv ==
    ASSUME Inv, StartTransfer
    PROVE  Inv'
<1>1. RxSame /\ TxSame
    BY DEF StartTransfer, RxSame, TxSame, chipVars, streamVars
<1>2. step' \in {"copy", "status"} /\ Moved = 0 /\ Moved' = 0
    BY DEF StartTransfer, Moved
<1>3. RxOK' /\ TxOK' /\ Unread' = Unread /\ Room' = Room
    BY <1>1, <1>2, RxKept, TxKept DEF Inv
<1>4. Unread \in Nat /\ Room \in Nat
    BY SizesIn DEF Inv
<1>5. /\ buf_len \in Nat /\ buf_len <= Size
      /\ buf_len = 0 => seen = 0 \/ seen < Size
    BY BufLen DEF StartTransfer
<1>6. /\ call = "recv" => Size = Unread
      /\ call = "send" => Size = Room
    BY DEF Inv, Where, Size, StartTransfer
<1>7. TypeOK'
    <2>1. n' \in Nat /\ p' \in Pointers
        BY <1>5 DEF StartTransfer, Inv, TypeOK, Least
    <2>2. buf' \in Seq(Nat)
        BY EmptySeq DEF StartTransfer, Inv, TypeOK
    <2> QED BY <1>2, <2>1, <2>2 DEF StartTransfer, chipVars, streamVars, Inv, TypeOK
<1>8. Where'
    BY DEF StartTransfer, Inv, Where
<1>9. CopyOK'
    BY <1>3, <1>4, <1>5, <1>6 DEF StartTransfer, CopyOK, Inv, Where, TypeOK, Least,
                                  chipVars, streamVars
<1>10. OverlooksOnlyInRace'
    BY <1>3, <1>4, <1>5, <1>6 DEF StartTransfer, OverlooksOnlyInRace, Inv, TypeOK
<1> QED BY <1>2, <1>3, <1>7, <1>8, <1>9, <1>10 DEF Inv, SeenOK

LEMMA CopyOutInv ==
    ASSUME Inv, CopyOut
    PROVE  Inv'
<1>1. RxSame /\ TxSame
    BY DEF CopyOut, RxSame, TxSame, chipVars, streamVars
<1>2. Moved = 0 /\ Moved' = 0
    BY DEF CopyOut, Moved
<1>3. RxOK' /\ TxOK' /\ Unread' = Unread /\ Room' = Room
    BY <1>1, <1>2, RxKept, TxKept DEF Inv
<1>4. Unread \in Nat /\ Len(buf) \in Nat /\ Len(got) \in Nat
    BY SizesIn DEF Inv
<1>5. /\ p = RX_RD /\ p \in Pointers /\ n \in Nat /\ n <= Unread /\ Unread <= SIZE
      /\ Len(buf) < n
    BY DEF Inv, CopyOK, CopyOut, RxOK, TypeOK
<1>6. Len(buf) \in 0..(Unread - 1) /\ Len(buf) < SIZE
    BY <1>4, <1>5, Sizes
<1>7. rx[Place(p, Len(buf))] = Len(got) + Len(buf) + 1
    BY <1>4, <1>5, <1>6, PlaceIsSlot DEF Inv, RxOK
<1>8. TypeOK'
    BY <1>4, <1>7 DEF CopyOut, chipVars, streamVars, Inv, TypeOK
<1>9. CopyOK'
    <2>1. /\ Len(buf') = Len(buf) + 1
          /\ \A i \in 1..Len(buf) : buf'[i] = buf[i]
          /\ buf'[Len(buf) + 1] = Len(got) + Len(buf) + 1
        BY <1>4, <1>7 DEF CopyOut, Inv, TypeOK
    <2>2. \A i \in 1..Len(buf) : buf[i] = Len(got) + i
        BY DEF Inv, CopyOK, CopyOut
    <2>3. \A i \in 1..Len(buf') : buf'[i] = Len(got) + i
        <3> TAKE i \in 1..Len(buf')
        <3>1. CASE i \in 1..Len(buf)
            BY <3>1, <2>1, <2>2
        <3>2. CASE i = Len(buf) + 1
            BY <3>2, <2>1, <1>4
        <3> QED BY <3>1, <3>2, <2>1, <1>4
    <2>4. /\ step' = "copy" /\ call' = "recv" /\ p' = RX_RD' /\ n' = n
          /\ n > 0 /\ n <= todo /\ todo' = todo /\ got' = got
        BY <1>5 DEF CopyOut, chipVars, streamVars, Inv, CopyOK
    <2> QED BY <2>1, <2>3, <2>4, <1>3, <1>4, <1>5 DEF CopyOK
<1> QED BY <1>3, <1>8, <1>9 DEF CopyOut, Inv, Where, SeenOK, OverlooksOnlyInRace

LEMMA CopyInInv ==
    ASSUME Inv, CopyIn
    PROVE  Inv'
<1> DEFINE i == Len(buf)
           v == accepted + i + 1
<1>1. RxSame
    BY DEF CopyIn, RxSame, streamVars
<1>2. RxOK' /\ Unread' = Unread
    BY <1>1, RxKept DEF Inv
<1>3. Unsent \in Nat /\ i \in Nat /\ Len(out) \in Nat /\ SIZE \in Nat
    BY SizesIn, Sizes DEF Inv
<1>4. /\ p = TX_WR /\ p \in Pointers /\ tx_rd \in Pointers /\ n \in Nat
      /\ n <= SIZE - Unsent /\ i < n /\ Moved = i /\ accepted = Len(out) + Unsent
      /\ tx \in [Slots -> Nat]
    BY DEF Inv, CopyOK, CopyIn, TxOK, TypeOK, Moved, Room
<1>5. Place(p, i) = SlotAt(tx_rd, Unsent + i)
    <2>1. Place(p, i) = SlotAt(p, i)
        BY <1>3, <1>4, PlaceIsSlot
    <2>2. SlotAt(TX_WR, i) = SlotAt(tx_rd, Unsent + i)
        BY <1>3, <1>4, SlotAheadBy DEF Unsent, Inv, TypeOK
    <2> QED BY <2>1, <2>2, <1>4
<1>6. SlotAt(tx_rd, Unsent + i) \in Slots
    BY <1>3, <1>4, SlotIn
<1>7. UNCHANGED <<tx_rd, TX_WR, accepted, out>> /\ Unsent' = Unsent /\ Room' = Room
    BY DEF CopyIn, streamVars, Unsent, Room
<1>8. buf' \in Seq(Nat) /\ Len(buf') = i + 1 /\ Moved' = i + 1
    BY <1>3 DEF CopyIn, Inv, TypeOK, Moved
<1>9. TypeOK'
    <2>1. v \in Nat
        BY <1>3 DEF Inv, TypeOK
    <2>2. tx' = [tx EXCEPT ![Place(p, i)] = v]
        BY DEF CopyIn
    <2> HIDE DEF v
    <2>3. tx' \in [Slots -> Nat]
        BY <2>1, <2>2, <1>4
    <2> QED BY <2>3, <1>8 DEF CopyIn, streamVars, Inv, TypeOK
<1>10. TxOK'
    <2>1. ASSUME NEW k \in 0..(Unsent + i)
          PROVE  tx'[SlotAt(tx_rd, k)] = Len(out) + k + 1
        <3>1. SlotAt(tx_rd, k) \in Slots
            BY <1>4, SlotIn
        <3>2. CASE k = Unsent + i
            BY <3>2, <1>3, <1>4, <1>5, <1>6 DEF CopyIn
        <3>3. CASE k < Unsent + i
            <4>1. SlotAt(tx_rd, k) # SlotAt(tx_rd, Unsent + i)
                BY <3>3, <1>3, <1>4, SlotDistinct
            <4>2. tx'[SlotAt(tx_rd, k)] = tx[SlotAt(tx_rd, k)]
                BY <4>1, <1>4, <1>5, <3>1 DEF CopyIn
            <4>3. k \in 0..(Unsent + Moved - 1)
                BY <3>3, <1>3, <1>4
            <4> QED BY <4>2, <4>3 DEF Inv, TxOK
        <3> QED BY <3>2, <3>3, <1>3
    <2> QED BY <2>1, <1>3, <1>4, <1>7, <1>8 DEF TxOK
<1>11. CopyOK'
    BY <1>3, <1>4, <1>7, <1>8 DEF CopyIn, CopyOK, Inv, TypeOK, streamVars
<1> QED BY <1>2, <1>9, <1>10, <1>11 DEF CopyIn, Inv, Where, SeenOK, OverlooksOnlyInRace

LEMMA RecvInv ==
    ASSUME Inv, read_buf_recv
    PROVE  /\ Inv'
           /\ UNCHANGED arrived
           /\ n \in 1..(arrived - Len(got))
           /\ got' = got \o [i \in 1..n |-> Len(got) + i]
<1>1. TxSame /\ Moved = 0 /\ Moved' = 0
    BY ReturnTypes DEF read_buf_recv, TxSame, Moved
<1>2. TxOK'
    BY <1>1, TxKept DEF Inv
<1>3. /\ Unread \in Nat /\ Len(buf) \in Nat /\ Len(got) \in Nat
    BY SizesIn DEF Inv
<1>4. /\ p = RX_RD /\ RX_RD \in Pointers /\ rx_wr \in Pointers
      /\ n \in Nat /\ n > 0 /\ n <= Unread /\ Len(buf) = n
      /\ \A i \in 1..Len(buf) : buf[i] = Len(got) + i
      /\ buf \in Seq(Nat) /\ got \in Seq(Nat)
      /\ Unread <= SIZE /\ arrived = Len(got) + Unread
    BY DEF Inv, CopyOK, read_buf_recv, RxOK, TypeOK
<1>5. Unread' = Unread - n /\ RX_RD' = (RX_RD + n) % WIDTH
    BY <1>4, AheadShrinks DEF read_buf_recv, Unread
<1>6. RX_RD' \in Pointers
    BY <1>4, <1>5, WrapIn DEF Pointers
<1>7. got' \in Seq(Nat) /\ Len(got') = Len(got) + n
    BY <1>4, JoinedSeq DEF read_buf_recv
<1>8. RxOK'
    <2>1. ASSUME NEW k \in 0..(Unread - n - 1)
          PROVE  rx[SlotAt(RX_RD', k)] = Len(got) + n + k + 1
        <3>1. SlotAt(RX_RD', k) = SlotAt(RX_RD, n + k)
            BY <1>4, <1>5, SlotMoved
        <3>2. n + k \in 0..(Unread - 1)
            BY <1>3, <1>4
        <3>3. rx[SlotAt(RX_RD, n + k)] = Len(got) + (n + k) + 1
            BY <3>2 DEF Inv, RxOK
        <3> QED BY <3>1, <3>3, <1>3, <1>4
    <2>2. rx' = rx /\ arrived' = arrived
        BY DEF read_buf_recv
    <2> QED BY <2>1, <2>2, <1>3, <1>4, <1>5, <1>7, Sizes DEF RxOK
<1>9. TypeOK'
    <2>1. returned' \in [{"recv", "send"} -> Nat]
        BY <1>4, ReturnedIn DEF read_buf_recv, Inv, TypeOK
    <2> QED BY <1>6, <1>7, <2>1, ReturnTypes DEF read_buf_recv, Inv, TypeOK
<1>10. Where' /\ CopyOK' /\ SeenOK' /\ OverlooksOnlyInRace'
    BY ReturnTypes DEF read_buf_recv, Where, CopyOK, SeenOK, OverlooksOnlyInRace
<1>11. Inv'
    BY <1>2, <1>8, <1>9, <1>10 DEF Inv
<1>12. buf = [i \in 1..n |-> Len(got) + i]
    BY <1>4
<1>13. got' = got \o buf /\ UNCHANGED arrived
    BY DEF read_buf_recv
<1> QED BY <1>3, <1>4, <1>11, <1>12, <1>13

LEMMA SendInv ==
    ASSUME Inv, write_buf_send
    PROVE  /\ Inv'
           /\ UNCHANGED out
           /\ n \in 1..SIZE /\ accepted' = accepted + n
           /\ accepted + n - Len(out) <= SIZE
<1>1. RxSame
    BY DEF write_buf_send, RxSame
<1>2. RxOK' /\ Unread' = Unread
    BY <1>1, RxKept DEF Inv
<1>3. Unsent \in Nat /\ Len(out) \in Nat /\ SIZE \in Nat /\ WIDTH \in Nat /\ SIZE < WIDTH
    BY SizesIn, Sizes DEF Inv
<1>4. /\ p = TX_WR /\ TX_WR \in Pointers /\ tx_rd \in Pointers
      /\ n \in Nat /\ n > 0 /\ n <= SIZE - Unsent /\ Moved = n /\ n <= todo
      /\ todo \in Nat /\ accepted = Len(out) + Unsent /\ accepted \in Nat
    BY DEF Inv, CopyOK, write_buf_send, TxOK, TypeOK, Moved, Room
<1>5. Unsent' = Unsent + n /\ TX_WR' = (TX_WR + n) % WIDTH
    <2>1. Unsent + n < WIDTH
        BY <1>3, <1>4
    <2>2. Ahead((TX_WR + n) % WIDTH, tx_rd) = Ahead(TX_WR, tx_rd) + n
        BY <2>1, <1>4, AheadGrows DEF Unsent
    <2>3. TX_WR' = (TX_WR + n) % WIDTH /\ tx_rd' = tx_rd
        BY <1>4 DEF write_buf_send
    <2> QED BY <2>2, <2>3 DEF Unsent
<1>6. TX_WR' \in Pointers
    BY <1>4, <1>5, WrapIn DEF Pointers
<1>7. Moved' = 0
    BY ReturnTypes DEF write_buf_send, GoOn, Moved
<1>8. TxOK'
    <2>1. tx' = tx /\ tx_rd' = tx_rd /\ out' = out /\ accepted' = accepted + n
        BY DEF write_buf_send
    <2> QED BY <2>1, <1>3, <1>4, <1>5, <1>7 DEF Inv, TxOK
<1>9. TypeOK'
    <2>1. /\ accepted' \in Nat /\ told' \subseteq Events
          /\ UNCHANGED <<rx, tx, rx_wr, tx_rd, RX_RD, sr, now, connected, arrived, got, out>>
        BY <1>4 DEF write_buf_send, Inv, TypeOK
    <2>4. returned' \in [{"recv", "send"} -> Nat]
        BY <1>4, ReturnedIn DEF write_buf_send, Inv, TypeOK
    <2>2. CASE Return
        BY <2>1, <2>2, <2>4, <1>6, ReturnTypes DEF Inv, TypeOK
    <2>3. CASE ~Return
        <3>1. /\ todo' \in Nat /\ step' = "whi" /\ UNCHANGED call
              /\ UNCHANGED <<nonblock, tend, tcurrent, seen, p, n, buf, asked, sets,
                             ready_at_end, torn>>
            BY <2>3, <1>4 DEF write_buf_send, GoOn
        <3> QED BY <2>1, <2>4, <3>1, <1>6 DEF Inv, TypeOK
    <2> QED BY <2>2, <2>3
<1>10. Where' /\ CopyOK' /\ SeenOK' /\ OverlooksOnlyInRace'
    <2>1. CASE Return
        BY <2>1, ReturnTypes DEF Where, CopyOK, SeenOK, OverlooksOnlyInRace
    <2>2. CASE ~Return
        BY <2>2, <1>4 DEF write_buf_send, GoOn, Where, CopyOK, SeenOK,
                          OverlooksOnlyInRace
    <2> QED BY <2>1, <2>2
<1>11. Inv'
    BY <1>2, <1>8, <1>9, <1>10 DEF Inv
<1> QED BY <1>3, <1>4, <1>11 DEF write_buf_send

(* The steps of the thread that touch neither ring. *)
LEMMA QuietInv ==
    ASSUME Inv,
           Disconnect \/ StillConnected \/ timeout_ended \/ PollClock \/ PollStatus
             \/ PollRead \/ PollWrite
    PROVE  Inv'
<1>1. RxSame /\ TxSame
    BY DEF Disconnect, StillConnected, timeout_ended, PollClock, PollStatus, PollRead,
           PollWrite, RxSame, TxSame, chipVars, streamVars
<1>2. /\ Moved = 0 /\ Moved' = 0
      /\ step' \in {"none", "wait", "rhi", "whi", "status", "clock"}
      /\ step' = "none" => call' = "none"
      /\ step' # "none" => call' = call
      /\ step' = "status" => call' = "poll"
    BY ReturnTypes DEF Disconnect, StillConnected, timeout_ended, PollClock, PollStatus,
           PollRead, PollWrite, GoOn, Moved
<1>3. RxOK' /\ TxOK' /\ Unread' = Unread /\ Room' = Room
    BY <1>1, <1>2, RxKept, TxKept DEF Inv
<1>4. CopyOK' /\ SeenOK' /\ OverlooksOnlyInRace'
    BY <1>2 DEF CopyOK, SeenOK, OverlooksOnlyInRace
<1>5. CASE Return
    <2>1. TypeOK'
        BY <1>5, ReturnTypes DEF Disconnect, StillConnected, timeout_ended, PollClock,
               PollStatus, PollRead, PollWrite, GoOn, Inv, TypeOK, chipVars, streamVars
    <2>2. Where'
        BY <1>5, ReturnTypes DEF Where
    <2> QED BY <2>1, <2>2, <1>3, <1>4 DEF Inv
<1>6. CASE ~Return
    <2>1. TypeOK'
        BY <1>6 DEF Disconnect, StillConnected, timeout_ended, PollClock, PollStatus,
               PollRead, PollWrite, GoOn, Inv, TypeOK, chipVars, streamVars, callVars,
               reinit
    <2>2. Where'
        BY <1>6 DEF Disconnect, StillConnected, timeout_ended, PollClock, PollStatus,
               PollRead, PollWrite, GoOn, Inv, Where, callVars
    <2> QED BY <2>1, <2>2, <1>3, <1>4 DEF Inv
<1> QED BY <1>5, <1>6

LEMMA ArrivesInv ==
    ASSUME Inv, Arrives
    PROVE  /\ Inv'
           /\ UNCHANGED got
           /\ arrived' = arrived + 1 /\ arrived + 1 - Len(got) <= SIZE
           /\ Unread' = Unread + 1
<1>1. TxSame /\ Moved' = Moved
    BY DEF Arrives, TxSame, Moved, callVars
<1>2. TxOK' /\ Room' = Room
    BY <1>1, TxKept DEF Inv
<1>3. /\ Unread \in Nat /\ Len(got) \in Nat /\ SIZE \in Nat /\ WIDTH \in Nat /\ SIZE < WIDTH
      /\ Room \in Nat
    BY SizesIn, Sizes DEF Inv
<1>4. /\ RX_RD \in Pointers /\ rx_wr \in Pointers /\ rx \in [Slots -> Nat]
      /\ Unread < SIZE /\ arrived = Len(got) + Unread /\ arrived \in Nat
      /\ seen \in Nat
    BY DEF Inv, Arrives, RxOK, TypeOK
<1>5. Unread' = Unread + 1
    <2>1. Ahead(rx_wr, RX_RD) + 1 < WIDTH /\ 1 \in Nat
        BY <1>3, <1>4 DEF Unread
    <2>2. Ahead((rx_wr + 1) % WIDTH, RX_RD) = Ahead(rx_wr, RX_RD) + 1
        BY <2>1, <1>4, AheadGrows
    <2> QED BY <2>2 DEF Arrives, Unread
<1>6. rx_wr' \in Pointers
    BY <1>4, WrapIn DEF Arrives, Pointers
<1>7. rx_wr % SIZE = SlotAt(RX_RD, Unread)
    BY <1>4, SlotAhead DEF Unread
<1>8. rx' = [rx EXCEPT ![SlotAt(RX_RD, Unread)] = arrived + 1] /\ rx' \in [Slots -> Nat]
    <2> DEFINE v == arrived + 1
    <2>1. rx' = [rx EXCEPT ![SlotAt(RX_RD, Unread)] = v]
        BY <1>7 DEF Arrives
    <2>2. v \in Nat
        BY <1>4
    <2> HIDE DEF v
    <2>3. rx' \in [Slots -> Nat]
        BY <2>1, <2>2, <1>4
    <2> QED BY <2>1, <2>3 DEF v
<1>9. RxOK'
    <2>1. ASSUME NEW k \in 0..Unread
          PROVE  rx'[SlotAt(RX_RD, k)] = Len(got) + k + 1
        <3>1. SlotAt(RX_RD, k) \in Slots
            BY <1>4, SlotIn
        <3>2. CASE k = Unread
            BY <3>1, <3>2, <1>3, <1>4, <1>8
        <3>3. CASE k < Unread
            <4>1. SlotAt(RX_RD, k) # SlotAt(RX_RD, Unread)
                BY <3>3, <1>3, <1>4, SlotDistinct
            <4>2. rx'[SlotAt(RX_RD, k)] = rx[SlotAt(RX_RD, k)]
                BY <4>1, <3>1, <1>4, <1>8
            <4>3. k \in 0..(Unread - 1)
                BY <3>3, <1>3
            <4> QED BY <4>2, <4>3 DEF Inv, RxOK
        <3> QED BY <3>2, <3>3, <1>3
    <2>2. got' = got /\ RX_RD' = RX_RD /\ arrived' = arrived + 1
        BY DEF Arrives
    <2> QED BY <2>1, <2>2, <1>3, <1>4, <1>5 DEF RxOK
<1>10. TypeOK'
    <2>1. arrived' \in Nat
        BY <1>4 DEF Arrives
    <2>2. /\ UNCHANGED <<tx, tx_rd, RX_RD, TX_WR, sr, now, connected, call, step>>
          /\ UNCHANGED <<nonblock, todo, tend, tcurrent, seen, p, n, buf, asked, sets>>
          /\ UNCHANGED <<ready_at_end, torn, got, accepted, out, returned, told>>
        BY DEF Arrives, callVars
    <2> QED BY <1>6, <1>8, <2>1, <2>2 DEF Inv, TypeOK
<1>11. CopyOK' /\ SeenOK' /\ OverlooksOnlyInRace' /\ Where'
    BY <1>2, <1>3, <1>4, <1>5 DEF Arrives, Inv, TypeOK, callVars, CopyOK, SeenOK,
                                  OverlooksOnlyInRace, Where
<1> QED BY <1>2, <1>3, <1>4, <1>5, <1>9, <1>10, <1>11 DEF Inv, Arrives

LEMMA TransmitsInv ==
    ASSUME Inv, Transmits
    PROVE  /\ Inv'
           /\ UNCHANGED accepted
           /\ 1 <= accepted - Len(out)
           /\ out' = out \o [i \in 1..1 |-> Len(out) + i]
           /\ Room' = Room + 1
<1>1. RxSame
    BY DEF Transmits, RxSame
<1>2. RxOK' /\ Unread' = Unread
    BY <1>1, RxKept DEF Inv
<1>3. /\ Unsent \in Nat /\ Len(out) \in Nat /\ SIZE \in Nat /\ SIZE < WIDTH
      /\ Moved \in Nat /\ Room \in Nat
    BY SizesIn, Sizes DEF Inv
<1>4. /\ TX_WR \in Pointers /\ tx_rd \in Pointers /\ tx \in [Slots -> Nat]
      /\ Unsent > 0 /\ Unsent + Moved <= SIZE /\ accepted = Len(out) + Unsent
      /\ accepted \in Nat /\ out \in Seq(Nat) /\ seen \in Nat
    BY DEF Inv, Transmits, TxOK, TypeOK
<1>5. Unsent' = Unsent - 1
    <2>1. 1 <= Ahead(TX_WR, tx_rd) /\ 1 \in Nat
        BY <1>3, <1>4 DEF Unsent
    <2>2. Ahead(TX_WR, (tx_rd + 1) % WIDTH) = Ahead(TX_WR, tx_rd) - 1
        BY <2>1, <1>4, AheadShrinks
    <2> QED BY <2>2 DEF Transmits, Unsent
<1>6. tx_rd' \in Pointers
    BY <1>4, WrapIn DEF Transmits, Pointers
<1>7. tx[tx_rd % SIZE] = Len(out) + 1
    <2>1. tx_rd % SIZE = SlotAt(tx_rd, 0)
        BY <1>4 DEF SlotAt, Pointers
    <2>2. 0 \in 0..(Unsent + Moved - 1)
        BY <1>3, <1>4
    <2>3. tx[SlotAt(tx_rd, 0)] = Len(out) + 0 + 1
        BY <2>2 DEF Inv, TxOK
    <2> QED BY <2>1, <2>3, <1>3
<1>8. out' = Append(out, Len(out) + 1) /\ out' \in Seq(Nat) /\ Len(out') = Len(out) + 1
    BY <1>3, <1>4, <1>7 DEF Transmits
<1>9. Moved' = Moved /\ Room' = Room + 1
    BY <1>3, <1>5, Sizes DEF Transmits, Moved, Room, callVars
<1>10. TxOK'
    <2>1. ASSUME NEW k \in 0..(Unsent - 1 + Moved - 1)
          PROVE  tx[SlotAt(tx_rd', k)] = Len(out) + 1 + k + 1
        <3>1. SlotAt((tx_rd + 1) % WIDTH, k) = SlotAt(tx_rd, 1 + k)
            BY <1>4, SlotMoved
        <3>2. tx_rd' = (tx_rd + 1) % WIDTH
            BY DEF Transmits
        <3>3. 1 + k \in 0..(Unsent + Moved - 1)
            BY <1>3, <1>4
        <3>4. tx[SlotAt(tx_rd, 1 + k)] = Len(out) + (1 + k) + 1
            BY <3>3 DEF Inv, TxOK
        <3> QED BY <3>1, <3>2, <3>4, <1>3
    <2>2. tx' = tx /\ accepted' = accepted
        BY DEF Transmits
    <2> QED BY <2>1, <2>2, <1>3, <1>4, <1>5, <1>8, <1>9 DEF TxOK
<1>11. TypeOK'
    BY <1>6, <1>8 DEF Transmits, Inv, TypeOK, callVars
<1>12. CopyOK' /\ SeenOK' /\ OverlooksOnlyInRace' /\ Where'
    BY <1>2, <1>3, <1>4, <1>9 DEF Transmits, Inv, TypeOK, callVars, CopyOK, SeenOK,
                                  OverlooksOnlyInRace, Where
<1>13. Append(out, Len(out) + 1) = out \o [i \in 1..1 |-> Len(out) + i]
    BY <1>4
<1> QED BY <1>2, <1>3, <1>4, <1>8, <1>9, <1>10, <1>11, <1>12, <1>13 DEF Inv, Transmits

(* The peer goes, time passes, or nothing happens. *)
LEMMA OutsideInv ==
    ASSUME Inv, \/ PeerGoes \/ Tick \/ UNCHANGED vars
                \/ \E c \in {"recv", "send"} : NotConnected(c)
    PROVE  Inv'
<1>1. /\ RxSame /\ TxSame
      /\ UNCHANGED <<connected, call, step, nonblock, todo, tend, tcurrent, seen, p, n, buf>>
      /\ UNCHANGED <<asked, sets, told, torn>>
    BY DEF PeerGoes, Tick, NotConnected, RxSame, TxSame, vars, chipVars, callVars, streamVars
<1>2. RxOK' /\ TxOK' /\ Unread' = Unread /\ Room' = Room
    BY <1>1, RxKept, TxKept DEF Inv, Moved
<1>3. ready_at_end' \in BOOLEAN
    <2>1. ready_at_end \in BOOLEAN
        BY DEF Inv, TypeOK
    <2>2. CASE Tick
        <3>1. CASE call = "poll" /\ now' = tend
            <4>1. ready_at_end' = (Unread > 0)
                BY <2>2, <3>1 DEF Tick
            <4>2. (Unread > 0) = TRUE \/ (Unread > 0) = FALSE
                OBVIOUS
            <4> QED BY <4>1, <4>2, Zenon
        <3>2. CASE ~(call = "poll" /\ now' = tend)
            <4>1. ready_at_end' = ready_at_end
                BY <2>2, <3>2 DEF Tick
            <4> QED BY <2>1, <4>1, Zenon
        <3> QED BY <3>1, <3>2
    <2>3. CASE ~Tick
        <3>1. ready_at_end' = ready_at_end
            BY <2>3 DEF PeerGoes, NotConnected, vars, callVars
        <3> QED BY <2>1, <3>1, Zenon
    <2> QED BY <2>2, <2>3
<1>4. sr' \in {"ESTABLISHED", "CLOSE_WAIT", "CLOSED"} /\ now' \in Nat
    BY DEF PeerGoes, Tick, NotConnected, vars, chipVars, Inv, TypeOK
<1>5. TypeOK'
    <2>1. returned' \in [{"recv", "send"} -> Nat]
        <3>1. CASE PeerGoes \/ Tick \/ UNCHANGED vars
            BY <3>1 DEF PeerGoes, Tick, vars, streamVars, Inv, TypeOK
        <3>2. ASSUME NEW c \in {"recv", "send"}, NotConnected(c)
              PROVE  returned' \in [{"recv", "send"} -> Nat]
            <4>1. returned \in [{"recv", "send"} -> Nat] /\ returned[c] + 1 \in Nat
                BY DEF Inv, TypeOK
            <4>2. Least(returned[c] + 1, MaxBytes + 1) \in Nat
                BY <4>1, Sizes DEF Least
            <4> QED BY <3>2, <4>1, <4>2 DEF NotConnected
        <3> QED BY <3>1, <3>2
    <2> QED BY <1>1, <1>3, <1>4, <2>1 DEF RxSame, TxSame, Inv, TypeOK
<1>6. CopyOK' /\ SeenOK' /\ OverlooksOnlyInRace' /\ Where'
    BY <1>1, <1>2 DEF RxSame, TxSame, Inv, CopyOK, SeenOK, OverlooksOnlyInRace, Where
<1> QED BY <1>2, <1>5, <1>6 DEF Inv

(* Steps of the thread that belong to a call, by what they touch. *)
Quiet ==
    Disconnect \/ StillConnected \/ timeout_ended \/ PollClock \/ PollStatus
      \/ PollRead \/ PollWrite

Begins ==
    \/ \E len \in Lens, nb \in BOOLEAN, t \in Timeouts : Recv(len, nb, t) \/ Send(len, nb, t)
    \/ \E events \in SUBSET Events, t \in Timeouts \cup {NEVER} :
            Poll(events, Least(now + t, NEVER))

Outside ==
    \/ PeerGoes \/ Tick \/ UNCHANGED vars
    \/ \E c \in {"recv", "send"} : NotConnected(c)

LEMMA StepCases ==
    ASSUME [Next]_vars
    PROVE  \/ Begins \/ ReadHigh \/ StartTransfer \/ CopyOut \/ CopyIn
           \/ read_buf_recv \/ write_buf_send \/ Quiet \/ Arrives \/ Transmits \/ Outside
BY DEF Next, Thread, Begins, Quiet, Outside

LEMMA StepInv == Inv /\ [Next]_vars => Inv'
<1> SUFFICES ASSUME Inv, [Next]_vars PROVE Inv'
    OBVIOUS
<1>1. CASE Begins
    BY <1>1, BeginInv DEF Begins
<1>2. CASE Quiet
    BY <1>2, QuietInv DEF Quiet
<1>3. CASE Outside
    BY <1>3, OutsideInv DEF Outside
<1> QED BY <1>1, <1>2, <1>3, StepCases, ReadHighInv, StartTransferInv, CopyOutInv,
           CopyInInv, RecvInv, SendInv, ArrivesInv, TransmitsInv

(* The invariant holds throughout. *)
THEOREM StreamInvariant == Spec => []Inv
BY InitInv, StepInv, PTL DEF Spec

(* Every pointer stays within its register and every ring within its       *)
(* memory, and what a call holds has its type: read_buf_recv() and         *)
(* write_buf_send() cut the pointers to 16 bits.                           *)
THEOREM TypeCorrect == Spec => []TypeOK
<1>1. Inv => TypeOK
    BY DEF Inv
<1> QED BY <1>1, StreamInvariant, PTL

(* recvfrom() turns to manage_disconnect() with data in the ring only if   *)
(* the data arrived while it read RX_RSR.                                  *)
THEOREM OverlooksCorrect == Spec => []OverlooksOnlyInRace
<1>1. Inv => OverlooksOnlyInRace
    BY DEF Inv
<1> QED BY <1>1, StreamInvariant, PTL

-----------------------------------------------------------------------------
(* The streams. *)

LEMMA StepRx ==
    ASSUME Inv, [Next]_vars
    PROVE  [Rx!Next]_<<arrived, got>>
<1>1. CASE read_buf_recv
    <2>1. /\ UNCHANGED arrived /\ n \in 1..(arrived - Len(got))
          /\ got' = got \o [i \in 1..n |-> Len(got) + i]
        BY <1>1, RecvInv
    <2>2. Rx!Read
        BY <2>1 DEF Rx!Read, Rx!Following
    <2> QED BY <2>2 DEF Rx!Next
<1>2. CASE Arrives
    <2>1. UNCHANGED got /\ arrived' = arrived + 1 /\ arrived + 1 - Len(got) <= SIZE
        BY <1>2, ArrivesInv
    <2>2. 1 \in 1..SIZE
        BY Sizes
    <2>3. Rx!Write
        BY <2>1, <2>2 DEF Rx!Write
    <2> QED BY <2>3 DEF Rx!Next
<1>3. CASE ~(read_buf_recv \/ Arrives)
    BY <1>3, StepCases DEF Begins, Recv, Send, Poll, Begin, ReadHigh, StartTransfer,
        CopyOut, CopyIn, write_buf_send, Quiet, Disconnect, StillConnected, timeout_ended,
        PollClock, PollStatus, PollRead, PollWrite, Transmits, Outside, PeerGoes, Tick,
        NotConnected, vars, streamVars
<1> QED BY <1>1, <1>2, <1>3

LEMMA StepTx ==
    ASSUME Inv, [Next]_vars
    PROVE  [Tx!Next]_<<accepted, out>>
<1>1. CASE write_buf_send
    <2>1. /\ UNCHANGED out /\ n \in 1..SIZE /\ accepted' = accepted + n
          /\ accepted + n - Len(out) <= SIZE
        BY <1>1, SendInv
    <2>2. Tx!Write
        BY <2>1 DEF Tx!Write
    <2> QED BY <2>2 DEF Tx!Next
<1>2. CASE Transmits
    <2>1. /\ UNCHANGED accepted /\ 1 <= accepted - Len(out)
          /\ out' = out \o [i \in 1..1 |-> Len(out) + i]
        BY <1>2, TransmitsInv
    <2>2. 1 \in 1..(accepted - Len(out))
        BY <2>1 DEF Inv, TypeOK
    <2>3. Tx!Read
        BY <2>1, <2>2 DEF Tx!Read, Tx!Following
    <2> QED BY <2>3 DEF Tx!Next
<1>3. CASE ~(write_buf_send \/ Transmits)
    BY <1>3, StepCases DEF Begins, Recv, Send, Poll, Begin, ReadHigh, StartTransfer,
        CopyOut, CopyIn, read_buf_recv, Quiet, Disconnect, StillConnected, timeout_ended,
        PollClock, PollStatus, PollRead, PollWrite, Arrives, Outside, PeerGoes, Tick,
        NotConnected, vars, streamVars
<1> QED BY <1>1, <1>2, <1>3

(* What recv() returns is the stream of the peer, for rings and registers  *)
(* of any size, wherever the pointers start.                               *)
THEOREM RxImplements == Spec => RxStream
<1>1. Init => Rx!Init
    BY DEF Init, Rx!Init
<1>2. Inv /\ [Next]_vars => [Rx!Next]_<<arrived, got>>
    BY StepRx
<1> QED BY <1>1, <1>2, StreamInvariant, PTL DEF Spec, RxStream, Rx!Spec

(* What the peer gets is the stream given to send(). *)
THEOREM TxImplements == Spec => TxStream
<1>1. Init => Tx!Init
    BY DEF Init, Tx!Init
<1>2. Inv /\ [Next]_vars => [Tx!Next]_<<accepted, out>>
    BY StepTx
<1> QED BY <1>1, <1>2, StreamInvariant, PTL DEF Spec, TxStream, Tx!Spec

(* A recv() that ends the connection throws away nothing that waited       *)
(* before the turn of its loop, except in the race.                        *)
THEOREM FinCorrect == Spec => FinDropsNoOldData
<1>1. ASSUME Inv, [Next]_vars
      PROVE  [connected /\ ~connected' /\ call = "recv" => Unread = 0 \/ Unread > seen]_vars
    <2> SUFFICES ASSUME connected, ~connected', call = "recv"
                 PROVE  Unread = 0 \/ Unread > seen
        OBVIOUS
    <2>1. Disconnect
        BY <1>1, StepCases DEF Begins, Recv, Send, Poll, Begin, ReadHigh, StartTransfer,
            CopyOut, CopyIn, read_buf_recv, write_buf_send, Quiet, StillConnected,
            timeout_ended, PollClock, PollStatus, PollRead, PollWrite, Arrives, Transmits,
            Outside, PeerGoes, Tick, NotConnected, vars
    <2>2. seen = 0 \/ Unread > seen
        BY <1>1, <2>1 DEF Disconnect, Inv, OverlooksOnlyInRace
    <2>3. Unread \in Nat
        BY <1>1, SizesIn DEF Inv
    <2> QED BY <2>2, <2>3
<1> QED BY <1>1, StreamInvariant, PTL DEF Spec, FinDropsNoOldData

-----------------------------------------------------------------------------
(* poll() and select(). *)

(* What the hook keeps of the answer, and what was answered, is true. *)
ReadyOK ==
    /\ call = "poll" /\ step \in {"whi", "wlo"} /\ "POLLIN" \in sets => Unread > 0
    /\ ReadyStays

(* A tentative that began when the time was over has seen the data that    *)
(* was there by then.                                                      *)
TimeOK ==
    /\ tcurrent <= now
    /\ call = "poll" =>
        /\ ready_at_end => Unread > 0
        /\ step \in {"clock", "status", "rhi", "rlo"} => sets = asked
        /\ tcurrent >= tend /\ ready_at_end /\ step = "rlo" => seen > 0
        /\ tcurrent >= tend /\ ready_at_end /\ step \in {"whi", "wlo"}
                /\ "POLLIN" \in asked => "POLLIN" \in sets \/ torn

PollInv == ReadyOK /\ TimeOK

LEMMA InitPoll == Init => PollInv
BY DEF Init, PollInv, ReadyOK, ReadyStays, TimeOK

(* How the sizes change. *)
LEMMA SizesMove ==
    ASSUME Inv, [Next]_vars
    PROVE  /\ Unread \in Nat /\ Room \in Nat /\ Unread' \in Nat /\ Room' \in Nat
           /\ ~read_buf_recv => Unread' >= Unread
           /\ ~write_buf_send => Room' >= Room
<1>1. Inv'
    BY StepInv
<1>2. Unread \in Nat /\ Room \in Nat /\ Unread' \in Nat /\ Room' \in Nat
    <2>1. Unread \in Nat /\ Room \in Nat
        BY SizesIn DEF Inv
    <2>2. TypeOK' /\ TxOK'
        BY <1>1 DEF Inv
    <2>3. /\ rx_wr' \in Pointers /\ RX_RD' \in Pointers
          /\ tx_rd' \in Pointers /\ TX_WR' \in Pointers
          /\ Unsent' + Moved' <= SIZE /\ Len(buf') \in Nat
        BY <2>2 DEF TypeOK, TxOK
    <2>4. Unread' \in Nat /\ Unsent' \in Nat
        BY <2>3, AheadIn DEF Unread, Unsent
    <2>5. Moved' \in Nat /\ SIZE \in Nat
        BY <2>3, Sizes DEF Moved
    <2>6. ASSUME NEW u \in Nat, NEW m \in Nat, u + m <= SIZE PROVE SIZE - u \in Nat
        BY <2>5, <2>6
    <2>7. Room' \in Nat
        BY <2>3, <2>4, <2>5, <2>6, Zenon DEF Room
    <2> QED BY <2>1, <2>4, <2>7
<1>3. CASE Arrives
    <2>1. Unread' = Unread + 1 /\ TxSame
        BY <1>3, ArrivesInv DEF Arrives, TxSame
    <2> QED BY <2>1, <1>2, TxKept
<1>4. CASE Transmits
    <2>1. Room' = Room + 1 /\ RxSame
        BY <1>4, TransmitsInv DEF Transmits, RxSame
    <2> QED BY <2>1, <1>2, RxKept
<1>5. CASE ~(Arrives \/ Transmits)
    <2>1. read_buf_recv \/ (rx_wr' = rx_wr /\ RX_RD' = RX_RD)
        BY <1>5, StepCases DEF Begins, Recv, Send, Poll, Begin, ReadHigh, StartTransfer,
            CopyOut, CopyIn, write_buf_send, Quiet, Disconnect, StillConnected,
            timeout_ended, PollClock, PollStatus, PollRead, PollWrite, Outside, PeerGoes,
            Tick, NotConnected, vars, chipVars
    <2>2. write_buf_send \/ (tx_rd' = tx_rd /\ TX_WR' = TX_WR)
        BY <1>5, StepCases DEF Begins, Recv, Send, Poll, Begin, ReadHigh, StartTransfer,
            CopyOut, CopyIn, read_buf_recv, Quiet, Disconnect, StillConnected,
            timeout_ended, PollClock, PollStatus, PollRead, PollWrite, Outside, PeerGoes,
            Tick, NotConnected, vars, chipVars
    <2>3. rx_wr' = rx_wr /\ RX_RD' = RX_RD => Unread' = Unread
        BY DEF Unread
    <2>4. tx_rd' = tx_rd /\ TX_WR' = TX_WR => Room' = Room
        BY DEF Room, Unsent
    <2> QED BY <1>2, <2>1, <2>2, <2>3, <2>4
<1> QED BY <1>3, <1>4, <1>5

LEMMA StepReady ==
    ASSUME Inv, PollInv, [Next]_vars
    PROVE  ReadyOK'
<1>1. /\ Unread \in Nat /\ Room \in Nat /\ Unread' \in Nat /\ Room' \in Nat
      /\ ~read_buf_recv => Unread' >= Unread
      /\ ~write_buf_send => Room' >= Room
    BY SizesMove
<1>2. CASE read_buf_recv
    <2>1. told' = told \ {"POLLIN"} /\ call' = "none"
        BY <1>2, ReturnTypes DEF read_buf_recv
    <2>2. ~write_buf_send
        BY <1>2 DEF read_buf_recv, write_buf_send
    <2> QED BY <2>1, <2>2, <1>1 DEF PollInv, ReadyOK, ReadyStays
<1>3. CASE write_buf_send
    <2>1. told' = told \ {"POLLOUT"} /\ call' # "poll"
        BY <1>3, ReturnTypes DEF write_buf_send, GoOn
    <2>2. ~read_buf_recv
        BY <1>3 DEF read_buf_recv, write_buf_send
    <2> QED BY <2>1, <2>2, <1>1 DEF PollInv, ReadyOK, ReadyStays
<1>4. CASE PollRead
    <2>1. buf_len \in Nat /\ buf_len <= Unread
        BY <1>4, BufLen DEF PollRead, Size
    <2>2. told' = told /\ ("POLLIN" \in sets' => Unread > 0)
        BY <1>1, <1>4, <2>1 DEF PollRead
    <2> QED BY <1>1, <1>4, <2>2 DEF PollInv, ReadyOK, ReadyStays, PollRead, read_buf_recv,
                write_buf_send
<1>5. CASE PollWrite
    <2>1. buf_len \in Nat /\ buf_len <= Room
        BY <1>5, BufLen DEF PollWrite, Size
    <2>2. ~read_buf_recv /\ ~write_buf_send
        BY <1>5 DEF PollWrite, read_buf_recv, write_buf_send
    <2>3. step' \notin {"whi", "wlo"}
        BY <1>5, ReturnTypes DEF PollWrite, GoOn
    <2>4. \/ told' = told
          \/ /\ "POLLIN" \in told' => "POLLIN" \in sets
             /\ "POLLOUT" \in told' => buf_len > 0
        BY <1>5, <2>1 DEF PollWrite
    <2>5. /\ "POLLIN" \in told' => Unread > 0
          /\ "POLLOUT" \in told' => Room > 0
        BY <1>5, <1>1, <2>1, <2>4 DEF PollWrite, PollInv, ReadyOK, ReadyStays
    <2> QED BY <1>1, <2>2, <2>3, <2>5 DEF ReadyOK, ReadyStays
<1>6. CASE ~(read_buf_recv \/ write_buf_send \/ PollRead \/ PollWrite)
    <2>1. told' = told \/ told' = {}
        BY <1>6, StepCases DEF Begins, Recv, Send, Poll, Begin, ReadHigh, StartTransfer,
            CopyOut, CopyIn, Quiet, Disconnect, StillConnected, timeout_ended, PollClock,
            PollStatus, Arrives, Transmits, Outside, PeerGoes, Tick, NotConnected, vars
    <2>2. call' = "poll" /\ step' \in {"whi", "wlo"} =>
            call = "poll" /\ step \in {"whi", "wlo"} /\ sets' = sets
        BY <1>6, StepCases, ReturnTypes DEF Begins, Recv, Send, Poll, Begin, ReadHigh,
            StartTransfer, CopyOut, CopyIn, Quiet, Disconnect, StillConnected,
            timeout_ended, PollClock, PollStatus, Arrives, Transmits, Outside, PeerGoes,
            Tick, NotConnected, vars, callVars, GoOn, Inv, Where
    <2> QED BY <1>1, <1>6, <2>1, <2>2 DEF PollInv, ReadyOK, ReadyStays
<1> QED BY <1>2, <1>3, <1>4, <1>5, <1>6

LEMMA StepTime ==
    ASSUME Inv, PollInv, [Next]_vars
    PROVE  TimeOK'
<1>1. /\ Unread \in Nat /\ Room \in Nat /\ Unread' \in Nat /\ Room' \in Nat
      /\ ~read_buf_recv => Unread' >= Unread
    BY SizesMove
<1>2. /\ tcurrent \in Nat /\ now \in Nat /\ seen \in Nat /\ tcurrent <= now
      /\ tend \in Nat
    BY DEF Inv, TypeOK, PollInv, TimeOK
<1>3. tcurrent' <= now'
    <2>1. \/ tcurrent' = tcurrent /\ now' \in {now, now + 1}
          \/ tcurrent' \in {0, now} /\ now' = now
        BY StepCases, ReturnTypes DEF Begins, Recv, Send, Poll, Begin, ReadHigh,
            StartTransfer, CopyOut, CopyIn, read_buf_recv, write_buf_send, Quiet,
            Disconnect, StillConnected, timeout_ended, PollClock, PollStatus, PollRead,
            PollWrite, Arrives, Transmits, Outside, PeerGoes, Tick, NotConnected, vars,
            callVars, Return
    <2> QED BY <2>1, <1>2
<1> SUFFICES ASSUME call' = "poll" PROVE TimeOK'
    BY <1>3 DEF TimeOK
<1>4. CASE Begins
    BY <1>1, <1>3, <1>4 DEF Begins, Recv, Send, Poll, Begin, TimeOK, chipVars, Unread
<1>5. ASSUME ~Begins
      PROVE  call = "poll" /\ asked' = asked /\ tend' = tend /\ ~read_buf_recv
    BY <1>5, StepCases DEF ReadHigh,
        StartTransfer, CopyOut, CopyIn, read_buf_recv, write_buf_send, Quiet,
        Disconnect, StillConnected, timeout_ended, PollClock, PollStatus, PollRead,
        PollWrite, Arrives, Transmits, Outside, PeerGoes, Tick, NotConnected, vars,
        callVars, Return, GoOn
<1>6. CASE ReadHigh
    BY <1>1, <1>2, <1>3, <1>6 DEF ReadHigh, PollInv, TimeOK, Inv, Where, Size, chipVars,
        Unread
<1>7. CASE PollClock
    BY <1>1, <1>2, <1>3, <1>7 DEF PollClock, PollInv, TimeOK, chipVars, Unread
<1>8. CASE PollStatus
    BY <1>1, <1>2, <1>3, <1>8, ReturnTypes DEF PollStatus, GoOn, PollInv, TimeOK, chipVars,
        Unread, callVars
<1>9. CASE PollRead
    <2>1. /\ step = "rlo" /\ step' = "whi"
          /\ UNCHANGED <<call, asked, tend, tcurrent, seen, ready_at_end, now, rx_wr, RX_RD>>
          /\ buf_len > 0 => sets' = sets
          /\ torn' = (seen > 0 /\ ~(buf_len > 0))
        <3>1. buf_len \in Nat
            BY <1>9, BufLen DEF PollRead
        <3> QED BY <1>9, <3>1 DEF PollRead, chipVars
    <2>2. Unread' = Unread
        BY <2>1 DEF Unread
    <2>3. call = "poll" /\ sets = asked /\ (ready_at_end => Unread > 0)
        BY <1>9, <2>1 DEF PollRead, PollInv, TimeOK
    <2>4. tcurrent >= tend /\ ready_at_end => seen > 0
        BY <2>1, <2>3 DEF PollInv, TimeOK
    <2>5. tcurrent >= tend /\ ready_at_end /\ "POLLIN" \in asked => "POLLIN" \in sets' \/ torn'
        BY <2>1, <2>3, <2>4
    <2> QED BY <1>3, <2>1, <2>2, <2>3, <2>5 DEF TimeOK
<1>10. CASE PollWrite
    BY <1>1, <1>2, <1>3, <1>10, ReturnTypes DEF PollWrite, reinit, GoOn, PollInv, TimeOK,
        chipVars, Unread
<1>11. CASE Tick
    <2>1. /\ UNCHANGED <<call, step, asked, sets, tend, tcurrent, seen, torn, rx_wr, RX_RD>>
          /\ now' = now + 1
          /\ ready_at_end' = IF call = "poll" /\ now' = tend THEN Unread > 0 ELSE ready_at_end
        BY <1>11 DEF Tick, chipVars
    <2>2. Unread' = Unread
        BY <2>1 DEF Unread
    <2>3. tcurrent >= tend => now' # tend
        BY <2>1, <1>2
    <2>4. CASE now' = tend
        BY <1>3, <2>1, <2>2, <2>3, <2>4 DEF PollInv, TimeOK
    <2>5. CASE now' # tend
        <3>1. ready_at_end' = ready_at_end
            BY <2>1, <2>5
        <3> QED BY <1>3, <3>1, <2>1, <2>2 DEF PollInv, TimeOK
    <2> QED BY <2>4, <2>5
<1>12. CASE \/ Arrives \/ Transmits \/ PeerGoes \/ UNCHANGED vars
             \/ \E c \in {"recv", "send"} : NotConnected(c)
    <2>1. UNCHANGED <<call, step, asked, sets, tend, tcurrent, seen, ready_at_end, torn, now>>
        BY <1>12 DEF Arrives, Transmits, PeerGoes, NotConnected, vars, callVars
    <2>2. Unread' >= Unread
        BY <1>12, <1>1 DEF Arrives, Transmits, PeerGoes, NotConnected, vars, read_buf_recv,
            chipVars, Unread
    <2> QED BY <1>1, <1>2, <2>1, <2>2 DEF PollInv, TimeOK
<1> QED
    BY <1>4, <1>5, <1>6, <1>7, <1>8, <1>9, <1>10, <1>11, <1>12, StepCases
       DEF StartTransfer, CopyOut, CopyIn, write_buf_send, Quiet, Disconnect,
           StillConnected, timeout_ended, Outside

(* What poll() says keeps being true: for rings and registers of any size. *)
THEOREM ReadyCorrect == Spec => []ReadyStays
<1>1. Inv /\ PollInv /\ [Next]_vars => PollInv'
    BY StepReady, StepTime DEF PollInv
<1>2. PollInv => ReadyStays
    BY DEF PollInv, ReadyOK
<1> QED BY <1>1, <1>2, InitPoll, StreamInvariant, PTL DEF Spec

(* A poll() or select() does not time out over data that was there when    *)
(* its time was over, unless it read a torn size.                          *)
THEOREM TimeoutCorrect == Spec => NoEarlyTimeout
<1>1. Inv /\ PollInv /\ [Next]_vars => PollInv'
    BY StepReady, StepTime DEF PollInv
<1>2. ASSUME Inv, PollInv, [Next]_vars
      PROVE  [call = "poll" /\ step = "wlo" /\ call' = "none" /\ told' = {}
                => ~("POLLIN" \in asked /\ ready_at_end) \/ torn]_vars
    <2> SUFFICES ASSUME call = "poll", step = "wlo", call' = "none", told' = {},
                        "POLLIN" \in asked, ready_at_end
                 PROVE  torn
        OBVIOUS
    <2>1. PollWrite
        BY <1>2, StepCases DEF Begins, Recv, Send, Poll, Begin, ReadHigh, StartTransfer,
            CopyOut, CopyIn, read_buf_recv, write_buf_send, Quiet, Disconnect,
            StillConnected, timeout_ended, PollClock, PollStatus, PollRead, Arrives,
            Transmits, Outside, PeerGoes, Tick, NotConnected, vars
    <2>2. "POLLIN" \notin sets /\ tcurrent >= tend
        BY <2>1 DEF PollWrite, GoOn
    <2> QED BY <1>2, <2>2 DEF PollInv, TimeOK
<1> QED BY <1>1, <1>2, InitPoll, StreamInvariant, PTL DEF Spec, NoEarlyTimeout
=============================================================================
