----------------------------- MODULE W5100Stream -----------------------------
(***************************************************************************)
(* The bytes of one connection on the W5100: the ring buffers, recvfrom(), *)
(* send() and the poll hook of src/src/w5100_socket.c, the register access *)
(* of w5100_spi.c and the loops of poll.c and select.c.                    *)
(*                                                                         *)
(* The driver asks the chip how many bytes there are to read (RX_RSR) or   *)
(* how much room there is to write (TX_FSR), moves that many to or from    *)
(* the ring and tells the chip with RECV or SEND.  A register of 16 bits   *)
(* is read as two bytes in two SPI frames, the high byte first, while the  *)
(* chip counts on.  Pointers run freely modulo WIDTH and are masked to the *)
(* ring.  Bytes are named by their position in the stream.                 *)
(*                                                                         *)
(* The socket is CONNECTED, or ACCEPTED, until a call finds out that the   *)
(* peer has gone; what becomes of it then is in W5100Socket.  From then on *)
(* recvfrom() and send() set ENOTCONN and return 1, not -1: they report a  *)
(* byte that they have not moved.                                          *)
(***************************************************************************)
EXTENDS Integers, Sequences, FiniteSets

CONSTANTS
    SIZE,                  \* of a ring: get_rx_size(), get_tx_size()
    RADIX,                 \* values of one byte of a register
    WIDTH,                 \* values of a register
    Starts,                \* where the chip's pointers may start
    Lens,                  \* the lengths the application asks for
    Timeouts,              \* the time-outs it asks for; 0 is none (and, in
                           \* poll(), not to wait)
    MaxBytes,              \* bound: bytes in each direction, and how far
                           \* the return values are added up
    MaxTime                \* bound: where the clock ends

ASSUME RingAssumption ==
    /\ SIZE \in Nat \ {0} /\ WIDTH \in Nat /\ SIZE < WIDTH
    /\ \E m \in 1..WIDTH : WIDTH = SIZE * m
    /\ RADIX \in Nat \ {0}
    /\ Starts \subseteq 0..(WIDTH - 1)
ASSUME CallAssumption ==
    /\ Lens \subseteq Nat \ {0}
    /\ Timeouts \subseteq Nat
    /\ MaxBytes \in Nat
    /\ MaxTime \in Nat

VARIABLES
    rx, tx,                \* chip: the memory of the two rings
    rx_wr, tx_rd,          \* chip: where it writes what arrives, and where
                           \* it reads what it transmits
    RX_RD, TX_WR,          \* chip: the driver's ends, as of RECV and SEND
    sr,                    \* chip: status register
    now,                   \* CLOCK_MONOTONIC
    connected,             \* the driver's state of the socket
    call, step,            \* where the thread is
    nonblock,              \* O_NONBLOCK, as the call read it
    todo,                  \* bytes the call has still to transfer
    tend,                  \* when the call gives up
    tcurrent,              \* poll: the time before the tentative
    seen,                  \* the size register when its high byte was read
    p, n, buf,             \* start and length of a transfer; bytes moved
    asked, sets,           \* poll: events or saved fd_sets; fd_sets
    arrived, got,          \* history: bytes the peer sent; bytes that recv()
                           \* put into the application's buffers
    accepted, out,         \* history: bytes send() took; bytes the peer got
    returned,              \* history: the bytes that recv() and send() have
                           \* reported, the sums of what they returned
    told,                  \* history: what poll() said and is still true
    ready_at_end,          \* history: there was data when the time was over
    torn                   \* history: this tentative read 0 though there was
                           \* data

chipVars == <<rx, tx, rx_wr, tx_rd, RX_RD, TX_WR, sr>>
callVars == <<nonblock, todo, tend, tcurrent, seen, p, n, buf, asked, sets,
              ready_at_end, torn>>
streamVars == <<arrived, got, accepted, out, returned>>
vars == <<chipVars, now, connected, call, step, callVars, streamVars, told>>

Slots == 0..(SIZE - 1)
Pointers == 0..(WIDTH - 1)
Events == {"POLLIN", "POLLOUT"}
NEVER == MaxTime + 1               \* TIMESPEC_INFINITY, or no time-out

TypeOK ==
    /\ rx \in [Slots -> Nat] /\ tx \in [Slots -> Nat]
    /\ rx_wr \in Pointers /\ tx_rd \in Pointers
    /\ RX_RD \in Pointers /\ TX_WR \in Pointers /\ p \in Pointers
    /\ sr \in {"ESTABLISHED", "CLOSE_WAIT", "CLOSED"}
    /\ now \in Nat /\ tcurrent \in Nat /\ tend \in Nat /\ todo \in Nat /\ n \in Nat
    /\ seen \in Nat /\ arrived \in Nat /\ accepted \in Nat
    /\ connected \in BOOLEAN /\ nonblock \in BOOLEAN
    /\ call \in {"none", "recv", "send", "poll"}
    /\ step \in {"none", "clock", "status", "rhi", "rlo", "whi", "wlo", "copy",
                 "wait"}
    /\ returned \in [{"recv", "send"} -> Nat]
    /\ buf \in Seq(Nat) /\ got \in Seq(Nat) /\ out \in Seq(Nat)
    /\ asked \subseteq Events /\ sets \subseteq Events /\ told \subseteq Events
    /\ ready_at_end \in BOOLEAN /\ torn \in BOOLEAN

(* The connection is established; the chip has set the pointers. *)
Init ==
    /\ rx = [i \in Slots |-> 0] /\ tx = [i \in Slots |-> 0]
    /\ rx_wr \in Starts /\ RX_RD = rx_wr
    /\ tx_rd = rx_wr /\ TX_WR = tx_rd
    /\ sr = "ESTABLISHED"
    /\ now = 0
    /\ connected = TRUE
    /\ call = "none" /\ step = "none"
    /\ nonblock = FALSE /\ todo = 0 /\ tend = 0 /\ tcurrent = 0
    /\ seen = 0 /\ p = 0 /\ n = 0 /\ buf = <<>>
    /\ asked = {} /\ sets = {}
    /\ arrived = 0 /\ got = <<>> /\ accepted = 0 /\ out = <<>>
    /\ returned = [c \in {"recv", "send"} |-> 0]
    /\ told = {} /\ ready_at_end = FALSE /\ torn = FALSE

-----------------------------------------------------------------------------
(* The chip's registers, and how the driver reads and addresses them. *)

(* How far pointer a is ahead of pointer b. *)
Ahead(a, b) == (a - b) % WIDTH

Unread == Ahead(rx_wr, RX_RD)              \* RX_RSR
Unsent == Ahead(TX_WR, tx_rd)
Room == SIZE - Unsent                      \* TX_FSR

(* The register of a step that reads one. *)
Size == IF step \in {"rhi", "rlo"} THEN Unread ELSE Room

(* What two reads of one byte put together: the high byte of a, the low    *)
(* byte of b.                                                              *)
Join(a, b) == (a \div RADIX) * RADIX + (b % RADIX)

(* Mutant: a transfer that does not go on from the base of the ring but    *)
(* one byte after it.                                                      *)
PlacePastBase(q, i) ==
    LET offset == q % SIZE
        first == SIZE - offset
    IN  IF i < first THEN offset + i ELSE (i - first + 1) % SIZE

(* The place of byte i of a transfer that starts at pointer q: up to the   *)
(* end of the ring, then from its base.                                    *)
Place(q, i) ==
    LET offset == q % SIZE
        first == SIZE - offset
    IN  IF i < first THEN offset + i ELSE i - first

Least(a, b) == IF a <= b THEN a ELSE b

(* A call returns; its local variables are gone. *)
Return ==
    /\ call' = "none" /\ step' = "none"
    /\ nonblock' = FALSE /\ todo' = 0 /\ tend' = 0 /\ tcurrent' = 0
    /\ seen' = 0 /\ p' = 0 /\ n' = 0 /\ buf' = <<>>
    /\ asked' = {} /\ sets' = {} /\ ready_at_end' = FALSE /\ torn' = FALSE

(* It goes on at another step. *)
GoOn(s) == step' = s /\ UNCHANGED call

-----------------------------------------------------------------------------
(* Calls begin.  O_NONBLOCK comes from the descriptor of the listener (of  *)
(* the socket, if it is CONNECTED), which may be NULL: here any value.     *)

(* timeout_init: the end of a blocking call with a time-out. *)
timeout_init(nb, t) == IF nb \/ t = 0 THEN NEVER ELSE Least(now + t, NEVER)

Begin(c, s) ==
    /\ call = "none" /\ connected
    /\ call' = c /\ step' = s
    /\ UNCHANGED <<chipVars, now, connected, streamVars>>

(* Mutant: recvfrom() looks for a disconnection before it looks for data. *)
RecvStatusFirst(len, nb, t) ==
    /\ Begin("recv", "status")
    /\ nonblock' = nb /\ todo' = len /\ tend' = timeout_init(nb, t)
    /\ seen' = Unread
    /\ UNCHANGED <<tcurrent, p, n, buf, asked, sets, told, ready_at_end, torn>>

(* recvfrom() of a stream. *)
Recv(len, nb, t) ==
    /\ Begin("recv", "rhi")
    /\ nonblock' = nb /\ todo' = len /\ tend' = timeout_init(nb, t)
    /\ seen' = Unread
    /\ UNCHANGED <<tcurrent, p, n, buf, asked, sets, told, ready_at_end, torn>>

(* send(), and write(), of a stream. *)
Send(len, nb, t) ==
    /\ accepted + len <= MaxBytes
    /\ Begin("send", "whi")
    /\ nonblock' = nb /\ todo' = len /\ tend' = timeout_init(nb, t)
    /\ UNCHANGED <<tcurrent, seen, p, n, buf, asked, sets, told, ready_at_end, torn>>

(* poll() of this descriptor, or select() and pselect() with it in the     *)
(* sets: `end' is the time the wait is over.                               *)
Poll(events, end) ==
    /\ Begin("poll", "clock")
    /\ asked' = events /\ sets' = events /\ tend' = end
    /\ told' = {}
    /\ ready_at_end' = (end = now /\ Unread > 0)
    /\ UNCHANGED <<nonblock, todo, tcurrent, seen, p, n, buf, torn>>

-----------------------------------------------------------------------------
(* The size registers. *)

(* w5100_read_mem: the high byte, in a frame of its own. *)
ReadHigh ==
    /\ step \in {"rhi", "whi"}
    /\ seen' = Size
    /\ step' = IF step = "rhi" THEN "rlo" ELSE "wlo"
    /\ UNCHANGED <<chipVars, now, connected, call, nonblock, todo, tend, tcurrent,
                   p, n, buf, asked, sets, streamVars, told, ready_at_end, torn>>

(* Mutant: the low byte is read before the high byte. *)
LowByteFirst == Join(Size, seen)

(* Mutant: the low byte is shifted out of the result. *)
HighByteOnly == Join(seen, 0)

(* read_buf_len, write_buf_len: the low byte completes the value. *)
buf_len == Join(seen, Size)

(* read_buf, write_buf: with something to move, the pointer is read and    *)
(* the transfer begins; otherwise the call looks for a disconnection.      *)
StartTransfer ==
    /\ call \in {"recv", "send"} /\ step \in {"rlo", "wlo"}
    /\ \/ /\ buf_len > 0
          /\ n' = Least(todo, buf_len)
          /\ p' = IF call = "recv" THEN RX_RD ELSE TX_WR
          /\ buf' = <<>>
          /\ step' = "copy"
       \/ /\ buf_len = 0
          /\ step' = "status"
          /\ UNCHANGED <<n, p, buf>>
    /\ UNCHANGED <<chipVars, now, connected, call, nonblock, todo, tend, tcurrent,
                   seen, asked, sets, streamVars, told, ready_at_end, torn>>

-----------------------------------------------------------------------------
(* Transfers. *)

(* read_buf_sure: a byte is read from the ring. *)
CopyOut ==
    /\ call = "recv" /\ step = "copy" /\ Len(buf) < n
    /\ buf' = Append(buf, rx[Place(p, Len(buf))])
    /\ UNCHANGED <<chipVars, now, connected, call, step, nonblock, todo, tend,
                   tcurrent, seen, p, n, asked, sets, streamVars, told, ready_at_end, torn>>

(* write_buf_sure: a byte is written to the ring. *)
CopyIn ==
    /\ call = "send" /\ step = "copy" /\ Len(buf) < n
    /\ buf' = Append(buf, accepted + Len(buf) + 1)
    /\ tx' = [tx EXCEPT ![Place(p, Len(buf))] = accepted + Len(buf) + 1]
    /\ UNCHANGED <<rx, rx_wr, tx_rd, RX_RD, TX_WR, sr, now, connected, call, step,
                   nonblock, todo, tend, tcurrent, seen, p, n, asked, sets,
                   streamVars, told, ready_at_end, torn>>

(* Mutant: the pointer is not cut to 16 bits. *)
RecvNoWrap ==
    /\ call = "recv" /\ step = "copy" /\ Len(buf) = n
    /\ RX_RD' = p + n
    /\ got' = got \o buf
    /\ returned' = [returned EXCEPT !["recv"] = @ + n]
    /\ told' = told \ {"POLLIN"}
    /\ Return
    /\ UNCHANGED <<rx, tx, rx_wr, tx_rd, TX_WR, sr, now, connected, arrived,
                   accepted, out>>

(* read_buf_recv: RX_RD and RECV; recvfrom() returns. *)
read_buf_recv ==
    /\ call = "recv" /\ step = "copy" /\ Len(buf) = n
    /\ RX_RD' = (p + n) % WIDTH
    /\ got' = got \o buf
    /\ returned' = [returned EXCEPT !["recv"] = @ + n]
    /\ told' = told \ {"POLLIN"}
    /\ Return
    /\ UNCHANGED <<rx, tx, rx_wr, tx_rd, TX_WR, sr, now, connected, arrived,
                   accepted, out>>

(* write_buf_send: TX_WR and SEND; send() returns, or goes on with what is *)
(* left if it may block.                                                   *)
write_buf_send ==
    /\ call = "send" /\ step = "copy" /\ Len(buf) = n
    /\ TX_WR' = (p + n) % WIDTH
    /\ accepted' = accepted + n
    /\ returned' = [returned EXCEPT !["send"] = @ + n]
    /\ told' = told \ {"POLLOUT"}
    /\ \/ (nonblock \/ todo = n) /\ Return
       \/ /\ ~nonblock /\ todo # n
          /\ todo' = todo - n
          /\ GoOn("whi")
          /\ UNCHANGED <<nonblock, tend, tcurrent, seen, p, n, buf, asked, sets,
                         ready_at_end, torn>>
    /\ UNCHANGED <<rx, tx, rx_wr, tx_rd, RX_RD, sr, now, connected, arrived, got,
                   out>>

(* manage_disconnect finds the peer gone: DISCON, and the call fails. *)
Disconnect ==
    /\ call \in {"recv", "send"} /\ step = "status" /\ sr # "ESTABLISHED"
    /\ connected' = FALSE /\ sr' = "CLOSED"
    /\ told' = {}
    /\ Return
    /\ UNCHANGED <<rx, tx, rx_wr, tx_rd, RX_RD, TX_WR, now, streamVars>>

(* The peer is there: EAGAIN, or the clock is looked at. *)
StillConnected ==
    /\ call \in {"recv", "send"} /\ step = "status" /\ sr = "ESTABLISHED"
    /\ \/ nonblock /\ Return
       \/ ~nonblock /\ GoOn("wait") /\ UNCHANGED callVars
    /\ UNCHANGED <<chipVars, now, connected, streamVars, told>>

(* Mutant: the loop waits for the status to change, not for data. *)
WaitForStatus ==
    /\ call \in {"recv", "send"} /\ step = "wait"
    /\ \/ now > tend /\ Return
       \/ now <= tend /\ GoOn("status") /\ UNCHANGED callVars
    /\ UNCHANGED <<chipVars, now, connected, streamVars, told>>

(* timeout_ended: the call gives up, or tries again. *)
timeout_ended ==
    /\ call \in {"recv", "send"} /\ step = "wait"
    /\ \/ now > tend /\ Return
       \/ /\ now <= tend
          /\ GoOn(IF call = "recv" THEN "rhi" ELSE "whi")
          /\ UNCHANGED callVars
    /\ UNCHANGED <<chipVars, now, connected, streamVars, told>>

-----------------------------------------------------------------------------
(* poll() and select(): a tentative is the clock, the hook of the socket   *)
(* and the decision to try again.                                          *)

(* The time is read before the descriptors are looked at. *)
PollClock ==
    /\ call = "poll" /\ step = "clock"
    /\ tcurrent' = now
    /\ torn' = FALSE
    /\ step' = "status"
    /\ UNCHANGED <<chipVars, now, connected, call, nonblock, todo, tend, seen, p, n,
                   buf, asked, sets, streamVars, told, ready_at_end>>

(* w5100_sock_poll: POLLHUP, and nothing else, once the peer has gone. *)
PollStatus ==
    /\ call = "poll" /\ step = "status"
    /\ \/ sr # "ESTABLISHED" /\ Return
       \/ sr = "ESTABLISHED" /\ GoOn("rhi") /\ UNCHANGED callVars
    /\ UNCHANGED <<chipVars, now, connected, streamVars, told>>

(* Mutant: the hook does not look at the size of the receive buffer. *)
PollReadAny ==
    /\ call = "poll" /\ step = "rlo"
    /\ torn' = FALSE
    /\ step' = "whi"
    /\ UNCHANGED <<chipVars, now, connected, call, nonblock, todo, tend, tcurrent, seen,
                   p, n, buf, asked, sets, streamVars, told, ready_at_end>>

(* w5100_sock_poll_rw: FD_CLR, or the mask of poll_one, takes an event     *)
(* whose size is 0 out of the answer.                                      *)
PollRead ==
    /\ call = "poll" /\ step = "rlo"
    /\ sets' = IF buf_len > 0 THEN sets ELSE sets \ {"POLLIN"}
    /\ torn' = (seen > 0 /\ buf_len = 0)
    /\ step' = "whi"
    /\ UNCHANGED <<chipVars, now, connected, call, nonblock, todo, tend, tcurrent,
                   seen, p, n, buf, asked, streamVars, told, ready_at_end>>

(* Mutant: pselect does not put the sets back for the next tentative. *)
KeepSets(ready) == ready

(* The sets, or events, of the next tentative. *)
reinit(ready) == asked

(* The hook returns: something is ready, the time is over, or the next     *)
(* tentative begins.                                                       *)
PollWrite ==
    /\ call = "poll" /\ step = "wlo"
    /\ LET ready == IF buf_len > 0 THEN sets ELSE sets \ {"POLLOUT"} IN
        \/ (ready # {} \/ tcurrent >= tend) /\ Return /\ told' = ready
        \/ /\ ready = {} /\ tcurrent < tend
           /\ sets' = reinit(ready)
           /\ GoOn("clock")
           /\ UNCHANGED <<nonblock, todo, tend, tcurrent, seen, p, n, buf, asked, told,
                          ready_at_end, torn>>
    /\ UNCHANGED <<chipVars, now, connected, streamVars>>

-----------------------------------------------------------------------------
(* The chip, the peer and the clock. *)

(* A byte of the peer arrives, if the window is open. *)
Arrives ==
    /\ sr = "ESTABLISHED" /\ arrived < MaxBytes /\ Unread < SIZE
    /\ rx' = [rx EXCEPT ![rx_wr % SIZE] = arrived + 1]
    /\ rx_wr' = (rx_wr + 1) % WIDTH
    /\ arrived' = arrived + 1
    /\ UNCHANGED <<tx, tx_rd, RX_RD, TX_WR, sr, now, connected, call, step, callVars,
                   got, accepted, out, returned, told>>

(* A byte is transmitted and acknowledged. *)
Transmits ==
    /\ sr # "CLOSED" /\ Unsent > 0
    /\ out' = Append(out, tx[tx_rd % SIZE])
    /\ tx_rd' = (tx_rd + 1) % WIDTH
    /\ UNCHANGED <<rx, tx, rx_wr, RX_RD, TX_WR, sr, now, connected, call, step,
                   callVars, arrived, got, accepted, returned, told>>

PeerGoes ==
    /\ \/ sr = "ESTABLISHED" /\ sr' = "CLOSE_WAIT"
       \/ sr \in {"ESTABLISHED", "CLOSE_WAIT"} /\ sr' = "CLOSED"
    /\ UNCHANGED <<rx, tx, rx_wr, tx_rd, RX_RD, TX_WR, now, connected, call, step,
                   callVars, streamVars, told>>

Tick ==
    /\ now < MaxTime
    /\ now' = now + 1
    /\ ready_at_end' = IF call = "poll" /\ now' = tend THEN Unread > 0 ELSE ready_at_end
    /\ UNCHANGED <<chipVars, connected, call, step, nonblock, todo, tend, tcurrent,
                   seen, p, n, buf, asked, sets, streamVars, told, torn>>

(* recvfrom() or send() on the socket that was disconnected: ENOTCONN, but *)
(* they return 1.  Nothing is moved.                                       *)
NotConnected(c) ==
    /\ call = "none" /\ ~connected
    /\ returned' = [returned EXCEPT ![c] = Least(@ + 1, MaxBytes + 1)]
    /\ UNCHANGED <<chipVars, now, connected, call, step, callVars, arrived, got,
                   accepted, out, told>>

-----------------------------------------------------------------------------

Thread ==
    \/ ReadHigh \/ StartTransfer \/ CopyOut \/ CopyIn \/ read_buf_recv
    \/ write_buf_send \/ Disconnect \/ StillConnected \/ timeout_ended
    \/ PollClock \/ PollStatus \/ PollRead \/ PollWrite

Next ==
    \/ \E len \in Lens, nb \in BOOLEAN, t \in Timeouts : Recv(len, nb, t) \/ Send(len, nb, t)
    \/ \E events \in SUBSET Events, t \in Timeouts \cup {NEVER} :
            Poll(events, Least(now + t, NEVER))
    \/ Thread
    \/ Arrives \/ Transmits \/ PeerGoes \/ Tick
    \/ \E c \in {"recv", "send"} : NotConnected(c)

(* The thread executes, and the clock ticks. *)
Fairness == WF_vars(Thread) /\ WF_vars(Tick)

Spec == Init /\ [][Next]_vars
FairSpec == Spec /\ Fairness

-----------------------------------------------------------------------------
(* Properties. *)

Rx == INSTANCE ByteStream WITH Capacity <- SIZE, written <- arrived, read <- got
Tx == INSTANCE ByteStream WITH Capacity <- SIZE, written <- accepted, read <- out

(* What recv() puts into the application's buffers is the stream of the    *)
(* peer and what the peer gets is the stream given to send(), without a    *)
(* gap, a repetition or a stale byte of the ring, although sizes are read  *)
(* in two halves while the chip counts and pointers wrap at the ring and   *)
(* at 16 bits.  A byte that a call reports after the end of the connection *)
(* and does not move is in neither: ReturnsBytesMoved is about that.       *)
RxStream == Rx!Spec
TxStream == Tx!Spec

(* What the servers of the tests rely on when they serve a client while    *)
(* recv() returns more than 0: a call returns the number of the bytes that *)
(* it has moved.  Not so after the end of the connection.                  *)
ReturnsBytesMoved == returned["recv"] = Len(got) /\ returned["send"] = accepted

(* A recv() that finds no data and turns to the status of the connection   *)
(* overlooks bytes only if more of them arrived while it read the size:    *)
(* either there were none, or the two halves of the register do not belong *)
(* together.                                                               *)
OverlooksOnlyInRace ==
    call = "recv" /\ step = "status" => seen = 0 \/ Unread > seen

(* When a recv() ends the connection because the peer has gone, no byte    *)
(* that waited in the ring before that turn of its loop is thrown away,    *)
(* except in the race above.                                               *)
FinDropsNoOldData ==
    [][connected /\ ~connected' /\ call = "recv" => Unread = 0 \/ Unread > seen]_vars

(* What poll() or select() has reported stays true until the application   *)
(* uses it: data to read, or room to write.                                *)
ReadyStays ==
    /\ "POLLIN" \in told => Unread > 0
    /\ "POLLOUT" \in told => Room > 0

(* A poll() or select() for reading does not time out over data that had   *)
(* arrived when its time was over: the clock is read before the            *)
(* descriptors, and what a tentative clears is restored for the next one.  *)
(* A torn size is the exception.                                           *)
NoEarlyTimeout ==
    [][call = "poll" /\ step = "wlo" /\ call' = "none" /\ told' = {}
            => ~("POLLIN" \in asked /\ ready_at_end) \/ torn]_vars

(* A call that waits for what is there comes to an end: a recv() with data *)
(* in the ring, and a poll() or select() with a time-out.                  *)
WaitsEnd ==
    /\ (call = "recv" /\ Unread > 0) ~> (call = "none")
    /\ (call = "poll" /\ tend <= MaxTime) ~> (call = "none")
=============================================================================
