# Verification of nucleo_tests in TLA+

`nucleo_tests` puts a small POSIX layer on an STM32 Nucleo board without an
operating system: signals, timers and clocks, files on an SD card, BSD sockets
on a W5100 Ethernet chip, and a DHCP client. This directory models that layer
from its source, checks it with TLC on small instances and proves the central
properties for every size with TLAPS. Sources are cited relative to the root of
the repository, which is called `src/` here: `src/src/signal.c` is
`src/signal.c` of the repository.

## 1. Inventory

One thread runs the application. What interrupts it: PendSV (delivers signals),
SysTick (advances the clock), the fault handlers. What runs beside it: the
W5100, which opens, closes and resets connections by itself, the card, and the
DHCP servers.

| Component | State | Operations | Interacts with | What is hard | What makes it correct |
|---|---|---|---|---|---|
| Signals (`signal.c`, `kill.c`, `raise.c`, `faults.c`) | queue of `SIGQUEUE_MAX` slots with order numbers, `procmask`, actions, PendSV pending bit | `kill`, `sigqueue`, `sigaction`, `sigprocmask`, `sigsuspend`, `sigtimedwait`, `pend_sv_handler`, faults | timers queue signals; handlers call everything | PendSV preempts the thread anywhere outside a critical section; slots are reused in any order | exactly-once, order per signal, no lost wake-up |
| Sockets (`w5100_socket.c`) | socket table, its two descriptor pointers, the chip's status register | `socket` ... `close`, polling loops | descriptor table, DHCP, DNS, SNTP | the peer acts between two reads of a register; listener and connection share one chip socket | tables and chip agree, nothing orphaned, calls return |
| Descriptor table (`file.c`, `syscalls.c`, `fcntl.c`) | `files[OPEN_MAX]` | `file_alloc`, `file_free`, `_close`, dispatch | shared by sockets, files and USART | entries outlive their close | one owner for each entry |
| FatFs glue (`fatfs.c`) | pool of FILs and directory streams | `open`, `close`, `opendir`, `readdir`, `seekdir`, ... | descriptor table, FatFs | opens that fail half-way, stale descriptors and DIR pointers | descriptors and pool stay paired |
| DHCP client (`dhcp_client.c`, `w5100_dhcp.c`) | binding, transaction, configuration of the chip | `dhcp_step`, `bootp_transaction`, `w5100_dhcp` | UDP socket, clock, chip registers | several servers; loss, repetition, delay; retries | bound only to a granted lease; bound again after faults |
| Timers (`timers.c`) | `sys_timers[]` | `timer_create`, `timer_settime`, `timer_delete`, `sys_timers_manage` | clock, signals, application functions | functions and handlers re-enter `timer_settime()` | what is due expires; a one-shot timer once, or once more for each re-entry |
| Clock (`clock_gettime_systick.c`, `clock_nanosleep_poll.c`, `timespec.c`) | two clocks of two words each, `timer_update_flag`, SysTick | `clock_gettime`, `clock_settime`, `clock_nanosleep`, `sys_tick_handler` | everything that waits | a tick between two words, or pending and not taken | a reading lies within its call, a setting takes, a sleep is not short |
| Time synchronisation (`timesync.c`, `sntp.c`, `rfc868_time.c`) | `next_sync`, `clock_gettime_mutex` | `timesync`, `timesync_now`, request, reply, conversion | clock, sockets | recursion through `clock_gettime`, handlers, late replies, fixed point | the recursion stops; the clock is set to the server's time |
| poll/select (`poll.c`, `select.c`) | none | `poll`, `select`, `pselect` | descriptor table, sockets | readiness is stale when used; a time-out races data | a ready descriptor stays ready; no early time-out |
| SD card (`sd_spi.c`, `sd_spi_diskio.c`) | `pdrv_data` | `disk_initialize`, `disk_read`, `disk_write` | FatFs | cards that fail half-way or are replaced | a transfer has done what it reports |
| W5100 buffers and registers (`w5100_socket.c`, `w5100_spi.c`) | rings, pointers, size registers | transfers of `recvfrom`, `send` | sockets, poll | two-byte registers read while they change; wrap-around | each direction is a byte stream |
| DNS (`getaddrinfo.c`, `gethostbyname.c`), `inet.c`, `stdio_usart.c` | little | lookups, conversions, byte I/O | sockets | message layout | parses what it is sent |

`PROJECT.json` lists the components with their status and the hazards line by
line.

## 2. Modules

| Module | Models | Used by |
|---|---|---|
| `SignalQueue` | what the signal queue promises | instance in `Signal` |
| `Signal` | signals, implementing `SignalQueue` | `MCSignal`, `SignalProofs` |
| `W5100Socket` | sockets, descriptors, the chip's socket state machine | `MCW5100Socket`, `W5100SocketProofs` |
| `ByteStream` | what one direction of a connection promises | two instances in `W5100Stream` |
| `W5100Stream` | the bytes of a connection: rings, registers, `recvfrom`, `send`, `poll`, `select`; implements `ByteStream` | `MCW5100Stream`, `W5100StreamProofs` |
| `DhcpClient` | DHCP client, servers, network, lease | `MCDhcpClient`, `DhcpClientProofs` |
| `Timers` | timer table, the expiry loop and what re-enters it | `MCTimers`, `TimersProofs` |
| `Clock` | clocks, SysTick, sleeps | `MCClock`, `ClockProofs` |
| `Timesync` | synchronisation over SNTP and its recursion | `MCTimesync`, `TimesyncProofs` |
| `SdCard` | driver and card | `MCStorage`, `StorageProofs` |
| `Fatfs` | descriptors and pool of the FatFs glue, with sockets as the other user of the table | `MCStorage`, `StorageProofs` |

### Signal

`signo`/`order` are the queue's slots (0 is free), `last_order`, `procmask`,
`actions` and `pendsv` the variables and register of those names. `pc` says
where the two contexts are: the thread and the handlers under
`pend_sv_handler()`. A critical section is one action (`sigqueue_info`,
`Chosen`/`Release`); everything outside one is cut at each shared access: a
`SIG_BLOCK` is `Block` (reads the mask) and `BlockStore` (writes it), unblocking
is `Unblock`/`Setmask`, `Store` and then `Raise`. PendSV preempts the thread
between any two actions. Fault handlers queue their signal at any moment.
`sent`, `consumed` and `raced` are history.

### W5100Socket

`used` ... `connection_data` are the fields of `struct w5100_socket`;
`isallocated`, `isopen`, `opaque` those of `files[]`. `sr` is the chip's status
register; the external actions (`ClientConnects`, `PeerCloses`, `PeerResets`,
...) change it whenever they like. A call that polls the register waits in `pc`
on socket `cur` and continues in the action named for its loop
(`ConnectReturns`, `ListenReturns`, `AcceptReturns`, `DisconnectDone`,
`CloseReturns`, `CloseConnDone`); all else of a call is one action, because only
the thread touches the tables. Ports and addresses are abstracted and payload is
in `W5100Stream`: here a transfer either moves data or finds none and looks for
a disconnection.

### ByteStream and W5100Stream

One connection from `CONNECTED` or `ACCEPTED` to the disconnection. `rx`, `tx`
are the chip's rings, `RX_RD`, `TX_WR` the pointers the driver writes with a
command, `rx_wr`, `tx_rd` the chip's own. Bytes are named by their position in
the stream, so that a lost, repeated or stale byte shows. A size register is read
in two steps, high byte and low byte (`ReadHigh`, then `buf_len` in the step that
uses it), and the chip may receive, transmit or disconnect between any two steps
of the thread. `step` walks through a turn of `recvfrom()` or `send()`: size,
copy, pointer and command; or size, status, clock and again. `poll()` and
`pselect()` share their actions: time before the tentative, status, the two
sizes, decision. O_NONBLOCK is any value, because the code reads it from the
listener's descriptor or, when that is closed, through NULL. `ByteStream` says
that what is read is a prefix of what is written and never more than the
capacity behind; `W5100Stream` implements it in both directions (`RxStream`,
`TxStream`). The streams have the bytes that are moved. What the calls report is
counted beside them in `returned`: on a connection that is over (`NotConnected`)
they report a byte that they have not moved. `told`, `torn`, `ready_at_end`,
`returned` and the streams are history.

### DhcpClient

`state` ... `options` are the binding, where `options` says whose gateway,
subnet and DNS server it has. A transaction is `BeginTransaction`, then
`SendRequest` and a reply or `Timeout` up to `DHCP_DISCOVER_RETRIES` times. A
new xid empties `wire` and `net`, because `bootp_check_reply` skips everything
older. `EndTransaction` includes `configure()` and the return to the caller.
Servers are external and conform to the protocol: an OFFER answers a DISCOVER,
an ACK or a NAK a REQUEST, and a server that is not addressed stays silent.
Incomplete replies, NAKs, losses, repetitions and failing calls of the socket
layer are faults, of which there are finitely many (`MaxFaults`).

### Timers

`stack` is the call stack: the thread, expiry functions called by `Expire`, and
a signal handler that may preempt anything; each frame is in user code or in a
phase of `sys_timers_manage()` (scan, check, expire, re-arm). `owed`, `shots`
and `reentered` are history: the timers due since a call began, the expiries of
a timer since it was set, and the calls of `timer_settime()` for another timer
that were made while it was armed and in the middle of its expiry. When a timer
is set while frames are in its expiry, these count as `reentered` too: they will
expire what was just set.

### Clock

`cvr` and `pending` are SysTick, `monotonic`, `realtime`, `timer_update_flag`
the variables of those names, `call` the local variables of the thread and of a
signal handler. A clock is two words and read or written word by word. SysTick
preempts the thread at once but not a handler under PendSV, which has the same
priority: there a tick may be pending while the counter has wrapped already, and
one that comes while another is pending is lost (`lost`). The unit of time is a
count of SysTick, taken as a whole number of nanoseconds. That is so at the 8
MHz of the STM32F103 (125 ns). For the STM32F411 of
`scripts/libopencm3.stm32f411re.mk`, at 16 MHz, the integer division in
`systick_fraction_to_timespec()` gives 62 ns for 62.5 and readings within a tick
run slow by one part in 125; this is not modelled. Sleeps are those that
`nanosleep()` and `sleep()` ask for: relative, on `CLOCK_MONOTONIC`, of any
number of seconds and nanoseconds. `TIMER_ABSTIME` and sleeps on
`CLOCK_REALTIME` have no caller in the repository and are left out.

### Timesync

`stack` has the calls: the application (in the thread and, once, in a signal
handler above anything), `clock_gettime`, `timesync` and an exchange with the
server, each with its next step and its time stamps. `clock_gettime` ends with
the test and the setting of `clock_gettime_mutex` as two steps. Times are whole
units, `UNITS` to a second; `TO_NTP` of them are what `timespec_to_ntp` keeps
(2^16 ns in the code, which does not divide a second) and `FROM_NTP` what
`ntp_to_timespec` keeps (2^-14 s). `lsrr` and both conversions round and cut as
the code does, the cut to 32 bits included.

`wire` holds requests and replies. The server may answer a request at any time,
also when the exchange has timed out, or never, and a reply may be read more than
once. `sntp_reply()` takes every reply that comes to the socket's port, and T1
from the reply. The port comes from `get_avail_port`, which looks at the register
`Sn_PORT` of the open sockets, the asking one included: a socket that has still the
port of the exchange before gets the other one, so a port comes back with the
exchange after the next (and with the next one on another chip socket), and with
it the late replies. `when` and `when1` are history: the server's time when the
time of a call and T1 were read.

What the conversions may lose of the time that is set (`Loss`) is one and a
quarter of `FROM_NTP` and a quarter of `TO_NTP`: a T2 in the last part of a second
is cut, not rounded, and loses up to a whole step.

### SdCard

`initialized` and `byte_addressable` are `pdrv_data`; `card`, `sdhc` and `mem`
the card. Each command and each block is one step, in which the card may answer
as it should, refuse or, taken out or not yet reset, not answer at all: the
polling loops of `sd_spi.c` have no time-out, so that the call hangs. Cards may be
taken out and replaced between any two steps, by one of another capacity class.
The answer to CMD58 is used without a look at its result: of a card that refuses
it the code believes that it has high capacity (`misread` if it has not).

### Fatfs

`pool` is `files[]` of `fatfs.c`, the other variables are `files[]` of `file.c`.
`fatfs_close` releases both entries and clears only the pool's, as the code
does. The application may pass any descriptor, closed or not, and any DIR
pointer it ever got (`dirps`). Card contents are a choice: a call of FatFs
succeeds or fails. `shared` and `strayed` are history.

## 3. Runs

| Run | Checks | Shows |
|---|---|---|
| `signal` | `TypeOK`, `ExactlyOnce`, `SameSignalInOrder`, `NoLostWakeup`, `QueueSpec`, `EventuallyTaken` | no interleaving of thread, handlers and faults loses, repeats or overtakes a signal; an unblocked one has somebody to deliver it, and is delivered; the slots implement `SignalQueue` |
| `socket` | `TypeOK`, `Ownership`, `NoOrphanSocket`, `ChipAgrees`, `CallsReturn`, `AcceptedClientKept` | tables, pointers and chip stay consistent in any sequence of calls and peer actions; nobody hangs up on an accepted client but `close()` of its descriptor; every wait for the chip ends, but for a missed connection |
| `dhcp` | `TypeOK`, `BoundIsGranted`, `ConfigOfOneServer`, `RequestNamesOffer`, `BoundAgain` | leases, configuration and requests are sound under faults, and the client recovers |
| `timers` | `TypeOK`, `NoneLeftDue`, `OneShotOnce` | nothing due is left when `timer_settime()` returns, and how many expiries re-entry can add |
| `stream` | `TypeOK`, `RxStream`, `TxStream`, `OverlooksOnlyInRace`, `FinDropsNoOldData`, `ReadyStays`, `NoEarlyTimeout`, `WaitsEnd` | torn sizes and wrapping pointers corrupt no stream; what a disconnection may drop; readiness is not stale; waits end |
| `clock` | `ReadsTime`, `SettimeTakes`, `NoShortSleep` | the flag protects readings and settings against ticks; how far behind a handler may be; sleeps across seconds are long enough |
| `timesync` | `RecursionStops`, `SyncedToServer` | the flag bounds the recursion even with a handler; how wrong the time that is set can be, late replies included |
| `storage` | `TypeOK`, `OneOwner`, `PoolSuffices`, `StrayNeedsSockets`; `StatusTrue`, `TransfersRight` | descriptors and pool agree, and what a closed descriptor can reach; results and status are true of the card that was initialised |

Runs in which the code contradicts its tests or comments (TLC finds the
violation):

| Run | Property | Finding |
|---|---|---|
| `socket_closed_fd` | `ClosedFdRejected` | `get_socket_from_fd()` does not test `isopen`; the `socket_errors` test expects `EBADF` |
| `socket_fd_leak` | `OpenFdCanBeClosed` | after a disconnection and `close()` of the listener, `close()` no longer finds the connection's descriptor, as in the `socket_nonblock` test |
| `stream_end` | `ReturnsBytesMoved` | after a disconnection `recv()` and `send()` return 1 with `ENOTCONN`; the `socket_server` test echoes for as long as `recv()` gives more than 0 |
| `timesync_wrap` | `StampIsT1` | `timespec_to_ntp()` loses a second in the last 19 microseconds of each; its comment says that the fraction stays below 2^32 |

Without a run of their own: `hw_timer_start()` is empty and
`sys_timers_manage()` is called from `timer_settime()` only, so an armed timer
expires when the application next sets one, where the `timers` test (line 98)
waits for its signals. A second server's OFFER read while REQUESTING
ends the DHCP transaction in that state, and the next request is sent from the
branch marked "should never get here" (`dhcp_client.c:473`).

Exceptions that are part of a passing property, because the code has the race:
`NoLostWakeup` and `EventuallyTaken` except the non-atomic `SIG_BLOCK`
(`raced`); `CallsReturn` except a connection that came and went between two
reads (`MissedConnection`), in `accept()` too, and an `accept()` to which nobody
comes; `BoundAgain` except a client caught in REQUESTING; `OneShotOnce` allows an
expiry more for each call that re-enters one; `OneOwner`
until a closed descriptor has reached a live file (`strayed`);
`OverlooksOnlyInRace`, `FinDropsNoOldData` and `NoEarlyTimeout` except sizes whose
halves were read around an arrival; `ReadsTime` allows a handler's reading to be
one tick behind and says nothing after a lost tick or of a reading interrupted by
a setting; `SyncedToServer` except an exchange between whose T1 and T4 the clock was
set (`OneScale`) and a T1 that rounds to the next second (`Wraps`), and its bound is
the time since the request that was answered, longer than the exchange if the
reply was late; the properties of the card until it is changed or an
initialisation fails, and `TransfersRight` until CMD58 is refused (`misread`).

Seen while modelling and stated by no document of the repository, so without a
run: `seekdir()` to an earlier location other than the start stops at the start
(`Seekdir` has it so); `opendir()` of a regular file returns a pointer to a FIL,
which `closedir()` cannot close; `sigsuspend()` does not wait. A connection that
outlives its listener has its calls read `status_flags` through the NULL
`fd_data`. `timesync_now()` whose first inner synchronisation fails and whose
second succeeds sets the clock wrong by as much as that moved it (`OneScale`).
The poll hook reports POLLHUP alone when the peer has closed, though there may
be data to read. `send()` returns 0 when it finds a disconnection. An SNTP reply
is not compared with the request. `pselect()` reads NULL sets.
`GET_SECTOR_COUNT` gives 4096 sectors, 2 MiB, where its comment says 2 GiB.
`w5100_read_reg2()` and `w5100_write_reg2()` shift too far and are not used.

### Bounds

- `signal`: two slots and two signals make the queue full, reuse slots and order
  two instances of one signal; `OrderMax` 3 lets a third signal meet each of
  these. Signal 2 is a fault and terminates by default.
- `socket`: two chip sockets and three descriptors: both tables fill, a listener
  and its connection coexist with another socket, entries are reused in a
  different order from that in which they were freed.
- `dhcp`: two servers are needed for a reply of the wrong one, three attempts
  are the code's own number, three faults suffice for a whole transaction to
  fail.
- `timers`: two timers, so that one is chosen before the other; three frames,
  so that a function inside an expiry is preempted by a handler; the clock ends
  at 2, enough for a timer to be due, expire and be due again; two re-entries of
  one expiry (`MaxReentries`), also one inside the other.
- `storage`, files: three descriptors, with which a socket can put the tables out of step
  while a closed descriptor and a reused entry remain; directories of two
  entries, so that there is a middle to seek to.
- `stream`: a ring of two bytes in registers of two bits, read bit by bit, and
  pointers that start at the last value: the size needs both halves, a torn one
  differs from every true one, and three bytes in each direction wrap the ring and
  the register. The proofs are for every size.
- `clock`: two counts in a tick and two ticks in a second: every reading is next
  to a tick and every other one to the carry of a second; seven counts hold a
  sleep of a second and a count, with a carry or without, and a handler that
  outlasts a tick (3.3 million states).
- `timesync`: fifteen units in a second, steps of four and of three: one divides
  the second and the other does not, each conversion rounds up, down and at the
  end of a second, and a T1 of fourteen rounds to the next second and wraps. The
  steps counted are exchanges, settings and handlers. Four let an exchange contain
  two others, and let the reply to a request that timed out come to the exchange
  after the next. The clock goes on for one unit, which tells a request before from
  a reply after; four sockets, as on the chip, are more than can be open (2.3
  million states).
  The proofs are for every value.
- `storage`, card: three sectors of two bytes, so that a byte address and a sector number
  are confused; two of each number of tries; one exchange of cards.

### Fairness

- `Signal`: an interrupt that stays pending is taken, the loop of PendSV and the
  library calls go on (weak fairness: the processor executes). Handlers return
  (strong fairness, as faults may interrupt them again and again): an assumption
  about the application.
- `W5100Socket`: the thread goes on polling; the chip ends a connection attempt
  and a disconnection, if only by its own retransmission time-out. Nothing is
  assumed of clients or of the application.
- `DhcpClient`: the application calls `w5100_dhcp()` when it is due, the client's
  code runs, and servers answer what reaches them. Losses are bounded by
  `MaxFaults`. Fairness of the client includes a time-out only when nothing is on
  its way; early time-outs are possible and not required.

- `W5100Stream`: the thread executes and the clock ticks. Nothing is assumed of the
  peer, the chip or the application: `WaitsEnd` speaks of calls that have
  something to return.

`Timers`, `Fatfs`, `Clock`, `Timesync` and `SdCard` claim no liveness.

## 4. Proofs

For every value of the constants that satisfies the `ASSUME`s of the modules
(natural numbers for sizes and bounds, subsets for the sets; for the timers, a
clock and a kind of notification at least; for the clock, two counts in a tick at
least, and times whose nanoseconds are within the second, as `clock_settime()`
demands):

- **`SignalProofs`**: `TypeCorrect`, `DeliveredExactlyOnce`, `DeliveredInOrder`,
  `WakeupNotLost`, `QueueImplemented`. The lemma `QueueSteps` reduces every step
  of every context to one enqueue, one take of the oldest candidate, or no change
  of the queue; exactly-once and the refinement follow from these three cases.
  `ExactlyOnce` is inductive with the types; the order needs it, since a taken
  number must be smaller than all that is still queued of that signal.
- **`W5100SocketProofs`**: `TypeCorrect`, `PointersAgree`, `NoSocketLost`,
  `ChipInStep`, `AcceptedKept`. `Ownership` is inductive with the types.
  `NoOrphanSocket` is not: it needs that a polling loop runs on a socket in use
  (`LoopOK`) and that an ACCEPTED socket keeps its connection's descriptor until
  that is closed (`AcceptedHasConnection`); together `ReleaseInv`. `ChipAgrees`
  leaves out the socket of a polling loop, whose driver state lags behind the
  chip; it becomes inductive (`ChipInv`) with the fact that the loop of
  `connect()` runs on a socket that is still CREATED, so that each status that
  ends a loop agrees with the state the loop then records. `AcceptedKept` is an
  action property: every command but those of `close()` goes to a socket that is
  not ACCEPTED or not ESTABLISHED any more, and the close of a listener leaves an
  ACCEPTED socket alone.
- **`DhcpClientProofs`**: `TypeCorrect`, `BoundToGrantedLease`,
  `RequestsNameOffers`, `ConfiguredFromOneServer`. The strengthening says what may
  be under the current xid: only DISCOVERs and OFFERs while selecting, at most one
  request for a lease, and that an ACK on its way is a promise the server keeps.
- **`StorageProofs`** has the theorems of the two layers of storage. It extends both
  `Fatfs` and `SdCard`, whose specification is named `CardSpec` for that.
  - Files: `TypeCorrect`, `OwnersAgree`, `ClosedIsHarmless`, `PoolNeverShort`.
    `OneOwner` is inductive with the types. `StrayNeedsSockets` rests on `InStep`:
    while only files use the descriptors, entry `f - 3` of the pool belongs to
    descriptor `f`, because both tables hand out their lowest free entry.
    `PoolSuffices` counts: opening adds one to both sides, closing takes one from
    the pool and at most one from the descriptors.
  - Card: `CardInvariant`, `StatusCorrect`, `TransfersCorrect`, for every card
    size, block size, number of tries and bound. `StatusTrue` is not inductive:
    the invariant adds that a card taken out counts as changed until it is
    initialised (`Outside`), that the units in force are the card's unless CMD58
    was misread (`Units`), that after CMD58 a card that answers is ready and its
    units known (`Starting`), that past its command a transfer has a sector the
    card holds (`Going`), and what it has done so far (`SoFar`). The key lemma
    `Addressed` says that the address sent, in bytes or in blocks, is that of
    the sector meant.

- **`W5100StreamProofs`**: `StreamInvariant`, `TypeCorrect`, `RxImplements`,
  `TxImplements`, `OverlooksCorrect`, `FinCorrect`, `ReadyCorrect`,
  `TimeoutCorrect`: for every ring size that divides the range of the registers,
  every byte width and every bound. The invariant says where the four pointers
  are modulo `WIDTH` (`Where`), that slot `q % SIZE` of a ring holds the byte that
  belongs at `q` for everything between its two ends (`RxOK`, `TxOK`), that a
  transfer in progress lies between these ends and has moved the right bytes
  (`CopyOK`), and that a size only grows after its high byte was read (`SeenOK`).
  The heart is `JoinBound`: if a register grows from a to b, the high byte of a
  with the low byte of b is at most b. So a torn size is never too large: bytes may
  be overlooked for one turn, but none is read that is not there and none
  overwritten that is still to be sent. `ReadyCorrect` and `TimeoutCorrect` add
  what `poll()` knows at each of its steps (`PollInv`). The theorems are about
  bytes that are moved, not about what the calls return (`stream_end`).

- **`TimersProofs`**: `TypeCorrect`, `OneShotExpiresOnce`, `DueTimersExpire`, for
  every number of timers, depth of nesting and bound on the time. The state is a
  stack of calls, so most of the invariant is about its shape: a frame in the
  expiry loop has chosen a timer of the table, and a function runs on a frame that
  is about to arm its timer again (`Frames`). `OneShotOnce` counts expiries that
  have happened and is not inductive: what counts is also what is still to come
  (`Shots`). The calls that have chosen a one-shot timer and not expired it yet are
  added (`Pending`); and as long as the timer is armed, calls above the first one
  that chose it may choose it too (`Ahead`). All of these began in the middle of
  that expiry, so that each is in `reentered`. Once the first call has
  disarmed the timer nobody chooses it. `NoneLeftDue` needs
  `Served`: what is owed is served by the last frame that is in `timer_settime()`
  (`LastCall`); the timer it checks is due no later than all that are owed, so
  if that one is not due, nothing is owed and the loop may end.

- **`ClockProofs`**: `ClockInvariant`, `ReadingIsAMoment`, `SettingTakes`,
  `SleepsLongEnough`, for every number of counts in a tick and ticks in a
  second. None of the three properties is a state predicate, and the invariant
  says what a call knows at each of its steps. Clock, counter and a tick that is
  pending add up to the time elapsed, unless a tick was lost (`Ticking`). As
  long as the flag stands still and nobody has set the clock, the words a call
  has copied are those of the clock (`Copied`). Once it has read the counter,
  clock and counter make a moment of the call (`Moment`), one tick late at most
  in a handler, which a pending tick does not preempt; this is where the check
  of the flag after the counter matters. The real-time clock keeps its offset to
  the monotonic one unless a setting is under way, and no setting has written
  into a clean reading (`Offsets`). The end of a sleep is late enough
  (`Sleeping`), which rests on the lemmas that `timespec_add` adds (`AddValue`,
  for all seconds and nanoseconds), leaves the nanoseconds within the second
  (`AddType`), and that the sign of `timespec_diff` orders times (`DiffOrders`).

- **`TimesyncProofs`**: `SyncInvariant`, `NestingIsBounded`,
  `SynchronisationSetsServersTime`, for every unit of time, every grain of the
  two conversions, every interval and every bound. The state is a stack of calls
  again. `Shape` says which step each call is at (`Formed`) and which call may
  lie on which (`Over`): an exchange is called by the application, by
  `timesync()` or by a `clock_gettime()` that has taken the mutex, and nothing
  but a `clock_gettime()` lies on an exchange that reads the clock. `Exclusive`
  says that at most one call holds `clock_gettime_mutex` although test and
  setting are two steps: a call that has found it free has no holder below it,
  the calls below stand still until it returns, and a handler above has returned
  before it goes on. `NestingIsBounded` gives every exchange a root, which is
  the application's call it is owed to or the one holder of the mutex, and no
  two exchanges share one; so there is at most one more than there are contexts.
  `Messages` and `Exchanges` follow the time stamps through the network, on the
  server's scale: a request was made before it was answered, and the answer was
  sent before now; the exchange that takes a reply, its own or a late one, reads
  T4 after that. Nothing in this says that the reply belongs to the exchange,
  and the theorem does not need it. That the clock was not set between T1 and T4
  is a premise of the property (`OneScale`), since the code can be made to mix
  two scales. `EstimateNear` bounds the estimate from the bounds of the
  conversions (`Rounds`, `ToNtp`, `FromNtp`). The bound `Loss` comes from that
  proof: one grain and a unit, which seemed to be enough, is exceeded by a T2 in
  the last part of a second.

The invariants of the timers, of the clock and of the time synchronisation were
also checked by TLC, on small instances.

Every invariant and action property of the runs that pass is a theorem.
Model-checked only: liveness (`EventuallyTaken`, `CallsReturn`, `BoundAgain`,
`WaitsEnd`), since fairness is beyond the prover.

## 5. Not modelled

- Contents of messages and files; datagrams in the rings of the W5100; ports,
  addresses and socket options; the layout of `siginfo_t`.
- Overflow of the signal order counter: undefined in C, bounded by `OrderMax`.
- Steps back of the real-time clock during a lease.
- Sleeps with `TIMER_ABSTIME` or on `CLOCK_REALTIME`; a SysTick whose count is not a
  whole number of nanoseconds (STM32F411).
- Several descriptors in one `poll()` or `select()`, and `errorfds`.
- `rfc868_time.c`, the alternative to SNTP: one read of four bytes and one
  subtraction, chosen at compile time and not the default.
- DNS (`getaddrinfo.c`, `gethostbyname.c`): sequential, and nearly all of it
  message layout. `inet.c` is vendored, `stdio_usart.c` is polled byte I/O.
- FatFs, libopencm3, newlib, the chip and the card, but for what the code uses of
  them; these parts are marked external.

## 6. Plan

1. **Composition** of `W5100Socket` and `W5100Stream` for several connections on
   one chip.
2. **DNS**: the exchange with its time-outs and the bounds of the answer's parse.
