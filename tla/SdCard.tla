------------------------------- MODULE SdCard -------------------------------
(***************************************************************************)
(* The SD card driver: disk_initialize(), disk_read() and disk_write() of  *)
(* src/src/sd_spi_diskio.c over the commands of sd_spi.c.                  *)
(*                                                                         *)
(* A command (select, send, wait for the response, deselect) is one step,  *)
(* and so is the transfer of a block.  Between steps the card may be taken *)
(* out and another one put in; without an answer the line reads as idle.   *)
(* A loop without a time-out on a card that does not answer never ends:    *)
(* the call hangs.  High capacity cards are addressed by sector, others by *)
(* byte.                                                                   *)
(***************************************************************************)
EXTENDS Integers, Sequences

CONSTANTS
    SECTORS,               \* of a card
    SECTOR_SIZE,           \* SD_SECTOR_SIZE
    CMD0_TRIES, CMD41_TRIES,   \* 4 and 1000
    MaxCount,              \* bound: sectors in one call
    MaxSwaps,              \* bound: cards put in
    MaxWrites              \* bound: calls of disk_write()

ASSUME CardAssumption ==
    /\ SECTORS \in Nat \ {0} /\ SECTOR_SIZE \in Nat \ {0}
    /\ CMD0_TRIES \in Nat \ {0} /\ CMD41_TRIES \in Nat \ {0}
    /\ MaxCount \in Nat /\ MaxSwaps \in Nat /\ MaxWrites \in Nat

VARIABLES
    card,                  \* "none", "off" (no command yet), "idle", "starting"
                           \* (idle, ACMD41 accepted) or "ready"
    sdhc,                  \* the card has high capacity
    mem,                   \* its sectors
    initialized, byte_addressable,     \* pdrv_data
    call, at, tries,       \* the call under way, its next command, tries left
    first, count, done,    \* sectors asked for; how many are done
    buf,                   \* what disk_read() has read
    result,                \* of the last transfer
    before,                \* history: mem when the call began
    swaps, writes,         \* history: cards put in, writes begun
    misread,               \* history: byte_addressable is wrong because CMD58
                           \* was refused
    changed,               \* history: the card was changed since it was last
                           \* initialised
    failed                 \* history: the last disk_initialize() failed

cardVars == <<card, sdhc, mem, swaps, changed>>
driverVars == <<initialized, byte_addressable, misread>>
jobVars == <<first, count, buf, before, writes>>
sdVars == <<cardVars, driverVars, call, at, tries, done, jobVars, result, failed>>

Sectors == 0..(SECTORS - 1)
Contents(n) == [s \in Sectors |-> 100 * n + s]     \* of the n-th card
Data(n, i) == -(100 * n + i)                       \* block i of the n-th write

CardInit ==
    /\ card = "off" /\ sdhc \in BOOLEAN /\ mem = Contents(0)
    /\ initialized = FALSE /\ byte_addressable = FALSE /\ misread = FALSE
    /\ call = "none" /\ at = "none" /\ tries = 0
    /\ first = 0 /\ count = 0 /\ done = 0 /\ buf = <<>>
    /\ result = "none" /\ before = mem
    /\ swaps = 0 /\ writes = 0 /\ changed = FALSE /\ failed = FALSE

-----------------------------------------------------------------------------
(* The call under way. *)

Now(c, command) == call = c /\ at = command

GoOn(command) == at' = command /\ UNCHANGED call

Return(c) == call = c /\ call' = "none" /\ at' = "none"

(* The card answers commands; before the first CMD0 it answers no other. *)
Answers(command) == card # "none" /\ (command = "CMD0" \/ card # "off")

(* wait_resp and read_block have no time-out, and wait_end_write asks for  *)
(* a response; send_block reads the idle line as a rejection.              *)
Hang ==
    /\ call \in {"initialize", "read", "write"} /\ ~Answers(at) /\ at # "data"
    /\ call' = "hung" /\ at' = "none"
    /\ UNCHANGED <<cardVars, driverVars, tries, done, jobVars, result, failed>>

-----------------------------------------------------------------------------
(* disk_initialize *)

disk_initialize ==
    /\ call = "none"
    /\ call' = "initialize" /\ at' = "CMD0" /\ tries' = CMD0_TRIES
    /\ UNCHANGED <<cardVars, driverVars, done, jobVars, result, failed>>

(* STA_NODISK: pdrv_data keeps what it had. *)
Fail ==
    /\ Return("initialize")
    /\ failed' = TRUE
    /\ tries' = 0

(* One of the tries of a command was not what it should be. *)
TryAgain ==
    \/ tries > 1 /\ tries' = tries - 1 /\ UNCHANGED <<call, at, failed>>
    \/ tries = 1 /\ Fail

CMD0 ==
    /\ Now("initialize", "CMD0") /\ Answers("CMD0")
    /\ card' = "idle"
    /\ \/ GoOn("CMD8") /\ UNCHANGED <<tries, failed>>
       \/ TryAgain
    /\ UNCHANGED <<sdhc, mem, swaps, changed, driverVars, done, jobVars, result>>

(* CMD8: the voltage is supported and the pattern comes back, or not. *)
CMD8 ==
    /\ Now("initialize", "CMD8") /\ Answers("CMD8")
    /\ \/ GoOn("CMD41") /\ tries' = CMD41_TRIES /\ UNCHANGED failed
       \/ Fail
    /\ UNCHANGED <<cardVars, driverVars, done, jobVars, result>>

(* Mutant: when the tries are used up the card is taken for ready. *)
CMD41TakesReady ==
    /\ Now("initialize", "CMD41") /\ Answers("CMD41")
    /\ \/ card' = "ready" /\ GoOn("CMD58") /\ tries' = 0
       \/ /\ card # "ready" /\ card' = "starting"
          /\ \/ tries > 1 /\ tries' = tries - 1 /\ UNCHANGED <<call, at>>
             \/ tries = 1 /\ GoOn("CMD58") /\ tries' = 0
    /\ UNCHANGED <<sdhc, mem, swaps, changed, driverVars, done, jobVars, result, failed>>

(* CMD55 and CMD41, until the card is no more idle. *)
CMD41 ==
    /\ Now("initialize", "CMD41") /\ Answers("CMD41")
    /\ \/ card' = "ready" /\ GoOn("CMD58") /\ tries' = 0 /\ UNCHANGED failed
       \/ card # "ready" /\ card' = "starting" /\ TryAgain
    /\ UNCHANGED <<sdhc, mem, swaps, changed, driverVars, done, jobVars, result>>

(* The card is in operation. *)
Succeed ==
    /\ Return("initialize")
    /\ initialized' = TRUE
    /\ changed' = FALSE /\ failed' = FALSE

(* CMD58: the capacity.  r3[0] is not looked at: when the card refuses the *)
(* command the rest of r3 is the idle line, which reads as high capacity.  *)
CMD58 ==
    /\ Now("initialize", "CMD58") /\ Answers("CMD58")
    /\ \/ byte_addressable' = ~sdhc /\ misread' = FALSE
       \/ byte_addressable' = FALSE /\ misread' = ~sdhc
    /\ \/ ~byte_addressable' /\ Succeed
       \/ byte_addressable' /\ GoOn("CMD16") /\ UNCHANGED <<initialized, changed, failed>>
    /\ UNCHANGED <<card, sdhc, mem, swaps, tries, done, jobVars, result>>

(* CMD16: the length of a block. *)
CMD16 ==
    /\ Now("initialize", "CMD16") /\ Answers("CMD16")
    /\ \/ Succeed /\ UNCHANGED tries
       \/ Fail /\ UNCHANGED <<initialized, changed>>
    /\ UNCHANGED <<card, sdhc, mem, swaps, byte_addressable, misread, done, jobVars,
                   result>>

-----------------------------------------------------------------------------
(* disk_read and disk_write, one sector after the other. *)

(* Before the first disk_initialize() they return RES_NOTRDY. *)
Begin(c, command, f, n) ==
    /\ call = "none" /\ initialized
    /\ call' = c /\ at' = command
    /\ first' = f /\ count' = n /\ done' = 0 /\ buf' = <<>> /\ before' = mem
    /\ UNCHANGED <<cardVars, driverVars, tries, failed>>

disk_read(f, n) ==
    /\ Begin("read", "CMD17", f, n)
    /\ result' = "none" /\ UNCHANGED writes

disk_write(f, n) ==
    /\ writes < MaxWrites
    /\ Begin("write", "CMD24", f, n)
    /\ result' = "none" /\ writes' = writes + 1

get_addr(sector) == IF byte_addressable THEN sector * SECTOR_SIZE ELSE sector

(* What the card makes of an address, and whether it can. *)
Located(addr) == IF sdhc THEN addr ELSE addr \div SECTOR_SIZE
Locates(addr) == Located(addr) \in Sectors /\ (sdhc \/ addr % SECTOR_SIZE = 0)

Addr == get_addr(first + done)

Ends(res) == result' = res /\ call' = "none" /\ at' = "none"

(* send_rw_cmd: the card accepts the address, or the call fails. *)
send_rw_cmd ==
    /\ at \in {"CMD17", "CMD24"} /\ Answers(at)
    /\ \/ /\ card = "ready" /\ Locates(Addr)
          /\ GoOn(IF call = "read" THEN "token" ELSE "data")
          /\ UNCHANGED result
       \/ Ends("RES_ERROR")
    /\ UNCHANGED <<cardVars, driverVars, tries, done, jobVars, failed>>

(* A sector is done. *)
NextSector(command) ==
    /\ done' = done + 1
    /\ \/ done + 1 < count /\ GoOn(command) /\ UNCHANGED result
       \/ done + 1 = count /\ Ends("RES_OK")

(* read_block: a start token and the block, or an error token. *)
read_block ==
    /\ Now("read", "token") /\ Answers("token")
    /\ \/ buf' = Append(buf, mem[Located(Addr)]) /\ NextSector("CMD17")
       \/ Ends("RES_ERROR") /\ UNCHANGED <<buf, done>>
    /\ UNCHANGED <<cardVars, driverVars, tries, first, count, before, writes, failed>>

(* send_block: the card accepts the data, or not. *)
send_block ==
    /\ Now("write", "data")
    /\ \/ Answers("data") /\ GoOn("busy") /\ UNCHANGED result
       \/ Ends("RES_ERROR")
    /\ UNCHANGED <<cardVars, driverVars, tries, done, jobVars, failed>>

Programmed == [mem EXCEPT ![Located(Addr)] = Data(writes, done)]

(* Mutant: CMD13 is not asked what became of the block. *)
EndUnasked ==
    /\ Now("write", "busy") /\ Answers("busy")
    /\ mem' \in {Programmed, mem} /\ NextSector("CMD24")
    /\ UNCHANGED <<card, sdhc, swaps, changed, driverVars, tries, jobVars, failed>>

(* wait_end_write: the card is no more busy; CMD13 tells whether it could  *)
(* program the block.                                                      *)
wait_end_write ==
    /\ Now("write", "busy") /\ Answers("busy")
    /\ \/ mem' = Programmed /\ NextSector("CMD24")
       \/ mem' \in {Programmed, mem} /\ Ends("RES_ERROR") /\ UNCHANGED done
    /\ UNCHANGED <<card, sdhc, swaps, changed, driverVars, tries, jobVars, failed>>

-----------------------------------------------------------------------------
(* The card. *)

(* It finishes its initialisation by itself. *)
CardStarts ==
    /\ card = "starting"
    /\ card' = "ready"
    /\ UNCHANGED <<sdhc, mem, swaps, changed, driverVars, call, at, tries, done, jobVars,
                   result, failed>>

Remove ==
    /\ card # "none"
    /\ card' = "none" /\ changed' = TRUE
    /\ UNCHANGED <<sdhc, mem, swaps, driverVars, call, at, tries, done, jobVars, result,
                   failed>>

(* Another card, or one that lost its power. *)
Insert ==
    /\ card = "none" /\ swaps < MaxSwaps
    /\ card' = "off" /\ sdhc' \in BOOLEAN
    /\ swaps' = swaps + 1
    /\ mem' = Contents(swaps + 1)
    /\ UNCHANGED <<changed, driverVars, call, at, tries, done, jobVars, result, failed>>

Hung == call = "hung" /\ UNCHANGED sdVars

-----------------------------------------------------------------------------

CardNext ==
    \/ disk_initialize \/ CMD0 \/ CMD8 \/ CMD41 \/ CMD58 \/ CMD16
    \/ \E f \in Sectors, n \in 1..MaxCount : disk_read(f, n) \/ disk_write(f, n)
    \/ send_rw_cmd \/ read_block \/ send_block \/ wait_end_write
    \/ CardStarts \/ Remove \/ Insert
    \/ Hang \/ Hung

CardSpec == CardInit /\ [][CardNext]_sdVars

-----------------------------------------------------------------------------
(* Properties. *)

(* The first k blocks of the current write, on what was there before. *)
Written(k) ==
    [s \in Sectors |-> IF s \in first..(first + k - 1) THEN Data(writes, s - first)
                                                      ELSE before[s]]

(* A transfer that ends has done what it says, on the card it was          *)
(* initialised for: a write has written all of its blocks, or only the     *)
(* first of them if it fails, and nothing else; a read has read the        *)
(* sectors it was asked for.  Nothing is claimed once the card was         *)
(* changed: disk_initialize() may then fail and leave the units of the old *)
(* card in force while the new one starts by itself.  Nor when a refused   *)
(* CMD58 left the wrong units in force.                                    *)
TransfersRight ==
    [][call' = "none" /\ ~changed /\ ~misread =>
        /\ call = "write" =>
            \E k \in 0..count : mem' = Written(k) /\ (result' = "RES_OK" => k = count)
        /\ call = "read" /\ result' = "RES_OK" =>
            buf' = [i \in 1..count |-> mem[first + i - 1]]]_sdVars

(* A drive that disk_status() calls ready has a card that is ready and     *)
(* addressed in its own units, unless the card was changed or put back     *)
(* into idle by a disk_initialize() that failed.  The units are wrong if,  *)
(* and only if, a standard card refused CMD58.                             *)
StatusTrue ==
    initialized /\ call # "initialize" /\ ~changed /\ ~failed =>
        card = "ready" /\ (misread <=> byte_addressable = sdhc)
=============================================================================
