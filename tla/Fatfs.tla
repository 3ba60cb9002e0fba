-------------------------------- MODULE Fatfs --------------------------------
(***************************************************************************)
(* Files and directory streams on the SD card: src/src/fatfs.c, which puts *)
(* the FatFs library behind the descriptor table of file.c and the calls   *)
(* of syscalls.c.                                                          *)
(*                                                                         *)
(* Two tables are allocated side by side: the descriptors, which sockets   *)
(* share, and a pool of entries that hold a FIL or a directory stream.     *)
(* Closing a file releases its entry of each table and clears the pool's   *)
(* only: the descriptor keeps isopen, mode and opaque, so that a call on   *)
(* it still goes through.  The application may make every call at any      *)
(* time, with any descriptor and with any DIR pointer it was ever given.   *)
(*                                                                         *)
(* What is on the card is not in the state: a call of FatFs succeeds or    *)
(* fails, and f_stat finds a file or a directory, as the card has it.      *)
(* Calls are made by the thread alone, so each is one step; one that fails *)
(* without a change is none.  unlink, rename, mkdir, rmdir, chdir, getcwd  *)
(* and stat forward a path to FatFs and touch neither table.               *)
(***************************************************************************)
EXTENDS Integers, FiniteSets

CONSTANTS
    OPEN_MAX,              \* length of either table
    Entries                \* number of entries in a directory

ASSUME FatfsAssumption == OPEN_MAX \in Nat /\ Entries \in Nat

VARIABLES
    isallocated,           \* files[fd] of file.c: .isallocated
    isopen,                \* .isopen
    mode,                  \* the file type in .stat.st_mode
    opaque,                \* .opaque: an entry of the pool, or NULL
    pool,                  \* files[i] of fatfs.c
    dirps,                 \* the DIR pointers the application was given
    shared,                \* history: a socket has used the descriptor table
    strayed                \* history: a call on a closed descriptor reached a
                           \* FIL or a stream that is in use

fdVars == <<isallocated, isopen, mode, opaque>>
vars == <<fdVars, pool, dirps, shared, strayed>>

NULL == -1
Fds == 3..(OPEN_MAX - 1)           \* 0, 1 and 2 are the USART's
Slots == 0..(OPEN_MAX - 1)
Locs == 0..Entries

(* A pool entry.  A free one is all zero; fd and loc are of a stream. *)
Slot == [kind : {"free", "FIL", "DIR"}, fd : Fds \cup {0}, loc : Locs]
FreeSlot == [kind |-> "free", fd |-> 0, loc |-> 0]

TypeOK ==
    /\ isallocated \in [Fds -> BOOLEAN]
    /\ isopen \in [Fds -> BOOLEAN]
    /\ mode \in [Fds -> {"none", "REG", "DIR", "SOCK"}]
    /\ opaque \in [Fds -> Slots \cup {NULL}]
    /\ pool \in [Slots -> Slot]
    /\ dirps \in SUBSET Slots
    /\ shared \in BOOLEAN
    /\ strayed \in BOOLEAN

Init ==
    /\ isallocated = [f \in Fds |-> FALSE]
    /\ isopen = [f \in Fds |-> FALSE]
    /\ mode = [f \in Fds |-> "none"]
    /\ opaque = [f \in Fds |-> NULL]
    /\ pool = [i \in Slots |-> FreeSlot]
    /\ dirps = {}
    /\ shared = FALSE
    /\ strayed = FALSE

-----------------------------------------------------------------------------
(* The two tables. *)

FreeFds == {f \in Fds : ~isallocated[f]}
FreeSlots == {i \in Slots : pool[i].kind = "free"}

(* file_alloc: the lowest free descriptor. *)
file_alloc(f) == f \in FreeFds /\ \A g \in FreeFds : f <= g

(* fatfs_fildir_alloc: the lowest free entry. *)
fatfs_fildir_alloc(i) == i \in FreeSlots /\ \A j \in FreeSlots : i <= j

(* file_alloc clears the entry, the owner then fills it. *)
fill_fd(f, m, i) ==
    /\ isallocated' = [isallocated EXCEPT ![f] = TRUE]
    /\ isopen' = [isopen EXCEPT ![f] = TRUE]
    /\ mode' = [mode EXCEPT ![f] = m]
    /\ opaque' = [opaque EXCEPT ![f] = i]

(* The FIL or stream behind a descriptor is in use.  A released entry is   *)
(* zero, and every call of FatFs on it fails with FR_INVALID_OBJECT.       *)
Live(f) == opaque[f] # NULL /\ pool[opaque[f]].kind # "free"

(* A call that reaches a live object does so through f. *)
Through(f) == strayed' = (strayed \/ ~isallocated[f])

-----------------------------------------------------------------------------
(* open() and opendir() *)

(* Mutant: dp->fd is not set. *)
StreamWithoutFd(m, f) ==
    IF m = "DIR" THEN [kind |-> "DIR", fd |-> 0, loc |-> 0]
                 ELSE [kind |-> "FIL", fd |-> 0, loc |-> 0]

(* What fatfs_open_file or fatfs_open_dir puts into the pool. *)
Opened(m, f) ==
    IF m = "DIR" THEN [kind |-> "DIR", fd |-> f, loc |-> 0]
                 ELSE [kind |-> "FIL", fd |-> 0, loc |-> 0]

(* fatfs_open finds a file or makes one, or finds a directory. *)
fatfs_open(m, f, i) ==
    /\ file_alloc(f)
    /\ fatfs_fildir_alloc(i)
    /\ pool' = [pool EXCEPT ![i] = Opened(m, f)]
    /\ fill_fd(f, m, i)
    /\ UNCHANGED <<shared, strayed>>

Open(m) ==
    \E f \in Fds, i \in Slots : fatfs_open(m, f, i) /\ UNCHANGED dirps

(* fatfs_opendir does not look at what it has opened: the pointer it       *)
(* returns may be to a FIL.                                                *)
Opendir(m) ==
    \E f \in Fds, i \in Slots : fatfs_open(m, f, i) /\ dirps' = dirps \cup {i}

(* Mutant: the failed open keeps its entry of the pool. *)
OpenFailsKeepsFil ==
    /\ \E f \in Fds, i \in Slots :
           /\ file_alloc(f)
           /\ isopen' = [isopen EXCEPT ![f] = FALSE]
           /\ mode' = [mode EXCEPT ![f] = "none"]
           /\ opaque' = [opaque EXCEPT ![f] = NULL]
           /\ fatfs_fildir_alloc(i)
           /\ pool' = [pool EXCEPT ![i] = Opened("REG", f)]
    /\ UNCHANGED <<isallocated, dirps, shared, strayed>>

(* Mutant: the failed open keeps its descriptor. *)
OpenFailsKeepsFd ==
    /\ \E f \in Fds : file_alloc(f) /\ fill_fd(f, "none", NULL)
    /\ UNCHANGED <<pool, dirps, shared, strayed>>

(* f_stat, f_open or f_opendir fails, or the pool is full: both entries    *)
(* are released, the descriptor's after file_alloc has cleared it.         *)
OpenFails ==
    /\ \E f \in Fds :
           /\ file_alloc(f)
           /\ isopen' = [isopen EXCEPT ![f] = FALSE]
           /\ mode' = [mode EXCEPT ![f] = "none"]
           /\ opaque' = [opaque EXCEPT ![f] = NULL]
    /\ UNCHANGED <<isallocated, pool, dirps, shared, strayed>>

-----------------------------------------------------------------------------
(* Calls on descriptors *)

(* read, write, lseek, fsync: isopen is tested, but fatfs_close leaves it  *)
(* set, so mode and opaque decide.  The data is FatFs's.                   *)
Io(f) ==
    /\ mode[f] = "REG" /\ Live(f)
    /\ Through(f)
    /\ UNCHANGED <<fdVars, pool, dirps, shared>>

(* fatfs_close with f_close or f_closedir successful.  file_free does      *)
(* nothing to a descriptor that is free.                                   *)
fatfs_close(f) ==
    /\ mode[f] \in {"REG", "DIR"} /\ Live(f)
    /\ pool' = [pool EXCEPT ![opaque[f]] = FreeSlot]
    /\ isallocated' = [isallocated EXCEPT ![f] = FALSE]
    /\ Through(f)
    /\ UNCHANGED <<isopen, mode, opaque, dirps, shared>>

Close(f) == isopen[f] /\ fatfs_close(f)

-----------------------------------------------------------------------------
(* Calls on directory streams *)

Fdopendir(f) ==
    /\ mode[f] = "DIR" /\ opaque[f] # NULL
    /\ dirps' = dirps \cup {opaque[f]}
    /\ UNCHANGED <<fdVars, pool, shared, strayed>>

(* The descriptors that dirp->fd may name: a stream has its own, a         *)
(* released entry has 0, and the first word of a FIL may be anything.      *)
dirp_fd(i) ==
    CASE pool[i].kind = "DIR" -> {pool[i].fd}
      [] pool[i].kind = "FIL" -> Fds
      [] OTHER -> {}

Closedir(i) == i \in dirps /\ \E f \in dirp_fd(i) : fatfs_close(f)

(* is_dir, for pointers to a stream; f_readdir rejects any other memory. *)
is_dir(i) == i \in dirps /\ pool[i].kind = "DIR" /\ mode[pool[i].fd] = "DIR"

MoveTo(i, loc) ==
    /\ pool' = [pool EXCEPT ![i].loc = loc]
    /\ UNCHANGED <<fdVars, dirps, shared, strayed>>

Readdir(i) == is_dir(i) /\ pool[i].loc < Entries /\ MoveTo(i, pool[i].loc + 1)

Rewinddir(i) == is_dir(i) /\ MoveTo(i, 0)

(* Mutant: the loop does not see the end of the directory. *)
SeekdirPastEnd(i, loc) == is_dir(i) /\ loc > pool[i].loc /\ MoveTo(i, loc)

(* fatfs_seekdir.  Forward it reads entries, until one is missing or       *)
(* cannot be read.  Backward it rewinds and stops there: cur_loc is not    *)
(* read again, so the loop that would go forward does not run.             *)
Seekdir(i, loc) ==
    /\ is_dir(i)
    /\ \/ loc < pool[i].loc /\ MoveTo(i, 0)
       \/ \E end \in Locs : pool[i].loc < end /\ end <= loc /\ MoveTo(i, end)

-----------------------------------------------------------------------------
(* The sockets, which take descriptors from the same table and clear       *)
(* isopen when they give them back.                                        *)

SocketOpens ==
    /\ \E f \in Fds : file_alloc(f) /\ fill_fd(f, "SOCK", NULL)
    /\ shared' = TRUE
    /\ UNCHANGED <<pool, dirps, strayed>>

SocketCloses(f) ==
    /\ mode[f] = "SOCK" /\ isopen[f]
    /\ isallocated' = [isallocated EXCEPT ![f] = FALSE]
    /\ isopen' = [isopen EXCEPT ![f] = FALSE]
    /\ UNCHANGED <<mode, opaque, pool, dirps, shared, strayed>>

-----------------------------------------------------------------------------

(* A location to seek to may lie past the end. *)
Next ==
    \/ \E m \in {"REG", "DIR"} : Open(m) \/ Opendir(m)
    \/ OpenFails
    \/ \E f \in Fds : Io(f) \/ Close(f) \/ Fdopendir(f) \/ SocketCloses(f)
    \/ \E i \in Slots : Closedir(i) \/ Readdir(i) \/ Rewinddir(i)
    \/ \E i \in Slots, loc \in 0..(Entries + 1) : Seekdir(i, loc)
    \/ SocketOpens

Spec == Init /\ [][Next]_vars

-----------------------------------------------------------------------------
(* Properties *)

FileFds == {f \in Fds : isallocated[f] /\ mode[f] \in {"REG", "DIR"}}
UsedSlots == {i \in Slots : pool[i].kind # "free"}

(* fatfs.c and file.c agree: every descriptor of a file has an entry of    *)
(* the pool, of its kind and of its own, a stream names the descriptor     *)
(* that names it, and no entry is left in use without a descriptor to      *)
(* close.  It holds until a call on a closed descriptor acts on an object  *)
(* in use: closing that leaves its owner without an entry.                 *)
OneOwner ==
    ~strayed =>
        /\ \A f \in FileFds :
               /\ opaque[f] # NULL
               /\ mode[f] = "REG" => pool[opaque[f]].kind = "FIL"
               /\ mode[f] = "DIR" => /\ pool[opaque[f]].kind = "DIR"
                                     /\ pool[opaque[f]].fd = f
        /\ \A f, g \in FileFds : opaque[f] = opaque[g] => f = g
        /\ \A i \in UsedSlots : \E f \in FileFds : opaque[f] = i

(* Whatever the application does, the pool never has more entries in use   *)
(* than there are descriptors of files: open() with a free descriptor      *)
(* finds a free entry too, so the FR_TOO_MANY_OPEN_FILES of                *)
(* fatfs_open_file and fatfs_open_dir is not reached.                      *)
PoolSuffices == Cardinality(UsedSlots) <= Cardinality(FileFds)

(* fatfs_close leaves isopen and opaque behind, and the entry they lead to *)
(* is reused.  As long as no socket takes a descriptor the two tables are  *)
(* allocated in step, and whoever reuses the entry has the descriptor too: *)
(* a call on a closed descriptor then reaches nobody else's file.          *)
StrayNeedsSockets == strayed => shared
=============================================================================
