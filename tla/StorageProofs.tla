---------------------------- MODULE StorageProofs ----------------------------
(***************************************************************************)
(* Theorems about the two layers of storage.  Fatfs.tla, for every         *)
(* OPEN_MAX and every directory size: the descriptor table and the pool    *)
(* agree, the pool suffices, and a closed descriptor is harmless as long   *)
(* as no socket shares the table.  SdCard.tla, for every card size, block  *)
(* size, number of tries and bound: the status is true and transfers do    *)
(* what they report.                                                       *)
(***************************************************************************)
EXTENDS Fatfs, SdCard, FiniteSetTheorems, TLAPS

-----------------------------------------------------------------------------
(* Files and directory streams. *)

(* A directory stream names a descriptor. *)
StreamFd == \A i \in Slots : pool[i].kind = "DIR" => pool[i].fd \in Fds

TypeInv == TypeOK /\ StreamFd

(* The two tables in step: entry f - 3 of the pool belongs to descriptor   *)
(* f, and is in use exactly while f is allocated.                          *)
InStep ==
    /\ \A f \in Fds :
           /\ mode[f] # "SOCK"
           /\ opaque[f] \in {NULL, f - 3}
           /\ isallocated[f] <=> pool[f - 3].kind # "free"
    /\ \A i \in Slots : i + 3 \notin Fds => pool[i].kind = "free"

(* The inductive invariant behind StrayNeedsSockets. *)
StepInv == StrayNeedsSockets /\ (~shared => InStep)

LEMMA NullOutside == NULL \notin Slots /\ 0 \notin Fds /\ \A f \in Fds : f - 3 \in Slots
BY FatfsAssumption DEF NULL, Slots, Fds

(* The entries that Opened and FreeSlot describe. *)
LEMMA SlotTypes ==
    /\ FreeSlot \in Slot
    /\ \A m \in {"REG", "DIR"}, f \in Fds :
           /\ Opened(m, f) \in Slot
           /\ Opened(m, f).kind = IF m = "DIR" THEN "DIR" ELSE "FIL"
           /\ m = "DIR" => Opened(m, f).fd = f
BY FatfsAssumption DEF FreeSlot, Slot, Opened, Locs

(* The calls that reach fatfs_close name a descriptor. *)
LEMMA ClosesADescriptor ==
    ASSUME TypeInv, NEW i \in Slots, Closedir(i)
    PROVE  \E f \in Fds : fatfs_close(f)
BY DEF TypeInv, TypeOK, StreamFd, Closedir, dirp_fd, Slot

(* A stream that moves keeps its kind and its descriptor. *)
LEMMA MovesOnly ==
    ASSUME TypeInv, NEW i \in Slots, NEW loc \in Locs, MoveTo(i, loc)
    PROVE  /\ pool' \in [Slots -> Slot]
           /\ \A j \in Slots : pool'[j].kind = pool[j].kind /\ pool'[j].fd = pool[j].fd
           /\ UNCHANGED <<isallocated, isopen, mode, opaque, dirps, shared, strayed>>
BY DEF TypeInv, TypeOK, MoveTo, Slot, fdVars

(* What a step does, one case per effect on the two tables. *)
LEMMA StepCases ==
    ASSUME TypeInv, [Next]_vars
    PROVE  \/ \E m \in {"REG", "DIR"}, f \in Fds, i \in Slots :
                 fatfs_open(m, f, i) /\ dirps' \in SUBSET Slots
           \/ OpenFails
           \/ \E f \in Fds : Io(f) \/ fatfs_close(f) \/ Fdopendir(f) \/ SocketCloses(f)
           \/ \E i \in Slots, loc \in Locs : MoveTo(i, loc)
           \/ SocketOpens
           \/ UNCHANGED vars
<1>1. ASSUME NEW i \in Slots, Readdir(i) \/ Rewinddir(i)
      PROVE  \E loc \in Locs : MoveTo(i, loc)
  BY <1>1, FatfsAssumption DEF Readdir, Rewinddir, Locs, TypeInv, TypeOK, Slot
<1>2. ASSUME NEW i \in Slots, NEW l \in 0..(Entries + 1), Seekdir(i, l)
      PROVE  \E loc \in Locs : MoveTo(i, loc)
  BY <1>2, FatfsAssumption DEF Seekdir, Locs
<1>3. ASSUME NEW m \in {"REG", "DIR"}, Open(m) \/ Opendir(m)
      PROVE  \E f \in Fds, i \in Slots : fatfs_open(m, f, i) /\ dirps' \in SUBSET Slots
  BY <1>3 DEF Open, Opendir, TypeInv, TypeOK
<1>4. ASSUME NEW f \in Fds, Close(f)  PROVE fatfs_close(f)
  BY <1>4 DEF Close
<1> QED
  BY <1>1, <1>2, <1>3, <1>4, ClosesADescriptor DEF Next

(* The induction for the types. *)
LEMMA TypeInvariant == Spec => []TypeInv
<1>1. Init => TypeInv
  <2> SUFFICES ASSUME Init PROVE TypeInv
    OBVIOUS
  <2>1. pool \in [Slots -> Slot] /\ StreamFd
    BY SlotTypes DEF Init, StreamFd, FreeSlot
  <2>2. isallocated \in [Fds -> BOOLEAN] /\ isopen \in [Fds -> BOOLEAN]
    BY DEF Init
  <2>3. /\ mode \in [Fds -> {"none", "REG", "DIR", "SOCK"}]
        /\ opaque \in [Fds -> Slots \cup {NULL}]
    BY DEF Init
  <2> QED
    BY <2>1, <2>2, <2>3 DEF Init, TypeInv, TypeOK
<1>2. TypeInv /\ [Next]_vars => TypeInv'
  <2> SUFFICES ASSUME TypeInv, [Next]_vars PROVE TypeInv'
    OBVIOUS
  <2> USE DEF TypeInv, TypeOK, StreamFd
  <2>1. ASSUME NEW m \in {"REG", "DIR"}, NEW f \in Fds, NEW i \in Slots,
               fatfs_open(m, f, i), dirps' \in SUBSET Slots
        PROVE  TypeInv'
    BY <2>1, SlotTypes DEF fatfs_open, fill_fd
  <2>2. CASE OpenFails
    BY <2>2 DEF OpenFails
  <2>3. ASSUME NEW f \in Fds, Io(f) \/ Fdopendir(f) \/ SocketCloses(f) PROVE TypeInv'
    <3>1. CASE Io(f)  BY <3>1 DEF Io, fdVars, Through
    <3>2. CASE Fdopendir(f)  BY <3>2 DEF Fdopendir, fdVars
    <3>3. CASE SocketCloses(f)  BY <3>3 DEF SocketCloses
    <3> QED  BY <2>3, <3>1, <3>2, <3>3
  <2>4. ASSUME NEW f \in Fds, fatfs_close(f) PROVE TypeInv'
    <3>1. pool' \in [Slots -> Slot] /\ StreamFd'
      BY <2>4, SlotTypes DEF fatfs_close, FreeSlot
    <3>2. strayed' \in BOOLEAN  BY <2>4 DEF fatfs_close, Through
    <3> QED  BY <2>4, <3>1, <3>2 DEF fatfs_close
  <2>5. ASSUME NEW i \in Slots, NEW loc \in Locs, MoveTo(i, loc) PROVE TypeInv'
    BY <2>5, MovesOnly
  <2>6. CASE SocketOpens
    BY <2>6 DEF SocketOpens, fill_fd
  <2>7. CASE UNCHANGED vars
    BY <2>7 DEF vars, fdVars
  <2> QED
    BY <2>1, <2>2, <2>3, <2>4, <2>5, <2>6, <2>7, StepCases
<1> QED
  BY <1>1, <1>2, PTL DEF Spec

(* Every variable keeps its type. *)
THEOREM TypeCorrect == Spec => []TypeOK
<1>1. TypeInv => TypeOK
  BY DEF TypeInv
<1> QED
  BY <1>1, TypeInvariant, PTL

-----------------------------------------------------------------------------

(* fatfs.c and file.c agree about every file and stream until a call on a  *)
(* closed descriptor reaches one in use: OneOwner for every OPEN_MAX.      *)
THEOREM OwnersAgree == Spec => []OneOwner
<1>1. Init => OneOwner
  BY DEF Init, OneOwner, FileFds, UsedSlots, FreeSlot
<1>2. TypeInv /\ OneOwner /\ [Next]_vars => OneOwner'
  <2> SUFFICES ASSUME TypeInv, OneOwner, [Next]_vars PROVE OneOwner'
    OBVIOUS
  <2> USE DEF TypeInv, TypeOK
  <2>1. ASSUME NEW m \in {"REG", "DIR"}, NEW f \in Fds, NEW i \in Slots,
               fatfs_open(m, f, i)
        PROVE  OneOwner'
    <3> SUFFICES ASSUME ~strayed PROVE OneOwner'
      BY <2>1 DEF fatfs_open, OneOwner
    <3>1. FileFds' = FileFds \cup {f} /\ f \notin FileFds
      BY <2>1 DEF fatfs_open, fill_fd, FileFds, file_alloc, FreeFds
    <3>2. UsedSlots' = UsedSlots \cup {i} /\ i \notin UsedSlots
      BY <2>1, SlotTypes DEF fatfs_open, UsedSlots, fatfs_fildir_alloc, FreeSlots
    <3>3. \A g \in FileFds : opaque[g] \in UsedSlots
      BY DEF OneOwner, FileFds, UsedSlots
    <3>4. \A g \in FileFds : /\ opaque'[g] = opaque[g] /\ mode'[g] = mode[g]
                             /\ pool'[opaque[g]] = pool[opaque[g]]
      BY <2>1, <3>1, <3>2, <3>3 DEF fatfs_open, fill_fd, FileFds
    <3>5. opaque'[f] = i /\ mode'[f] = m /\ pool'[i] = Opened(m, f)
      BY <2>1 DEF fatfs_open, fill_fd
    <3>6. \A g \in FileFds' :
             /\ opaque'[g] # NULL
             /\ mode'[g] = "REG" => pool'[opaque'[g]].kind = "FIL"
             /\ mode'[g] = "DIR" => /\ pool'[opaque'[g]].kind = "DIR"
                                    /\ pool'[opaque'[g]].fd = g
      BY <3>1, <3>4, <3>5, SlotTypes, NullOutside DEF OneOwner
    <3>7. \A g, h \in FileFds' : opaque'[g] = opaque'[h] => g = h
      BY <3>1, <3>2, <3>3, <3>4, <3>5 DEF OneOwner
    <3>8. \A j \in UsedSlots' : \E g \in FileFds' : opaque'[g] = j
      BY <3>1, <3>2, <3>4, <3>5 DEF OneOwner
    <3> QED  BY <3>6, <3>7, <3>8 DEF OneOwner
  <2>2. CASE OpenFails
    BY <2>2 DEF OpenFails, OneOwner, FileFds, UsedSlots, file_alloc, FreeFds
  <2>3. ASSUME NEW f \in Fds, Io(f) \/ Fdopendir(f) \/ SocketCloses(f) PROVE OneOwner'
    <3>1. CASE Io(f)  BY <3>1 DEF Io, fdVars, Through, OneOwner, FileFds, UsedSlots
    <3>2. CASE Fdopendir(f)
      BY <3>2 DEF Fdopendir, fdVars, OneOwner, FileFds, UsedSlots
    <3>3. CASE SocketCloses(f)  BY <3>3 DEF SocketCloses, OneOwner, FileFds, UsedSlots
    <3> QED  BY <2>3, <3>1, <3>2, <3>3
  <2>4. ASSUME NEW f \in Fds, fatfs_close(f) PROVE OneOwner'
    <3> SUFFICES ASSUME ~strayed' PROVE OneOwner'
      BY DEF OneOwner
    <3>1. ~strayed /\ f \in FileFds
      BY <2>4 DEF fatfs_close, Through, FileFds
    <3>2. FileFds' = FileFds \ {f}
      BY <2>4 DEF fatfs_close, FileFds
    <3>3. UsedSlots' = UsedSlots \ {opaque[f]}
      BY <2>4 DEF fatfs_close, Live, UsedSlots, FreeSlot
    <3>4. \A g \in FileFds' : pool'[opaque[g]] = pool[opaque[g]]
      BY <2>4, <3>1, <3>2 DEF fatfs_close, FileFds, OneOwner
    <3> QED
      BY <2>4, <3>1, <3>2, <3>3, <3>4 DEF fatfs_close, OneOwner
  <2>5. ASSUME NEW i \in Slots, NEW loc \in Locs, MoveTo(i, loc) PROVE OneOwner'
    BY <2>5, MovesOnly DEF OneOwner, FileFds, UsedSlots
  <2>6. CASE SocketOpens
    <3>1. FileFds' = FileFds
      BY <2>6 DEF SocketOpens, fill_fd, FileFds, file_alloc, FreeFds
    <3>2. \A g \in FileFds : opaque'[g] = opaque[g] /\ mode'[g] = mode[g]
      BY <2>6 DEF SocketOpens, fill_fd, FileFds, file_alloc, FreeFds
    <3> QED  BY <2>6, <3>1, <3>2 DEF SocketOpens, OneOwner, UsedSlots
  <2>7. CASE UNCHANGED vars
    BY <2>7 DEF vars, fdVars, OneOwner, FileFds, UsedSlots
  <2> QED
    BY <2>1, <2>2, <2>3, <2>4, <2>5, <2>6, <2>7, StepCases
<1> QED
  BY <1>1, <1>2, TypeInvariant, PTL DEF Spec

-----------------------------------------------------------------------------

(* As long as only files use the descriptor table, open() takes entry      *)
(* f - 3 of the pool together with descriptor f.                           *)
LEMMA AllocatesInStep ==
    ASSUME TypeInv, InStep, NEW f \in Fds, NEW i \in Slots,
           file_alloc(f), fatfs_fildir_alloc(i)
    PROVE  i = f - 3
<1>1. i <= f - 3
  BY NullOutside DEF InStep, file_alloc, FreeFds, fatfs_fildir_alloc, FreeSlots, Fds, Slots
<1>2. i + 3 \in Fds
  BY <1>1, FatfsAssumption DEF Fds, Slots
<1>3. f <= i + 3
  <2>1. (i + 3) - 3 = i
    BY DEF Slots
  <2> QED
    BY <1>2, <2>1 DEF InStep, file_alloc, FreeFds, fatfs_fildir_alloc, FreeSlots
<1> QED
  BY <1>1, <1>3 DEF Fds, Slots

(* A call on a closed descriptor reaches somebody else's file only if a    *)
(* socket has used the table: StrayNeedsSockets for every OPEN_MAX.        *)
THEOREM ClosedIsHarmless == Spec => []StrayNeedsSockets
<1>1. Init => StepInv
  <2> SUFFICES ASSUME Init PROVE InStep /\ ~strayed
    BY DEF StepInv, StrayNeedsSockets
  <2> QED
    BY NullOutside DEF Init, InStep, FreeSlot
<1>2. TypeInv /\ StepInv /\ [Next]_vars => StepInv'
  <2> SUFFICES ASSUME TypeInv, StepInv, [Next]_vars, ~shared' PROVE InStep' /\ ~strayed'
    BY DEF StepInv, StrayNeedsSockets
  <2> USE DEF TypeInv, TypeOK
  <2>1. ASSUME ~shared  PROVE InStep /\ ~strayed
    BY <2>1 DEF StepInv, StrayNeedsSockets
  <2>2. ASSUME NEW m \in {"REG", "DIR"}, NEW f \in Fds, NEW i \in Slots,
               fatfs_open(m, f, i)
        PROVE  InStep' /\ ~strayed'
    <3>1. InStep /\ ~strayed'
      BY <2>1, <2>2 DEF fatfs_open
    <3>2. i = f - 3
      BY <2>2, <3>1, AllocatesInStep DEF fatfs_open
    <3>3. pool'[i].kind # "free" /\ \A j \in Slots : j # i => pool'[j] = pool[j]
      BY <2>2, SlotTypes DEF fatfs_open
    <3>4. /\ mode'[f] = m /\ opaque'[f] = i /\ isallocated'[f]
          /\ \A g \in Fds : g # f => /\ mode'[g] = mode[g] /\ opaque'[g] = opaque[g]
                                     /\ isallocated'[g] = isallocated[g]
      BY <2>2 DEF fatfs_open, fill_fd
    <3>5. \A g \in Fds : g # f => g - 3 # i /\ g - 3 \in Slots
      BY <3>2, NullOutside DEF Fds
    <3>6. i + 3 \in Fds
      BY <3>2 DEF Fds
    <3>7. \A g \in Fds :
             /\ mode'[g] # "SOCK"
             /\ opaque'[g] \in {NULL, g - 3}
             /\ isallocated'[g] <=> pool'[g - 3].kind # "free"
      <4>1. CASE m # "SOCK"
        <5>1. ASSUME NEW g \in Fds, g # f
              PROVE  /\ mode'[g] # "SOCK"
                     /\ opaque'[g] \in {NULL, g - 3}
                     /\ isallocated'[g] <=> pool'[g - 3].kind # "free"
          BY <3>1, <3>3, <3>4, <3>5, <5>1 DEF InStep
        <5> QED  BY <3>2, <3>3, <3>4, <4>1, <5>1
      <4> QED  BY <4>1
    <3>8. \A j \in Slots : j + 3 \notin Fds => pool'[j].kind = "free"
      BY <3>1, <3>3, <3>6 DEF InStep
    <3> QED
      BY <3>1, <3>7, <3>8 DEF InStep
  <2>3. CASE OpenFails
    BY <2>1, <2>3 DEF OpenFails, InStep
  <2>4. ASSUME NEW f \in Fds, Io(f) \/ Fdopendir(f) \/ SocketCloses(f)
        PROVE  InStep' /\ ~strayed'
    <3>1. CASE Io(f)
      <4>1. isallocated[f]
        BY <2>1, <3>1 DEF Io, Live, InStep
      <4> QED  BY <2>1, <3>1, <4>1 DEF Io, fdVars, Through, InStep
    <3>2. CASE Fdopendir(f)  BY <2>1, <3>2 DEF Fdopendir, fdVars, InStep
    <3>3. CASE SocketCloses(f)  BY <2>1, <3>3 DEF SocketCloses, InStep
    <3> QED  BY <2>4, <3>1, <3>2, <3>3
  <2>5. ASSUME NEW f \in Fds, fatfs_close(f) PROVE InStep' /\ ~strayed'
    <3>1. InStep /\ ~strayed
      BY <2>1, <2>5 DEF fatfs_close
    <3>2. opaque[f] = f - 3 /\ isallocated[f]
      BY <2>5, <3>1 DEF fatfs_close, Live, InStep
    <3>3. /\ pool'[f - 3].kind = "free"
          /\ \A j \in Slots : j # f - 3 => pool'[j] = pool[j]
      BY <2>5, <3>2, NullOutside DEF fatfs_close, FreeSlot
    <3>4. ~isallocated'[f] /\ \A g \in Fds : g # f => isallocated'[g] = isallocated[g]
      BY <2>5 DEF fatfs_close
    <3>5. \A g \in Fds : g # f => g - 3 # f - 3 /\ g - 3 \in Slots
      BY NullOutside DEF Fds
    <3> QED
      BY <2>5, <3>1, <3>2, <3>3, <3>4, <3>5 DEF fatfs_close, Through, InStep
  <2>6. ASSUME NEW i \in Slots, NEW loc \in Locs, MoveTo(i, loc)
        PROVE  InStep' /\ ~strayed'
    BY <2>1, <2>6, MovesOnly, NullOutside DEF InStep
  <2>7. CASE SocketOpens
    BY <2>7 DEF SocketOpens
  <2>8. CASE UNCHANGED vars
    BY <2>1, <2>8 DEF vars, fdVars, InStep
  <2> QED
    BY <2>2, <2>3, <2>4, <2>5, <2>6, <2>7, <2>8, StepCases
<1>3. StepInv => StrayNeedsSockets
  BY DEF StepInv
<1> QED
  BY <1>1, <1>2, <1>3, TypeInvariant, PTL DEF Spec

-----------------------------------------------------------------------------

LEMMA TablesFinite == IsFiniteSet(UsedSlots) /\ IsFiniteSet(FileFds)
<1>1. IsFiniteSet(Slots) /\ IsFiniteSet(Fds)
  BY FatfsAssumption, FS_Interval DEF Slots, Fds
<1> QED
  BY <1>1, FS_Subset DEF UsedSlots, FileFds

(* open() with a free descriptor always finds a free entry of the pool:    *)
(* PoolSuffices for every OPEN_MAX, closed descriptors in use or not.      *)
THEOREM PoolNeverShort == Spec => []PoolSuffices
<1>1. Init => PoolSuffices
  <2> SUFFICES ASSUME Init PROVE PoolSuffices
    OBVIOUS
  <2>1. UsedSlots = {} /\ FileFds = {}
    BY DEF Init, UsedSlots, FileFds, FreeSlot
  <2> QED
    BY <2>1, FS_EmptySet DEF PoolSuffices
<1>2. TypeInv /\ PoolSuffices /\ [Next]_vars => PoolSuffices'
  <2> SUFFICES ASSUME TypeInv, PoolSuffices, [Next]_vars PROVE PoolSuffices'
    OBVIOUS
  <2> USE DEF TypeInv, TypeOK
  <2>0. Cardinality(UsedSlots) \in Nat /\ Cardinality(FileFds) \in Nat
    BY TablesFinite, FS_CardinalityType
  <2>1. ASSUME NEW m \in {"REG", "DIR"}, NEW f \in Fds, NEW i \in Slots,
               fatfs_open(m, f, i)
        PROVE  PoolSuffices'
    <3>1. FileFds' = FileFds \cup {f} /\ f \notin FileFds
      BY <2>1 DEF fatfs_open, fill_fd, FileFds, file_alloc, FreeFds
    <3>2. UsedSlots' = UsedSlots \cup {i} /\ i \notin UsedSlots
      BY <2>1, SlotTypes DEF fatfs_open, UsedSlots, fatfs_fildir_alloc, FreeSlots
    <3>3. Cardinality(FileFds') = Cardinality(FileFds) + 1
      BY <3>1, TablesFinite, FS_AddElement
    <3>4. Cardinality(UsedSlots') = Cardinality(UsedSlots) + 1
      BY <3>2, TablesFinite, FS_AddElement
    <3> QED  BY <2>0, <3>3, <3>4 DEF PoolSuffices
  <2>2. ASSUME UNCHANGED <<UsedSlots, FileFds>>  PROVE PoolSuffices'
    BY <2>2 DEF PoolSuffices
  <2>3. CASE OpenFails
    BY <2>2, <2>3 DEF OpenFails, FileFds, UsedSlots, file_alloc, FreeFds
  <2>4. ASSUME NEW f \in Fds, Io(f) \/ Fdopendir(f) \/ SocketCloses(f)
        PROVE  PoolSuffices'
    BY <2>2, <2>4 DEF Io, Fdopendir, SocketCloses, fdVars, FileFds, UsedSlots
  <2>5. ASSUME NEW f \in Fds, fatfs_close(f) PROVE PoolSuffices'
    <3>1. FileFds' = FileFds \ {f}
      BY <2>5 DEF fatfs_close, FileFds
    <3>2. UsedSlots' = UsedSlots \ {opaque[f]} /\ opaque[f] \in UsedSlots
      BY <2>5 DEF fatfs_close, Live, UsedSlots, FreeSlot
    <3>3. Cardinality(UsedSlots') = Cardinality(UsedSlots) - 1
      <4>1. ASSUME NEW s \in UsedSlots
            PROVE  Cardinality(UsedSlots \ {s}) = Cardinality(UsedSlots) - 1
        BY TablesFinite, FS_RemoveElement
      <4> QED  BY <3>2, <4>1
    <3>4. Cardinality(FileFds') \in {Cardinality(FileFds), Cardinality(FileFds) - 1}
      BY <3>1, TablesFinite, FS_RemoveElement
    <3> QED  BY <2>0, <3>3, <3>4 DEF PoolSuffices
  <2>6. ASSUME NEW i \in Slots, NEW loc \in Locs, MoveTo(i, loc) PROVE PoolSuffices'
    BY <2>2, <2>6, MovesOnly DEF FileFds, UsedSlots
  <2>7. CASE SocketOpens
    BY <2>2, <2>7 DEF SocketOpens, fill_fd, FileFds, UsedSlots, file_alloc, FreeFds
  <2>8. CASE UNCHANGED vars
    BY <2>2, <2>8 DEF vars, fdVars, FileFds, UsedSlots
  <2> QED
    BY <2>1, <2>3, <2>4, <2>5, <2>6, <2>7, <2>8, StepCases
<1> QED
  BY <1>1, <1>2, TypeInvariant, PTL DEF Spec

-----------------------------------------------------------------------------
(* The SD card: the driver and the card, in steps. *)

Transfer == call \in {"read", "write"}

(* The types that the arguments below use. *)
CardTypes ==
    /\ card \in {"none", "off", "idle", "starting", "ready"}
    /\ sdhc \in BOOLEAN /\ byte_addressable \in BOOLEAN
    /\ misread \in BOOLEAN
    /\ initialized \in BOOLEAN /\ changed \in BOOLEAN /\ failed \in BOOLEAN
    /\ mem \in [Sectors -> Int] /\ before \in [Sectors -> Int]
    /\ first \in Nat /\ count \in Nat /\ done \in Nat
    /\ swaps \in Nat /\ writes \in Nat
    /\ buf \in Seq(Int)

(* A card that was taken out and not initialised again is a changed one.   *)
Outside == initialized /\ card \in {"none", "off"} => changed

(* The units in force are those of the card, or CMD58 was refused. *)
Units == initialized /\ ~changed => (misread <=> byte_addressable = sdhc)

(* Commands belong to the calls that give them. *)
Commands ==
    /\ call = "initialize" => at \in {"CMD0", "CMD8", "CMD41", "CMD58", "CMD16"}
    /\ call \notin {"initialize", "read", "write"} => at = "none"

(* The last commands of disk_initialize() reach a ready card or none, and  *)
(* after CMD58 a card that answers is one whose units are known.           *)
Starting ==
    /\ call = "initialize" /\ at \in {"CMD58", "CMD16"} => card \in {"ready", "off", "none"}
    /\ call = "initialize" /\ at = "CMD16" /\ card = "ready" =>
            byte_addressable = ~sdhc /\ ~misread

(* A transfer is at one of its commands, has sectors left and, past the    *)
(* command, a sector that the card has, if there is one that answers.      *)
Going ==
    Transfer =>
        /\ initialized /\ done < count
        /\ call = "read" => at \in {"CMD17", "token"}
        /\ call = "write" => at \in {"CMD24", "data", "busy"}
        /\ at \in {"token", "data", "busy"} /\ card \notin {"none", "off"} =>
                Located(Addr) \in Sectors

(* What a transfer has done so far. *)
SoFar ==
    ~changed /\ ~misread =>
        /\ call = "write" => mem = Written(done)
        /\ call = "read" => /\ Len(buf) = done
                            /\ \A i \in 1..done : buf[i] = mem[first + i - 1]

CardInv ==
    /\ CardTypes /\ StatusTrue /\ Outside /\ Units
    /\ Commands /\ Starting /\ Going /\ SoFar

-----------------------------------------------------------------------------

LEMMA DivMul ==
    ASSUME NEW a \in Nat, NEW b \in Nat \ {0}
    PROVE  (a * b) \div b = a
  OBVIOUS

(* On the card that was initialised the driver addresses the sector it     *)
(* means.                                                                  *)
LEMMA Addressed ==
    ASSUME CardTypes, Units, initialized, ~changed, ~misread
    PROVE  Located(Addr) = first + done
<1>1. first + done \in Nat  BY DEF CardTypes
<1>2. CASE sdhc  BY <1>2 DEF CardTypes, Units, Located, Addr, get_addr
<1>3. CASE ~sdhc
  <2>1. Addr = (first + done) * SECTOR_SIZE
    BY <1>3 DEF CardTypes, Units, Addr, get_addr
  <2>2. Located(Addr) = ((first + done) * SECTOR_SIZE) \div SECTOR_SIZE
    BY <1>3, <2>1 DEF Located
  <2> QED  BY <1>1, <2>2, DivMul, CardAssumption
<1> QED  BY <1>2, <1>3 DEF CardTypes

(* A block that is programmed is the next one of the write. *)
LEMMA OneMore ==
    ASSUME CardTypes, Units, initialized, ~changed, ~misread,
           Located(Addr) \in Sectors, mem = Written(done)
    PROVE  Programmed = Written(done + 1)
<1>1. Located(Addr) = first + done  BY Addressed
<1>2. ASSUME NEW s \in Sectors PROVE Programmed[s] = Written(done + 1)[s]
  BY <1>1, <1>2 DEF Programmed, Written, CardTypes, Sectors, Data
<1> QED  BY <1>2 DEF Programmed, Written, CardTypes

LEMMA ProgrammedType ==
    ASSUME CardTypes PROVE Programmed \in [Sectors -> Int]
<1>1. Data(writes, done) \in Int  BY DEF CardTypes, Data
<1> QED  BY <1>1 DEF CardTypes, Programmed

LEMMA SameAddress ==
    ASSUME UNCHANGED <<sdhc, byte_addressable, first, done>>
    PROVE  Located(Addr)' = Located(Addr)
  BY DEF Located, Addr, get_addr

LEMMA Appended ==
    ASSUME NEW s \in Seq(Int), NEW e \in Int
    PROVE  /\ Append(s, e) \in Seq(Int) /\ Len(Append(s, e)) = Len(s) + 1
           /\ \A i \in 1..Len(s) : Append(s, e)[i] = s[i]
           /\ Append(s, e)[Len(s) + 1] = e
  OBVIOUS

LEMMA ContentsType ==
    ASSUME NEW n \in Nat PROVE Contents(n) \in [Sectors -> Int]
<1>1. ASSUME NEW s \in Sectors PROVE 100 * n + s \in Int
  BY CardAssumption DEF Sectors
<1> QED  BY <1>1 DEF Contents

(* The driver's calls and the card, step by step: the invariant holds in   *)
(* every state.                                                            *)
THEOREM CardInvariant == CardSpec => []CardInv
<1>1. CardInit => CardInv
  <2> SUFFICES ASSUME CardInit PROVE CardInv
    OBVIOUS
  <2>1. mem \in [Sectors -> Int]  BY ContentsType DEF CardInit
  <2>2. buf \in Seq(Int)  BY DEF CardInit
  <2>3. /\ sdhc \in BOOLEAN /\ byte_addressable \in BOOLEAN /\ initialized \in BOOLEAN
        /\ changed \in BOOLEAN /\ failed \in BOOLEAN /\ misread \in BOOLEAN
    BY DEF CardInit
  <2>4. CardTypes  BY <2>1, <2>2, <2>3 DEF CardInit, CardTypes
  <2> QED
    BY <2>4 DEF CardInit, CardInv, StatusTrue, Outside, Units, Commands, Starting,
       Going, SoFar, Transfer
<1>2. CardInv /\ [CardNext]_sdVars => CardInv'
  <2> SUFFICES ASSUME CardInv, [CardNext]_sdVars PROVE CardInv'
    OBVIOUS
  <2> USE DEF CardInv, CardTypes, StatusTrue, Outside, Units, Commands, Starting,
              Going, SoFar, Transfer, cardVars, driverVars, jobVars
  <2>1. CASE disk_initialize
    BY <2>1 DEF disk_initialize, Written
  <2>2. CASE CMD0
    BY <2>2 DEF CMD0, Now, GoOn, TryAgain, Fail, Return,
       Answers
  <2>3. CASE CMD8
    BY <2>3 DEF CMD8, Now, GoOn, Fail, Return,
       Answers
  <2>4. CASE CMD41
    BY <2>4 DEF CMD41, Now, GoOn, TryAgain, Fail, Return,
       Answers
  <2>5. CASE CMD58
    BY <2>5 DEF CMD58, Now, GoOn, Succeed, Return, Answers
  <2>6. CASE CMD16
    BY <2>6 DEF CMD16, Now, Succeed, Fail, Return,
       Answers
  <2>7. ASSUME NEW f \in Sectors, NEW n \in 1..MaxCount, disk_read(f, n)
        PROVE  CardInv'
    BY <2>7, CardAssumption DEF disk_read, Begin, Sectors
  <2>8. ASSUME NEW f \in Sectors, NEW n \in 1..MaxCount, disk_write(f, n)
        PROVE  CardInv'
    BY <2>8, CardAssumption DEF disk_write, Begin, Sectors, Written
  <2>9. CASE send_rw_cmd
    <3>1. CardTypes'  BY <2>9 DEF send_rw_cmd
    <3>2. StatusTrue' /\ Outside' /\ Units' /\ Commands' /\ Starting'
      BY <2>9 DEF send_rw_cmd, GoOn, Ends
    <3>3. Going'
      BY <2>9, SameAddress DEF send_rw_cmd, GoOn, Ends, Locates
    <3>4. SoFar'
      BY <2>9 DEF send_rw_cmd, GoOn, Ends, Written
    <3> QED  BY <3>1, <3>2, <3>3, <3>4
  <2>10. CASE read_block
    <3>1. mem[Located(Addr)] \in Int
      BY <2>10 DEF read_block, Now, Answers
    <3>2. StatusTrue' /\ Outside' /\ Units' /\ Commands' /\ Starting'
      BY <2>10 DEF read_block, Now, NextSector, GoOn, Ends
    <3>5. CardTypes'
      <4>1. buf' \in Seq(Int)  BY <2>10, <3>1, Appended DEF read_block
      <4>2. done' \in Nat  BY <2>10 DEF read_block, NextSector
      <4> QED  BY <2>10, <4>1, <4>2 DEF read_block
    <3>3. Going'
      BY <2>10 DEF read_block, Now, NextSector, GoOn, Ends
    <3>4. SoFar'
      <4> SUFFICES ASSUME ~changed, ~misread, call' = "read"
                   PROVE  /\ Len(buf') = done'
                          /\ \A i \in 1..done' : buf'[i] = mem'[first' + i - 1]
        BY <2>10 DEF read_block, Now, NextSector, GoOn, Ends
      <4>1. Located(Addr) = first + done
        BY <2>10, Addressed DEF read_block, Now
      <4>2. /\ buf' = Append(buf, mem[first + done]) /\ done' = done + 1
            /\ UNCHANGED <<mem, first>>
        BY <2>10, <4>1 DEF read_block, Now, NextSector, GoOn, Ends
      <4>3. Len(buf) = done /\ \A i \in 1..done : buf[i] = mem[first + i - 1]
        BY <2>10 DEF read_block, Now
      <4>4. first + (done + 1) - 1 = first + done  OBVIOUS
      <4>5. buf \in Seq(Int) /\ done \in Nat /\ mem[first + done] \in Int  BY <3>1, <4>1
      <4>6. Len(buf') = done'  BY <4>2, <4>3, <4>5, Appended
      <4>7. ASSUME NEW i \in 1..(done + 1) PROVE buf'[i] = mem[first + i - 1]
        <5>1. CASE i = done + 1  BY <4>2, <4>3, <4>4, <4>5, <5>1, Appended
        <5>2. CASE i # done + 1
          <6>1. i \in 1..done  BY <4>5, <5>2
          <6> QED  BY <4>2, <4>3, <4>5, <6>1, Appended
        <5> QED  BY <5>1, <5>2
      <4> QED  BY <4>2, <4>6, <4>7
    <3> QED  BY <3>2, <3>3, <3>4, <3>5
  <2>11. CASE send_block
    <3>1. CardTypes' /\ StatusTrue' /\ Outside' /\ Units' /\ Commands' /\ Starting'
      BY <2>11 DEF send_block, Now, GoOn, Ends
    <3>2. Going'  BY <2>11, SameAddress DEF send_block, Now, GoOn, Ends
    <3>3. SoFar'  BY <2>11 DEF send_block, Now, GoOn, Ends, Written
    <3> QED  BY <3>1, <3>2, <3>3
  <2>12. CASE wait_end_write
    <3>1. ~changed /\ ~misread => Programmed = Written(done + 1)
      BY <2>12, OneMore DEF wait_end_write, Now, Answers
    <3>2. mem' \in [Sectors -> Int]
      BY <2>12, ProgrammedType DEF wait_end_write
    <3>3. CardTypes' /\ StatusTrue' /\ Outside' /\ Units' /\ Commands' /\ Starting'
      BY <2>12, <3>2 DEF wait_end_write, Now, NextSector, GoOn, Ends
    <3>4. Going'
      BY <2>12 DEF wait_end_write, Now, NextSector, GoOn, Ends
    <3>5. SoFar'
      BY <2>12, <3>1
         DEF wait_end_write, Now, NextSector, GoOn, Ends,
             Written
    <3> QED  BY <3>3, <3>4, <3>5
  <2>13. CASE CardStarts
    <3>1. CardTypes' /\ StatusTrue' /\ Outside' /\ Units' /\ Commands' /\ Starting'
      BY <2>13 DEF CardStarts
    <3>2. Going' /\ SoFar'  BY <2>13, SameAddress DEF CardStarts, Written
    <3> QED  BY <3>1, <3>2
  <2>14. CASE Remove
    BY <2>14 DEF Remove
  <2>15. CASE Insert
    BY <2>15 DEF Insert, Contents, Sectors
  <2>16. CASE Hang
    BY <2>16 DEF Hang, Answers
  <2>17. CASE UNCHANGED sdVars
    <3>1. CardTypes' /\ StatusTrue' /\ Outside' /\ Units' /\ Commands' /\ Starting'
      BY <2>17 DEF sdVars
    <3>2. Going' /\ SoFar'  BY <2>17, SameAddress DEF sdVars, Written
    <3> QED  BY <3>1, <3>2
  <2> QED
    BY <2>1, <2>2, <2>3, <2>4, <2>5, <2>6, <2>7, <2>8, <2>9, <2>10, <2>11, <2>12, <2>13,
       <2>14, <2>15, <2>16, <2>17 DEF CardNext, Hung
<1> QED  BY <1>1, <1>2, PTL DEF CardSpec

(* A drive that disk_status() calls ready has a card that is ready and     *)
(* addressed in its own units, unless it was changed, disk_initialize()    *)
(* failed on it or it refused CMD58.                                       *)
THEOREM StatusCorrect == CardSpec => []StatusTrue
<1>1. CardInv => StatusTrue  BY DEF CardInv
<1> QED  BY <1>1, CardInvariant, PTL

(* disk_read() and disk_write() have done what they report: all of it, or  *)
(* the first sectors of a write that failed, on the card that was          *)
(* initialised and whose capacity is known.                                *)
THEOREM TransfersCorrect == CardSpec => TransfersRight
<1> DEFINE Right ==
        call' = "none" /\ ~changed /\ ~misread =>
            /\ call = "write" =>
                \E k \in 0..count : mem' = Written(k) /\ (result' = "RES_OK" => k = count)
            /\ call = "read" /\ result' = "RES_OK" =>
                buf' = [i \in 1..count |-> mem[first + i - 1]]
<1>1. CardInv /\ CardInv' /\ [CardNext]_sdVars => [Right]_sdVars
  <2> SUFFICES ASSUME CardInv, CardNext, call' = "none", ~changed, ~misread, Transfer
               PROVE  Right
    BY DEF Transfer
  <2> USE DEF CardInv, CardTypes, Going, SoFar, Transfer
  <2>1. CASE send_rw_cmd
    BY <2>1 DEF send_rw_cmd, GoOn, Ends, cardVars, jobVars
  <2>2. CASE read_block
    <3>1. Located(Addr) = first + done
      BY <2>2, Addressed DEF read_block, Now
    <3>2. CASE result' # "RES_OK"  BY <2>2, <3>2 DEF read_block, Now
    <3>3. CASE result' = "RES_OK"
      <4>1. buf' = Append(buf, mem[first + done]) /\ done + 1 = count
        BY <2>2, <3>1, <3>3
           DEF read_block, Now, NextSector, GoOn, Ends
      <4>2. mem[first + done] \in Int
        BY <2>2, <3>1 DEF read_block, Now, Answers
      <4>3. Len(buf) = done /\ \A i \in 1..done : buf[i] = mem[first + i - 1]
        BY <2>2 DEF read_block, Now
      <4>4. buf' \in Seq(Int) /\ Len(buf') = count
        BY <4>1, <4>2, <4>3, Appended
      <4>5. ASSUME NEW i \in 1..count PROVE buf'[i] = mem[first + i - 1]
        <5>1. CASE i = count
          <6>1. i = Len(buf) + 1 /\ first + i - 1 = first + done  BY <4>1, <4>3, <5>1
          <6> QED  BY <4>1, <4>2, <6>1, Appended
        <5>2. CASE i # count
          <6>1. i \in 1..done  BY <4>1, <5>2
          <6> QED  BY <4>1, <4>2, <4>3, <6>1, Appended
        <5> QED  BY <5>1, <5>2
      <4> QED  BY <2>2, <4>4, <4>5 DEF read_block, Now
    <3> QED  BY <3>2, <3>3
  <2>3. CASE send_block
    BY <2>3 DEF send_block, Now, GoOn, Ends, cardVars, jobVars
  <2>4. CASE wait_end_write
    BY <2>4, OneMore
       DEF wait_end_write, Now, NextSector, GoOn, Ends, Answers
  <2> QED
    BY <2>1, <2>2, <2>3, <2>4
       DEF CardNext, disk_initialize, CMD0, CMD8, CMD41, CMD58,
           CMD16, Now, disk_read, disk_write,
           Begin, CardStarts, Remove, Insert, Hang, Hung,
           sdVars
<1> QED  BY <1>1, CardInvariant, PTL DEF CardSpec, TransfersRight
=============================================================================
