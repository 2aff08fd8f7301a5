------------------------------- MODULE LogStore -------------------------------
(***************************************************************************)
(* The ring log of measurements kept in the "bmelog" flash partition       *)
(* (firmware/components/log_store), with the boot sequence of app_main     *)
(* that recovers it.                                                       *)
(*                                                                         *)
(* A slot number of the C code is kept as its two digits, a sector and a   *)
(* slot of that sector: head is <<headSector, headSlot>>, and tail, which  *)
(* the code only ever sets to the first slot of a sector, is tailSector.   *)
(* A flash call (one sector erase, one slot write) is one step.  Before it *)
(* returns it may fail, or the power may go: then any of the bits it was   *)
(* changing may have changed.  Everything between two flash calls is RAM   *)
(* work that no other task sees, as every caller holds the device lock.    *)
(*                                                                         *)
(* A record is the number of the append that offered it, so record numbers *)
(* say in which order the records were taken.                              *)
(***************************************************************************)
EXTENDS Integers

CONSTANTS
  Sectors,          \* LOG_STORE_SECTORS
  SlotsPerSector,   \* LOG_STORE_SLOTS_PER_SECTOR
  MaxRecords,       \* bound: appends in a behaviour
  Faults,           \* what may go wrong, a subset of FaultKinds
  Blank,            \* an erased slot, all bits 1
  Damaged           \* a slot that is not blank and fails its CRC

FaultKinds == {"cut",           \* power cut, except while clearing
               "cut_clear",     \* power cut while clearing
               "fail",          \* a flash call of an append returns an error
               "fail_dirty",    \* a failing slot write has cleared some bits
               "fail_clear",    \* an erase of log_store_clear returns an error
               "fail_init"}     \* a read of log_store_init returns an error

ASSUME SectorsAssumption == Sectors \in Nat /\ Sectors >= 3
ASSUME SlotsAssumption == SlotsPerSector \in Nat /\ SlotsPerSector >= 1
ASSUME MaxRecordsAssumption == MaxRecords \in Nat
ASSUME FaultsAssumption == Faults \subseteq FaultKinds
ASSUME CellAssumption == Blank \notin Nat /\ Damaged \notin Nat /\ Blank # Damaged

VARIABLES
  flash,        \* flash[s][i]: what slot i of sector s holds
  headSector,   \* the next slot to write, kept while the power is off
  headSlot,     \*   (log_store_init sets it before any use)
  tailSector,   \* the sector of the oldest record, kept likewise
  pc,           \* the flash call that is under way
  k,            \* the sector log_store_clear erases next
  next          \* how many records have been offered to log_store_append

vars == <<flash, headSector, headSlot, tailSector, pc, k, next>>
ring == <<headSector, headSlot, tailSector>>

Sector == 0 .. Sectors - 1
Slot == 0 .. SlotsPerSector - 1
Capacity == (Sectors - 1) * SlotsPerSector
BlankSector == [i \in Slot |-> Blank]

\* Mutated form of Succ: no wrap at the end of the partition.
SuccWithoutWrap(s) == s + 1

Succ(s) == IF s = Sectors - 1 THEN 0 ELSE s + 1
Pred(s) == IF s = 0 THEN Sectors - 1 ELSE s - 1
Dist(s, t) == IF s <= t THEN t - s ELSE t + Sectors - s

\* The reading of a sector's first slot stands for the whole sector.
Erased(s) == flash[s][0] = Blank

\* log_store_count
Count == Dist(tailSector, headSector) * SlotsPerSector + headSlot

IsLive(s, i) == \/ Dist(tailSector, s) < Dist(tailSector, headSector)
                \/ s = headSector /\ i < headSlot

\* What log_store_read finds: the decodable slots between tail and head.
Live == {r \in 0 .. next - 1 : \E s \in Sector, i \in Slot : IsLive(s, i) /\ flash[s][i] = r}

(***************************************************************************)
(* Flash.  Programming only clears bits, so a second record over a first   *)
(* leaves one that fails its CRC; erasing only sets bits, so a blank slot  *)
(* stays blank when the erase of its sector is torn.                       *)
(***************************************************************************)
Program(cell, r) == IF cell = Blank THEN r ELSE Damaged

TornErase(old, wiped, spoilt) ==
  [i \in Slot |-> IF i \in wiped THEN Blank
                  ELSE IF i \in spoilt /\ old[i] # Blank THEN Damaged
                  ELSE old[i]]

TornWrite(cell, r) == {cell, Damaged, Program(cell, r)}

\* The sector that the erase under way is for.
Target == CASE pc = "reclaim" -> headSector
            [] pc = "erase_ahead" -> Succ(headSector)
            [] pc = "clear" -> k
            [] OTHER -> 0

EraseBegun == \E wiped, spoilt \in SUBSET Slot :
                flash' = [flash EXCEPT ![Target] = TornErase(@, wiped, spoilt)]

WriteBegun == \E cell \in TornWrite(flash[headSector][headSlot], next - 1) :
                flash' = [flash EXCEPT ![headSector][headSlot] = cell]

(***************************************************************************)
(* log_store_append, up to its first flash call that changes anything.     *)
(***************************************************************************)
\* Mutated forms of AppendStart: without the reclaim of a dirty sector, and
\* without any erase at a sector boundary.
AppendWithoutReclaim ==
  /\ pc = "idle" /\ next < MaxRecords
  /\ next' = next + 1
  /\ pc' = IF headSlot # 0 THEN "write" ELSE "erase_ahead"
  /\ UNCHANGED <<flash, ring, k>>

AppendWithoutErase ==
  /\ pc = "idle" /\ next < MaxRecords
  /\ next' = next + 1
  /\ pc' = "write"
  /\ UNCHANGED <<flash, ring, k>>

AppendStart ==
  /\ pc = "idle" /\ next < MaxRecords
  /\ next' = next + 1
  /\ pc' = CASE headSlot # 0 -> "write"
             [] headSlot = 0 /\ Erased(headSector) -> "erase_ahead"
             [] OTHER -> "reclaim"
  /\ UNCHANGED <<flash, ring, k>>

\* erase_sector: if the oldest record lived there, the tail moves past it.
EraseSector(s) ==
  /\ flash' = [flash EXCEPT ![s] = BlankSector]
  /\ tailSector' = IF Count > 0 /\ tailSector = s THEN Succ(s) ELSE tailSector
  /\ UNCHANGED <<headSector, headSlot>>

Reclaim ==
  /\ pc = "reclaim"
  /\ EraseSector(headSector)
  /\ pc' = "erase_ahead"
  /\ UNCHANGED <<k, next>>

EraseAhead ==
  /\ pc = "erase_ahead"
  /\ EraseSector(Succ(headSector))
  /\ pc' = "write"
  /\ UNCHANGED <<k, next>>

\* The slot is written, the head moves on and log_store_append returns 0.
Write ==
  /\ pc = "write"
  /\ flash' = [flash EXCEPT ![headSector][headSlot] = Program(@, next - 1)]
  /\ IF headSlot = SlotsPerSector - 1
       THEN headSlot' = 0 /\ headSector' = Succ(headSector)
       ELSE headSlot' = headSlot + 1 /\ UNCHANGED headSector
  /\ pc' = "idle"
  /\ UNCHANGED <<tailSector, k, next>>

\* A flash call returns an error, and log_store_append returns it.
AppendFails ==
  /\ pc \in {"reclaim", "erase_ahead", "write"} /\ "fail" \in Faults
  /\ \/ UNCHANGED flash
     \/ pc \in {"reclaim", "erase_ahead"} /\ EraseBegun
     \/ pc = "write" /\ "fail_dirty" \in Faults /\ WriteBegun
  /\ pc' = "idle"
  /\ UNCHANGED <<ring, k, next>>

(***************************************************************************)
(* log_store_clear                                                         *)
(***************************************************************************)
ClearStart ==
  /\ pc = "idle"
  /\ pc' = "clear" /\ k' = 0
  /\ UNCHANGED <<flash, ring, next>>

\* Mutated form of ClearSector: one sector too few.
ClearLeavesOneSector ==
  /\ pc = "clear"
  /\ flash' = [flash EXCEPT ![k] = BlankSector]
  /\ IF k = Sectors - 2
       THEN /\ headSector' = 0 /\ headSlot' = 0 /\ tailSector' = 0
            /\ pc' = "idle" /\ k' = 0
       ELSE k' = k + 1 /\ UNCHANGED <<ring, pc>>
  /\ UNCHANGED next

ClearSector ==
  /\ pc = "clear"
  /\ flash' = [flash EXCEPT ![k] = BlankSector]
  /\ IF k = Sectors - 1
       THEN /\ headSector' = 0 /\ headSlot' = 0 /\ tailSector' = 0
            /\ pc' = "idle" /\ k' = 0
       ELSE k' = k + 1 /\ UNCHANGED <<ring, pc>>
  /\ UNCHANGED next

\* The early return of log_store_clear: head and tail stay as they were.
ClearFails ==
  /\ pc = "clear" /\ "fail_clear" \in Faults
  /\ EraseBegun
  /\ pc' = "idle" /\ k' = 0
  /\ UNCHANGED <<ring, next>>

(***************************************************************************)
(* A power cut, with the flash call that was under way partly done.        *)
(***************************************************************************)
PowerCut ==
  /\ pc # "off"
  /\ IF pc = "clear" THEN "cut_clear" \in Faults ELSE "cut" \in Faults
  /\ \/ UNCHANGED flash
     \/ pc \in {"reclaim", "erase_ahead", "clear"} /\ EraseBegun
     \/ pc = "write" /\ WriteBegun
  /\ pc' = "off" /\ k' = 0
  /\ UNCHANGED <<ring, next>>

(***************************************************************************)
(* log_store_init.  The erased sectors are taken to be one circular run;   *)
(* the data sits between its end and its start, and the head is the first  *)
(* empty slot of the last data sector, or the run's start if it is full.   *)
(***************************************************************************)
Least(S) == CHOOSE n \in S : \A m \in S : n <= m

\* Mutated form of RunStart: the search for the run is left out.
RunStartAtZero == 0

RunStart == Least({s \in Sector : Erased(s) /\ ~Erased(Pred(s))})

\* Mutated forms of BootTail: the run's own start, and the first data sector of
\* the partition instead of the ring.
BootTailOnRun == RunStart
BootTailLinear == Least({s \in Sector : ~Erased(s)})

\* The first data sector after the run.
BootTail == CHOOSE t \in Sector :
              /\ ~Erased(t)
              /\ \A s \in Sector : ~Erased(s) => Dist(RunStart, t) <= Dist(RunStart, s)

\* Mutated form of EmptySlots: a slot that fails its CRC counts as empty.
UndecodableSlots(s) == {i \in Slot : flash[s][i] \in {Blank, Damaged}}

EmptySlots(s) == {i \in Slot : flash[s][i] = Blank}

BootHead == LET last == Pred(RunStart) IN
            IF EmptySlots(last) = {} THEN <<RunStart, 0>>
            ELSE <<last, Least(EmptySlots(last))>>

SetRing(hs, hi, t) == headSector' = hs /\ headSlot' = hi /\ tailSector' = t

BootEmpty ==
  /\ pc = "off"
  /\ \A s \in Sector : Erased(s)
  /\ SetRing(0, 0, 0)
  /\ pc' = "idle"
  /\ UNCHANGED <<flash, k, next>>

\* LOG_STORE_ERR_CORRUPT: app_main clears the log.
BootCorrupt ==
  /\ pc = "off"
  /\ \A s \in Sector : ~Erased(s)
  /\ SetRing(0, 0, 0)
  /\ pc' = "clear" /\ k' = 0
  /\ UNCHANGED <<flash, next>>

BootRecover ==
  /\ pc = "off"
  /\ \E s \in Sector : Erased(s)
  /\ \E s \in Sector : ~Erased(s)
  /\ SetRing(BootHead[1], BootHead[2], BootTail)
  /\ pc' = "idle"
  /\ UNCHANGED <<flash, k, next>>

\* A read fails; app_main logs it and goes on with what init had set so far.
BootFails ==
  /\ pc = "off" /\ "fail_init" \in Faults
  /\ \/ SetRing(0, 0, 0)
     \/ /\ \E s \in Sector : Erased(s)
        /\ \E s \in Sector : ~Erased(s)
        /\ SetRing(RunStart, 0, BootTail)
  /\ pc' = "idle"
  /\ UNCHANGED <<flash, k, next>>

\* At the first boot the partition is blank, or holds what was there before.
Init ==
  /\ \E cell \in {Blank, Damaged} : flash = [s \in Sector |-> [i \in Slot |-> cell]]
  /\ headSector = 0 /\ headSlot = 0 /\ tailSector = 0
  /\ pc = "off" /\ k = 0 /\ next = 0

Next ==
  \/ AppendStart \/ Reclaim \/ EraseAhead \/ Write \/ AppendFails
  \/ ClearStart \/ ClearSector \/ ClearFails
  \/ PowerCut
  \/ BootEmpty \/ BootCorrupt \/ BootRecover \/ BootFails

Spec == Init /\ [][Next]_vars

(***************************************************************************)
(* Properties                                                              *)
(***************************************************************************)
Call == {"off", "idle", "reclaim", "erase_ahead", "write", "clear"}

\* The shape of the state.
TypeOK ==
  /\ flash \in [Sector -> [Slot -> Nat \cup {Blank, Damaged}]]
  /\ headSector \in Sector /\ headSlot \in Slot /\ tailSector \in Sector
  /\ pc \in Call
  /\ k \in Sector
  /\ next \in Nat

\* The head never laps the tail, whatever fails: log_store_count is computed
\* modulo the ring, so a lap would turn a full log into an almost empty one.
\* One sector is always left out of it (LOG_STORE_CAPACITY).
CapacityBound == Count <= Capacity

\* log_store_read returns records in the order they were appended: offset 0 is
\* the oldest (docs/protocol.md, get_log), across wraps, rolls and restarts.
Chronological ==
  \A s, t \in Sector : \A i, j \in Slot :
    /\ IsLive(s, i) /\ flash[s][i] \in Nat
    /\ IsLive(t, j) /\ flash[t][j] \in Nat
    /\ \/ Dist(tailSector, s) < Dist(tailSector, t)
       \/ s = t /\ i < j
    => flash[s][i] < flash[t][j]

\* A record that log_store_append reported as stored can be read back at once,
\* and nothing stored before is lost with it: the slot it programs is blank.
AckedReadable ==
  [][pc = "write" /\ <<headSector, headSlot>>' # <<headSector, headSlot>>
       => Live' = Live \cup {next - 1}]_vars

\* Outside log_store_clear a stored record is lost only from the oldest sector
\* of a full log, when its room is needed: never in a restart, whatever flash
\* call the power cut or an error interrupted.
RollsOnlyWhenFull ==
  [][pc # "clear" => \A r \in Live \ Live' :
                       /\ Count = Capacity
                       /\ \E i \in Slot : flash[tailSector][i] = r]_vars

\* A failing write that left bits behind is healed when it hit the first slot of
\* a sector: the sector is reclaimed before the next record goes into it.
ReclaimHeals ==
  [][pc = "write" /\ headSlot = 0 /\ <<headSector, headSlot>>' # <<headSector, headSlot>>
       => Live' = Live \cup {next - 1}]_vars

\* A restart brings back no record that was rolled out or cleared: at most the
\* one whose append the power cut interrupted is new to the reader.
RecoveryFaithful == [][pc = "off" /\ pc' = "idle" => Live' \subseteq Live \cup {next - 1}]_vars
===============================================================================
