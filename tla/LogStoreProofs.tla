--------------------------- MODULE LogStoreProofs ---------------------------
(***************************************************************************)
(* Proofs about the log store, for every ring size, sector size and number *)
(* of records.                                                             *)
(*                                                                         *)
(* First, under every fault: the state keeps its types and the head never  *)
(* laps the tail.  Then, under HealthyFaults: the recovery keeps the       *)
(* records and their order, an append that has been answered stays, and    *)
(* the ring in flash implements the bounded queue of RingLog.              *)
(***************************************************************************)
EXTENDS MCLogStore, WellFoundedInduction, SequenceTheorems, TLAPS

(***************************************************************************)
(* Facts about the ring.                                                   *)
(***************************************************************************)

\* A nonempty set of naturals has a least element (the first sector, the
\* first slot that the recovery of log_store_init looks for).
LEMMA LeastExists ==
  ASSUME NEW S \in SUBSET Nat, S # {}
  PROVE \E n \in S : \A m \in S : n <= m
<1> DEFINE R == OpToRel(<, Nat)
<1>1. IsWellFoundedOn(R, Nat)
  BY NatLessThanWellFounded
<1>2. ASSUME NEW m \in Nat, NEW n \in Nat, m < n PROVE <<m, n>> \in R
  BY <1>2 DEF OpToRel
<1> HIDE DEF R
<1>3. PICK n \in S : \A m \in S : ~(<<m, n>> \in R)
  BY <1>1, WFMin
<1>4. ASSUME NEW m \in S PROVE n <= m
  <2>1. ~(<<m, n>> \in R)
    BY <1>3
  <2>2. m \in Nat /\ n \in Nat
    OBVIOUS
  <2>3. ~(m < n)
    BY <2>1, <2>2, <1>2
  <2> QED BY <2>2, <2>3
<1> QED BY <1>4

LEMMA LeastIsLeast ==
  ASSUME NEW S \in SUBSET Nat, S # {}
  PROVE Least(S) \in S /\ \A m \in S : Least(S) <= m
BY LeastExists DEF Least

\* The neighbours and distances of a sector of the ring.
LEMMA Neighbours ==
  ASSUME NEW s \in Sector
  PROVE /\ Succ(s) \in Sector /\ Pred(s) \in Sector
        /\ Succ(s) # s /\ Succ(Succ(s)) # s
        /\ Succ(Pred(s)) = s /\ Pred(Succ(s)) = s
BY SectorsAssumption DEF Sector, Succ, Pred

LEMMA Distances ==
  ASSUME NEW s \in Sector, NEW t \in Sector
  PROVE /\ Dist(s, t) \in 0 .. Sectors - 1
        /\ Dist(s, t) = 0 <=> s = t
        /\ Dist(s, t) = Sectors - 1 <=> s = Succ(t)
        /\ s # Succ(t) => Dist(s, Succ(t)) = Dist(s, t) + 1
        /\ s # t => Dist(s, Pred(t)) = Dist(s, t) - 1
        /\ \A u \in Sector : Dist(s, u) = Dist(s, t) => u = t
BY SectorsAssumption DEF Sector, Succ, Pred, Dist

LEMMA Multiples ==
  ASSUME NEW a \in Nat, NEW b \in Nat, a <= b
  PROVE a * SlotsPerSector <= b * SlotsPerSector /\ a * SlotsPerSector \in Nat
BY SlotsAssumption

\* With some sector erased and some not, the run of erased sectors has a start,
\* and there is a data sector to take as the tail.
LEMMA RunExists ==
  ASSUME TypeOK, NEW e \in Sector, Erased(e), NEW d \in Sector, ~Erased(d)
  PROVE /\ RunStart \in Sector /\ Erased(RunStart) /\ ~Erased(Pred(RunStart))
        /\ BootTail \in Sector /\ ~Erased(BootTail)
        /\ \A s \in Sector : ~Erased(s) => Dist(RunStart, BootTail) <= Dist(RunStart, s)
<1> DEFINE Starts == {s \in Sector : Erased(s) /\ ~Erased(Pred(s))}
           Away == {Dist(d, s) : s \in {u \in Sector : Erased(u)}}
           Near == {Dist(RunStart, s) : s \in {u \in Sector : ~Erased(u)}}
<1>1. Starts # {}
  <2>1. Away \in SUBSET Nat /\ Away # {}
    BY Distances
  <2>2. PICK n \in Away : \A m \in Away : n <= m
    BY <2>1, LeastExists
  <2>3. PICK s \in Sector : Erased(s) /\ n = Dist(d, s)
    BY <2>2
  <2>4. s # d
    BY <2>3
  <2>5. Dist(d, Pred(s)) = n - 1 /\ Pred(s) \in Sector /\ n \in Nat
    BY <2>3, <2>4, Distances, Neighbours
  <2>6. ~Erased(Pred(s))
    <3>1. SUFFICES ASSUME Erased(Pred(s)) PROVE FALSE
      OBVIOUS
    <3>2. n - 1 \in Away
      BY <3>1, <2>5
    <3> QED BY <3>2, <2>2, <2>5
  <2> QED BY <2>3, <2>6
<1>2. RunStart \in Starts
  <2>1. Starts \in SUBSET Nat
    BY SectorsAssumption DEF Sector
  <2> QED BY <2>1, <1>1, LeastIsLeast DEF RunStart
<1>3. \E t \in Sector : /\ ~Erased(t)
                       /\ \A s \in Sector : ~Erased(s) => Dist(RunStart, t) <= Dist(RunStart, s)
  <2>1. Near \in SUBSET Nat /\ Near # {}
    BY <1>2, Distances
  <2>2. PICK n \in Near : \A m \in Near : n <= m
    BY <2>1, LeastExists
  <2> QED BY <2>2
<1> HIDE DEF Near
<1>4. /\ BootTail \in Sector /\ ~Erased(BootTail)
      /\ \A s \in Sector : ~Erased(s) => Dist(RunStart, BootTail) <= Dist(RunStart, s)
  BY <1>3 DEF BootTail
<1> QED BY <1>2, <1>4

\* The recovered head is a slot of the sector before the run, or the run's start.
LEMMA BootHeadFacts ==
  ASSUME TypeOK, NEW e \in Sector, Erased(e), NEW d \in Sector, ~Erased(d)
  PROVE LET last == Pred(RunStart) IN
        \/ /\ BootHead = <<RunStart, 0>> /\ \A i \in Slot : flash[last][i] # Blank
        \/ \E n \in Slot : /\ BootHead = <<last, n>> /\ flash[last][n] = Blank
                          /\ \A i \in Slot : i < n => flash[last][i] # Blank
<1> DEFINE E == EmptySlots(Pred(RunStart))
<1>1. CASE E = {}
  BY <1>1 DEF BootHead, EmptySlots
<1>2. CASE E # {}
  <2>1. E \in SUBSET Nat
    BY SlotsAssumption DEF EmptySlots, Slot
  <2>2. Least(E) \in E /\ \A m \in E : Least(E) <= m
    BY <1>2, <2>1, LeastIsLeast
  <2>3. BootHead = <<Pred(RunStart), Least(E)>>
    BY <1>2 DEF BootHead
  <2>4. \A i \in Slot : i < Least(E) => flash[Pred(RunStart)][i] # Blank
    <3>1. SUFFICES ASSUME NEW i \in Slot, i < Least(E), flash[Pred(RunStart)][i] = Blank
                   PROVE FALSE
      OBVIOUS
    <3>2. i \in E
      BY <3>1 DEF EmptySlots
    <3> QED BY <3>1, <3>2, <2>1, <2>2
  <2>5. Least(E) \in Slot /\ flash[Pred(RunStart)][Least(E)] = Blank
    BY <2>2 DEF EmptySlots
  <2> QED BY <2>3, <2>4, <2>5
<1> QED BY <1>1, <1>2

(***************************************************************************)
(* Every fault: the state keeps its shape, and the head never laps the     *)
(* tail.                                                                   *)
(***************************************************************************)

\* A flash call that is cut short leaves flash cells in the sectors they are in.
LEMMA EraseKeepsType ==
  ASSUME TypeOK, EraseBegun
  PROVE flash' \in [Sector -> [Slot -> Nat \cup {Blank, Damaged}]]
<1>1. PICK wiped \in SUBSET Slot, spoilt \in SUBSET Slot :
        flash' = [flash EXCEPT ![Target] = TornErase(@, wiped, spoilt)]
  BY DEF EraseBegun
<1>2. ASSUME Target \in Sector
      PROVE TornErase(flash[Target], wiped, spoilt) \in [Slot -> Nat \cup {Blank, Damaged}]
  BY <1>2 DEF TornErase, TypeOK
<1> QED BY <1>1, <1>2 DEF TypeOK

LEMMA WriteKeepsType ==
  ASSUME TypeOK, WriteBegun, next # 0
  PROVE flash' \in [Sector -> [Slot -> Nat \cup {Blank, Damaged}]]
BY DEF WriteBegun, TornWrite, Program, TypeOK

\* The part of a call that has begun which the ring depends on.
Gap == headSlot # 0 \/ pc = "write" => tailSector # Succ(headSector)

CallState == /\ pc \in {"reclaim", "erase_ahead"} => headSlot = 0
             /\ pc \in {"reclaim", "erase_ahead", "write"} => next # 0

CapInv == TypeOK /\ Gap /\ CallState

LEMMA CapInit == Init => CapInv
BY SectorsAssumption, SlotsAssumption
   DEF Init, CapInv, TypeOK, Gap, CallState, Call, Sector, Slot, BlankSector, Succ

LEMMA CapStep == CapInv /\ [Next]_vars => CapInv'
<1> SUFFICES ASSUME CapInv, [Next]_vars PROVE CapInv'
  OBVIOUS
<1> USE SectorsAssumption, SlotsAssumption DEF CapInv, Call
<1>1. CASE AppendStart
  BY <1>1 DEF AppendStart, ring, TypeOK, Gap, CallState
<1>2. CASE Reclaim
  <2>1. tailSector' = tailSector
    BY <1>2 DEF Reclaim, EraseSector, Count, Dist, TypeOK, CallState, Sector
  <2>2. TypeOK'
    BY <1>2, <2>1 DEF Reclaim, EraseSector, TypeOK, BlankSector
  <2> QED BY <1>2, <2>1, <2>2 DEF Reclaim, EraseSector, Gap, CallState
<1>3. CASE EraseAhead
  <2> DEFINE s == Succ(headSector)
  <2>1. s \in Sector /\ Succ(s) \in Sector /\ Succ(s) # s
    BY Neighbours DEF TypeOK
  <2>2. tailSector = s => Count > 0
    <3>1. ASSUME tailSector = s PROVE Dist(tailSector, headSector) \in Nat /\ 1 <= Dist(tailSector, headSector)
      BY <3>1, Distances DEF TypeOK
    <3>2. ASSUME tailSector = s PROVE 1 * SlotsPerSector <= Dist(tailSector, headSector) * SlotsPerSector
      BY <3>1, <3>2, Multiples
    <3>3. headSlot = 0
      BY <1>3 DEF EraseAhead, CallState
    <3> QED BY <3>1, <3>2, <3>3 DEF Count
  <2>3. TypeOK'
    BY <1>3, <2>1 DEF EraseAhead, EraseSector, TypeOK, BlankSector
  <2> QED BY <1>3, <2>1, <2>2, <2>3 DEF EraseAhead, EraseSector, Gap, CallState, TypeOK
<1>4. CASE Write
  <2>1. flash' \in [Sector -> [Slot -> Nat \cup {Blank, Damaged}]]
    BY <1>4 DEF Write, TypeOK, CallState, Program
  <2>2. headSector' \in Sector /\ headSlot' \in Slot
    BY <1>4, Neighbours DEF Write, TypeOK, Slot
  <2> QED BY <1>4, <2>1, <2>2 DEF Write, TypeOK, Gap, CallState
<1>5. CASE AppendFails
  <2>1. flash' \in [Sector -> [Slot -> Nat \cup {Blank, Damaged}]]
    BY <1>5, EraseKeepsType, WriteKeepsType DEF AppendFails, TypeOK, CallState
  <2> QED BY <1>5, <2>1 DEF AppendFails, ring, TypeOK, Gap, CallState
<1>6. CASE ClearStart
  BY <1>6 DEF ClearStart, ring, TypeOK, Gap, CallState, Sector
<1>7. CASE ClearSector
  BY <1>7 DEF ClearSector, ring, TypeOK, Gap, CallState, Sector, Slot, BlankSector
<1>8. CASE ClearFails
  <2>1. flash' \in [Sector -> [Slot -> Nat \cup {Blank, Damaged}]]
    BY <1>8, EraseKeepsType DEF ClearFails
  <2> QED BY <1>8, <2>1 DEF ClearFails, ring, TypeOK, Gap, CallState, Sector
<1>9. CASE PowerCut
  <2>1. flash' \in [Sector -> [Slot -> Nat \cup {Blank, Damaged}]]
    BY <1>9, EraseKeepsType, WriteKeepsType DEF PowerCut, TypeOK, CallState
  <2> QED BY <1>9, <2>1 DEF PowerCut, ring, TypeOK, Gap, CallState, Sector
<1>10. CASE BootEmpty
  BY <1>10 DEF BootEmpty, SetRing, TypeOK, Gap, CallState, Sector, Slot
<1>11. CASE BootCorrupt
  BY <1>11 DEF BootCorrupt, SetRing, TypeOK, Gap, CallState, Sector, Slot
<1>12. CASE BootRecover
  <2>1. PICK e \in Sector, d \in Sector : Erased(e) /\ ~Erased(d)
    BY <1>12 DEF BootRecover
  <2>2. /\ RunStart \in Sector /\ Erased(RunStart)
        /\ BootTail \in Sector /\ ~Erased(BootTail)
    BY <2>1, RunExists
  <2>3. Pred(RunStart) \in Sector /\ Succ(Pred(RunStart)) = RunStart
    BY <2>2, Neighbours
  <2>4. \/ BootHead = <<RunStart, 0>>
        \/ \E n \in Slot : BootHead = <<Pred(RunStart), n>>
    BY <2>1, BootHeadFacts
  <2>5. headSector' \in Sector /\ headSlot' \in Slot /\ tailSector' \in Sector
    BY <1>12, <2>2, <2>3, <2>4 DEF BootRecover, SetRing, Slot
  <2>6. headSlot' # 0 => tailSector' # Succ(headSector')
    BY <1>12, <2>2, <2>3, <2>4 DEF BootRecover, SetRing
  <2> QED BY <1>12, <2>5, <2>6 DEF BootRecover, TypeOK, Gap, CallState
<1>13. CASE BootFails
  <2>1. CASE SetRing(0, 0, 0)
    BY <1>13, <2>1 DEF BootFails, SetRing, TypeOK, Gap, CallState, Sector, Slot
  <2>2. CASE SetRing(RunStart, 0, BootTail) /\ \E e, d \in Sector : Erased(e) /\ ~Erased(d)
    <3>1. RunStart \in Sector /\ BootTail \in Sector
      BY <2>2, RunExists
    <3> QED BY <1>13, <2>2, <3>1 DEF BootFails, SetRing, TypeOK, Gap, CallState, Slot
  <2> QED BY <1>13, <2>1, <2>2 DEF BootFails
<1>14. CASE UNCHANGED vars
  BY <1>14 DEF vars, TypeOK, Gap, CallState
<1> QED
  BY <1>1, <1>2, <1>3, <1>4, <1>5, <1>6, <1>7, <1>8, <1>9, <1>10, <1>11, <1>12, <1>13, <1>14
  DEF Next

\* The head laps the tail in no state of CapInv.
LEMMA CapInvBounds == CapInv => CapacityBound
<1> SUFFICES ASSUME CapInv PROVE CapacityBound
  OBVIOUS
<1> DEFINE d == Dist(tailSector, headSector)
<1>1. d \in 0 .. Sectors - 1 /\ (tailSector # Succ(headSector) => d <= Sectors - 2)
  BY Distances, SectorsAssumption DEF CapInv, TypeOK
<1>2. CASE headSlot = 0
  <2>1. d * SlotsPerSector <= Capacity /\ d * SlotsPerSector \in Nat
    BY <1>1, Multiples, SectorsAssumption DEF Capacity
  <2> QED BY <1>2, <2>1 DEF CapacityBound, Count
<1>3. CASE headSlot # 0
  <2>1. d <= Sectors - 2
    BY <1>1, <1>3 DEF CapInv, Gap
  <2>2. /\ d * SlotsPerSector <= (Sectors - 2) * SlotsPerSector
        /\ d * SlotsPerSector \in Nat /\ (Sectors - 2) * SlotsPerSector \in Nat
    BY <1>1, <2>1, Multiples, SectorsAssumption
  <2>3. Capacity = (Sectors - 2) * SlotsPerSector + SlotsPerSector
    BY SectorsAssumption, SlotsAssumption DEF Capacity
  <2>4. headSlot \in Nat /\ headSlot < SlotsPerSector
    BY SlotsAssumption DEF CapInv, TypeOK, Slot
  <2> QED BY <2>2, <2>3, <2>4, SlotsAssumption DEF CapacityBound, Count
<1> QED BY <1>2, <1>3

\* The state keeps its shape through every call, every failure and every
\* restart: a recovered head and tail are slots of the ring.
THEOREM TypeCorrect == Spec => []TypeOK
<1>1. CapInv => TypeOK
  BY DEF CapInv
<1> QED BY CapInit, CapStep, <1>1, PTL DEF Spec

\* The head never laps the tail, whatever calls fail and wherever the power is
\* cut: log_store_count never exceeds LOG_STORE_CAPACITY and never wraps.
THEOREM CapacityIsBounded == Spec => []CapacityBound
BY CapInit, CapStep, CapInvBounds, PTL DEF Spec

(***************************************************************************)
(* The recovery keeps the records and their order, under HealthyFaults.    *)
(***************************************************************************)
RecInv == TypeOK /\ Recoverable

\* The part about types and capacity is known already.
LEMMA RecIsCap == RecInv => CapInv
BY DEF RecInv, Recoverable, Steps, CapInv, Gap, CallState

\* Every sector is before the head, the head's, or beyond it.
LEMMA Regions ==
  ASSUME TypeOK, NEW s \in Sector
  PROVE /\ Dist(tailSector, s) \in Nat /\ Dist(tailSector, headSector) \in Nat
        /\ Inner(s) \/ s = headSector \/ Outer(s)
        /\ ~(Inner(s) /\ Outer(s)) /\ ~Inner(headSector) /\ ~Outer(headSector)
BY Distances, SectorsAssumption DEF TypeOK, Inner, Outer

\* The sector ahead of the head is beyond it, or it is the oldest one.
LEMMA SectorAhead ==
  ASSUME TypeOK
  PROVE /\ Succ(headSector) \in Sector /\ Succ(headSector) # headSector
        /\ tailSector # Succ(headSector) =>
             /\ Outer(Succ(headSector))
             /\ Dist(tailSector, Succ(headSector)) = Dist(tailSector, headSector) + 1
        /\ tailSector = Succ(headSector) => Inner(Succ(headSector))
<1>1. headSector \in Sector /\ tailSector \in Sector
  BY DEF TypeOK
<1>2. Succ(headSector) \in Sector /\ Succ(headSector) # headSector
  BY <1>1, Neighbours
<1>3. Dist(tailSector, headSector) \in Nat
  BY <1>1, Distances, SectorsAssumption
<1>4. CASE tailSector # Succ(headSector)
  BY <1>1, <1>2, <1>3, <1>4, Distances DEF Outer
<1>5. CASE tailSector = Succ(headSector)
  BY <1>1, <1>2, <1>3, <1>5, Distances, SectorsAssumption DEF Inner
<1> QED BY <1>2, <1>4, <1>5

\* The order survives a step that keeps records in place, or drops some, and
\* puts no two of them the other way round.
LEMMA OrderKept ==
  ASSUME Ordered,
         \A s \in Sector, i \in Slot :
           Kept(s, i)' /\ flash'[s][i] \in Nat => Kept(s, i) /\ flash[s][i] = flash'[s][i],
         \A s, t \in Sector : \A i, j \in Slot :
           Kept(s, i)' /\ Kept(t, j)' /\ Before(s, i, t, j)' => Before(s, i, t, j)
  PROVE Ordered'
BY DEF Ordered

\* At run time the layout holds, unless the log is being cleared.
LEMMA RunningLayout == RecInv /\ pc \notin {"off", "clear"} => Layout
BY DEF RecInv, Recoverable, Foreign

\* A blank partition, with the ring that log_store_init gives it.
LEMMA BlankLayout ==
  /\ \A s \in Sector : IsBlank(s)
  /\ headSector = 0 /\ headSlot = 0 /\ tailSector = 0 /\ pc # "write"
  => Layout
<1> SUFFICES ASSUME \A s \in Sector : IsBlank(s),
                    headSector = 0 /\ headSlot = 0 /\ tailSector = 0 /\ pc # "write"
             PROVE Layout
  OBVIOUS
<1>1. 0 \in Slot /\ 0 \in Sector
  BY SlotsAssumption, SectorsAssumption DEF Slot, Sector
<1>2. \A s \in Sector : ~Inner(s)
  BY <1>1, Distances DEF Inner
<1>3. AtStart
  BY <1>1 DEF AtStart, IsBlank
<1> QED BY <1>1, <1>2, <1>3
     DEF Layout, InnerFull, OuterBlank, HeadSplits, NextReady, EmptyAtZero, IsBlank, Erased, Slot

LEMMA RecInit == Init => RecInv
<1> SUFFICES ASSUME Init PROVE RecInv
  OBVIOUS
<1>1. TypeOK
  BY CapInit DEF CapInv
<1>2. PICK cell \in {Blank, Damaged} : flash = [s \in Sector |-> [i \in Slot |-> cell]]
  BY DEF Init
<1>3. /\ headSector = 0 /\ headSlot = 0 /\ tailSector = 0
      /\ pc = "off" /\ k = 0 /\ next = 0
  BY DEF Init
<1>4. \A s \in Sector, i \in Slot : flash[s][i] \notin Nat
  BY <1>2, CellAssumption
<1>5. Steps /\ Numbered /\ Ordered
  <2>1. Steps
    BY <1>3 DEF Steps
  <2>2. Numbered /\ Ordered
    BY <1>4 DEF Numbered, Ordered
  <2> QED BY <2>1, <2>2
<1>6. Layout \/ Foreign
  <2>1. CASE cell = Blank
    BY <1>2, <1>3, <2>1, BlankLayout DEF IsBlank
  <2>2. CASE cell = Damaged
    BY <1>2, <1>3, <2>2 DEF Foreign
  <2> QED BY <2>1, <2>2
<1> QED BY <1>1, <1>5, <1>6 DEF RecInv, Recoverable

LEMMA RecAppendStart == RecInv /\ AppendStart => Recoverable'
<1> SUFFICES ASSUME RecInv, AppendStart PROVE Recoverable'
  OBVIOUS
<1>0. TypeOK /\ Steps /\ Numbered /\ Ordered
  BY DEF RecInv, Recoverable
<1>1. /\ pc = "idle" /\ next' = next + 1 /\ next \in Nat
      /\ UNCHANGED <<flash, headSector, headSlot, tailSector, k>>
      /\ headSector \in Sector /\ headSlot \in Slot
      /\ Layout
  BY <1>0, RunningLayout DEF AppendStart, ring, TypeOK
<1>2. headSlot = 0 => Erased(headSector)
  BY <1>1 DEF Layout, HeadSplits, Erased
<1>3. pc' = IF headSlot # 0 THEN "write" ELSE "erase_ahead"
  BY <1>2 DEF AppendStart
<1>4. AtStart' <=> AtStart
  BY <1>1, <1>3 DEF AtStart
<1>5. Layout'
  <2>1. InnerFull'
    BY <1>1, <1>4 DEF Layout, InnerFull, Inner, Ahead, IsFull
  <2>2. OuterBlank'
    BY <1>1, <1>4 DEF Layout, OuterBlank, Outer, Ahead, IsBlank, Erased
  <2>3. HeadSplits'
    BY <1>1, <1>3 DEF Layout, HeadSplits
  <2>4. NextReady' /\ EmptyAtZero'
    BY <1>1, <1>4 DEF Layout, NextReady, EmptyAtZero
  <2> QED BY <2>1, <2>2, <2>3, <2>4 DEF Layout
<1>6. Steps'
  BY <1>0, <1>1, <1>3 DEF Steps
<1>7. Numbered'
  BY <1>0, <1>1 DEF Numbered
<1>8. Ordered'
  BY <1>0, <1>1 DEF Ordered, Kept, IsLive, Before
<1> QED BY <1>5, <1>6, <1>7, <1>8 DEF Recoverable

\* Moving the tail one sector on brings every other sector nearer by one.
LEMMA NextDistance ==
  ASSUME NEW t \in Sector, NEW s \in Sector
  PROVE /\ s # t => Dist(Succ(t), s) = Dist(t, s) - 1
        /\ Dist(Succ(t), t) = Sectors - 1
BY SectorsAssumption DEF Sector, Succ, Dist

\* The sector ahead has been erased, and the tail moved past it if it was there.
LEMMA TailMoves ==
  ASSUME TypeOK, UNCHANGED headSector,
         tailSector' = IF tailSector = Succ(headSector) THEN Succ(tailSector) ELSE tailSector
  PROVE /\ tailSector' \in Sector /\ tailSector' # Succ(headSector)
        /\ tailSector' = headSector => tailSector = headSector
        /\ Outer(Succ(headSector))'
        /\ \A s \in Sector : s # Succ(headSector) =>
             /\ Inner(s)' <=> Inner(s)
             /\ Outer(s)' <=> Outer(s)
        /\ \A s, t \in Sector : s # Succ(headSector) /\ t # Succ(headSector) =>
             ((Dist(tailSector, s) < Dist(tailSector, t))'
                => Dist(tailSector, s) < Dist(tailSector, t))
<1> DEFINE a == Succ(headSector)
<1>1. /\ headSector \in Sector /\ tailSector \in Sector /\ a \in Sector
      /\ a # headSector /\ Succ(a) # headSector /\ Succ(a) # a /\ Succ(a) \in Sector
  BY Neighbours DEF TypeOK
<1>2. CASE tailSector = a
  <2>1. tailSector' = Succ(a)
    BY <1>2
  <2>2. ASSUME NEW s \in Sector, s # a
        PROVE Dist(a, s) \in Int /\ Dist(Succ(a), s) = Dist(a, s) - 1
    <3>1. Dist(a, s) \in 0 .. Sectors - 1 /\ Sectors \in Nat
      BY <1>1, Distances, SectorsAssumption
    <3> QED BY <1>1, <2>2, <3>1, NextDistance
  <2>3. Dist(Succ(a), a) = Sectors - 1
    BY <1>1, NextDistance
  <2>4. /\ Dist(a, headSector) = Sectors - 1
        /\ Dist(Succ(a), headSector) = Sectors - 2
    BY <1>1, <2>2, Distances, SectorsAssumption
  <2>5. Succ(a) # a /\ Succ(a) \in Sector /\ Succ(a) # headSector
    BY <1>1
  <2>6. ASSUME NEW s \in Sector, s # a
        PROVE /\ Dist(Succ(a), s) < Dist(Succ(a), headSector) <=> Dist(a, s) < Dist(a, headSector)
              /\ Dist(Succ(a), s) > Dist(Succ(a), headSector) <=> Dist(a, s) > Dist(a, headSector)
    <3>1. /\ Dist(a, s) \in Int /\ Dist(Succ(a), s) = Dist(a, s) - 1
          /\ Dist(a, headSector) \in Int /\ Dist(Succ(a), headSector) = Dist(a, headSector) - 1
      BY <2>2, <2>6, <1>1, SectorsAssumption
    <3> QED BY <3>1
  <2>7. ASSUME NEW s \in Sector, s # a
        PROVE (Inner(s)' <=> Inner(s)) /\ (Outer(s)' <=> Outer(s))
    BY <1>2, <2>1, <2>6, <2>7 DEF Inner, Outer
  <2>8. ASSUME NEW s \in Sector, NEW t \in Sector, s # a, t # a,
               Dist(Succ(a), s) < Dist(Succ(a), t)
        PROVE Dist(a, s) < Dist(a, t)
    <3>1. /\ Dist(a, s) \in Int /\ Dist(Succ(a), s) = Dist(a, s) - 1
          /\ Dist(a, t) \in Int /\ Dist(Succ(a), t) = Dist(a, t) - 1
      BY <2>2, <2>8, SectorsAssumption
    <3> QED BY <3>1, <2>8
  <2>9. Outer(a)'
    BY <2>1, <2>3, <2>4, SectorsAssumption DEF Outer
  <2> QED BY <1>1, <1>2, <2>1, <2>5, <2>7, <2>8, <2>9
<1>3. CASE tailSector # a
  <2>1. tailSector' = tailSector
    BY <1>3
  <2> QED BY <1>1, <1>3, <2>1, SectorAhead DEF Inner, Outer
<1> QED BY <1>2, <1>3

LEMMA RecEraseAhead == RecInv /\ EraseAhead => Recoverable'
<1> SUFFICES ASSUME RecInv, EraseAhead PROVE Recoverable'
  OBVIOUS
<1>0. TypeOK /\ Steps /\ Numbered /\ Ordered
  BY DEF RecInv, Recoverable
<1> DEFINE a == Succ(headSector)
<1>1. /\ pc = "erase_ahead" /\ pc' = "write" /\ headSlot = 0
      /\ UNCHANGED <<headSector, headSlot, k, next>>
      /\ headSector \in Sector /\ tailSector \in Sector /\ next \in Nat
      /\ a \in Sector /\ a # headSector /\ Layout
  BY <1>0, SectorAhead, RunningLayout DEF EraseAhead, EraseSector, Steps, TypeOK
<1>2. /\ \A s \in Sector : s # a => flash'[s] = flash[s]
      /\ \A i \in Slot : flash'[a][i] = Blank
  BY <1>0, <1>1 DEF EraseAhead, EraseSector, TypeOK, BlankSector
<1>3. tailSector' = IF tailSector = a THEN Succ(tailSector) ELSE tailSector
  <2>1. tailSector = a => Count > 0
    <3>1. ASSUME tailSector = a
          PROVE Dist(tailSector, headSector) \in Nat /\ 1 <= Dist(tailSector, headSector)
      BY <3>1, <1>1, Distances, SectorsAssumption
    <3>2. ASSUME tailSector = a
          PROVE 1 * SlotsPerSector <= Dist(tailSector, headSector) * SlotsPerSector
      BY <3>1, <3>2, Multiples
    <3> QED BY <1>1, <3>1, <3>2, SlotsAssumption, Multiples DEF Count
  <2> QED BY <2>1 DEF EraseAhead, EraseSector
<1>4. /\ tailSector' # Succ(headSector)
      /\ tailSector' = headSector => tailSector = headSector
      /\ Outer(a)' /\ ~Inner(a)'
      /\ \A s \in Sector : s # a => (Inner(s)' <=> Inner(s)) /\ (Outer(s)' <=> Outer(s))
      /\ \A s, t \in Sector : s # a /\ t # a =>
             ((Dist(tailSector, s) < Dist(tailSector, t))'
                => Dist(tailSector, s) < Dist(tailSector, t))
  <2>1. tailSector' \in Sector /\ Outer(a)'
    BY <1>0, <1>1, <1>3, TailMoves
  <2>2. ~Inner(a)'
    BY <2>1, <1>1, Distances, SectorsAssumption DEF Inner, Outer
  <2> QED BY <1>0, <1>1, <1>3, <2>1, <2>2, TailMoves
<1>5. Layout'
  <2>1. InnerFull'
    <3>1. SUFFICES ASSUME NEW s \in Sector, Inner(s)' PROVE IsFull(s)'
      BY <1>1 DEF InnerFull
    <3>2. s # a /\ Inner(s)
      BY <3>1, <1>1, <1>4 DEF Inner
    <3> QED BY <3>2, <1>1, <1>2 DEF Layout, InnerFull, Ahead, IsFull
  <2>2. OuterBlank'
    <3>1. SUFFICES ASSUME NEW s \in Sector, Outer(s)' PROVE (Erased(s) /\ IsBlank(s))'
      BY <1>1 DEF OuterBlank
    <3>2. 0 \in Slot
      BY SlotsAssumption DEF Slot
    <3>3. CASE s = a
      BY <3>2, <3>3, <1>2 DEF Erased, IsBlank
    <3>4. CASE s # a
      BY <3>1, <3>4, <1>1, <1>2, <1>4 DEF Layout, OuterBlank, Ahead, IsBlank, Erased
    <3> QED BY <3>3, <3>4
  <2>3. HeadSplits'
    BY <1>1, <1>2 DEF Layout, HeadSplits
  <2>4. NextReady' /\ EmptyAtZero'
    BY <1>1, <1>4 DEF Layout, NextReady, EmptyAtZero
  <2> QED BY <2>1, <2>2, <2>3, <2>4 DEF Layout
<1>6. Steps'
  BY <1>0, <1>1, <1>4 DEF Steps
<1>7. Numbered'
  BY <1>0, <1>1, <1>2, CellAssumption DEF Numbered
<1>8. Ordered'
  <2>1. \A s \in Sector, i \in Slot :
          Kept(s, i)' => Kept(s, i) /\ s # a
    BY <1>1, <1>4 DEF Kept, IsLive, Inner
  <2>2. \A s, t \in Sector : \A i, j \in Slot :
          Kept(s, i)' /\ Kept(t, j)' /\ Before(s, i, t, j)' => Before(s, i, t, j)
    BY <2>1, <1>4 DEF Before
  <2> QED BY <1>0, <2>1, <2>2, <1>2, OrderKept
<1> QED BY <1>5, <1>6, <1>7, <1>8 DEF Recoverable

(***************************************************************************)
(* The head takes a slot: log_store_append has written it, or the recovery *)
(* finds it written.                                                       *)
(***************************************************************************)

\* The head enters the sector ahead of it.
LEMMA HeadMoves ==
  ASSUME TypeOK, tailSector # Succ(headSector),
         headSector' = Succ(headSector), UNCHANGED tailSector
  PROVE \A s \in Sector : /\ Inner(s)' <=> Inner(s) \/ s = headSector
                          /\ Outer(s)' <=> Outer(s) /\ s # Succ(headSector)
<1> DEFINE h == headSector  t == tailSector
<1>1. h \in Sector /\ t \in Sector /\ Succ(h) \in Sector
  BY Neighbours DEF TypeOK
<1>2. Dist(t, Succ(h)) = Dist(t, h) + 1 /\ Dist(t, h) \in Int
  BY <1>1, Distances, SectorsAssumption
<1>3. ASSUME NEW s \in Sector
      PROVE /\ Dist(t, s) \in Int
            /\ Dist(t, s) = Dist(t, h) => s = h
            /\ Dist(t, s) = Dist(t, Succ(h)) => s = Succ(h)
  BY <1>1, Distances, SectorsAssumption
<1>4. ASSUME NEW s \in Sector
      PROVE /\ Dist(t, s) < Dist(t, h) + 1 <=> Dist(t, s) < Dist(t, h) \/ s = h
            /\ Dist(t, s) > Dist(t, h) + 1 <=> Dist(t, s) > Dist(t, h) /\ s # Succ(h)
  BY <1>2, <1>3
<1> QED BY <1>2, <1>4 DEF Inner, Outer

\* The slot at the head has been taken, and nothing else has changed.
Taken ==
  /\ \A s \in Sector, i \in Slot :
       ~(s = headSector /\ i = headSlot) => flash'[s][i] = flash[s][i]
  /\ flash'[headSector][headSlot] # Blank
  /\ IF headSlot = SlotsPerSector - 1
       THEN headSlot' = 0 /\ headSector' = Succ(headSector)
       ELSE headSlot' = headSlot + 1 /\ UNCHANGED headSector
  /\ UNCHANGED <<tailSector, next>>
  /\ pc' = "idle"

LEMMA TakenLayout ==
  ASSUME TypeOK, Layout, ~AtStart, tailSector # Succ(headSector), Taken,
         \A i \in Slot : i > headSlot => flash[headSector][i] = Blank
  PROVE Layout' /\ (headSlot' # 0 => tailSector' # Succ(headSector'))
<1> DEFINE h == headSector  a == Succ(headSector)
<1>1. /\ h \in Sector /\ headSlot \in Slot /\ tailSector \in Sector /\ a \in Sector /\ a # h
      /\ 0 \in Slot /\ Outer(a)
  BY SectorAhead, SlotsAssumption DEF TypeOK, Slot
<1>2. /\ \A s \in Sector : Inner(s) => IsFull(s) /\ s # h
      /\ \A s \in Sector : Outer(s) => IsBlank(s) /\ s # h
  BY Regions DEF Layout, InnerFull, OuterBlank
<1>3. \A s \in Sector : s # h => \A i \in Slot : flash'[s][i] = flash[s][i]
  BY DEF Taken
<1>4. \A i \in Slot : i < headSlot => flash'[h][i] # Blank
  <2>1. \A i \in Slot : i < headSlot => flash[h][i] # Blank /\ flash'[h][i] = flash[h][i]
    BY <1>1 DEF Layout, HeadSplits, Taken, Slot
  <2> QED BY <2>1
<1>5. CASE headSlot # SlotsPerSector - 1
  <2>1. /\ headSlot' = headSlot + 1 /\ headSector' = h /\ tailSector' = tailSector
        /\ headSlot' # 0 /\ pc' = "idle"
    BY <1>1, <1>5, SlotsAssumption DEF Taken, Slot
  <2>2. \A s \in Sector : (Inner(s)' <=> Inner(s)) /\ (Outer(s)' <=> Outer(s))
    BY <2>1 DEF Inner, Outer
  <2>3. InnerFull'
    BY <1>2, <1>3, <2>2 DEF InnerFull, IsFull
  <2>4. OuterBlank'
    BY <1>1, <1>2, <1>3, <2>2 DEF OuterBlank, IsBlank, Erased
  <2>5. HeadSplits'
    <3>1. ASSUME NEW i \in Slot, i < headSlot + 1 PROVE flash'[h][i] # Blank
      BY <1>1, <1>4, <3>1, SlotsAssumption DEF Taken, Slot
    <3>2. ASSUME NEW i \in Slot, i > headSlot PROVE flash'[h][i] = Blank
      BY <1>1, <3>2 DEF Taken, Slot
    <3>3. \A i \in Slot : i > headSlot + 1 \/ i = headSlot + 1 => i > headSlot
      BY <1>1, SlotsAssumption DEF Slot
    <3> QED BY <2>1, <3>1, <3>2, <3>3 DEF HeadSplits
  <2>6. NextReady' /\ EmptyAtZero'
    BY <2>1 DEF NextReady, EmptyAtZero
  <2> QED BY <2>1, <2>3, <2>4, <2>5, <2>6 DEF Layout
<1>6. CASE headSlot = SlotsPerSector - 1
  <2>1. headSlot' = 0 /\ headSector' = a /\ tailSector' = tailSector /\ pc' = "idle"
    BY <1>6 DEF Taken
  <2>3. \A i \in Slot : flash'[a][i] = Blank
    BY <1>1, <1>2, <1>3 DEF IsBlank
  <2>4. AtStart'
    BY <1>1, <2>1, <2>3 DEF AtStart
  <2>5. InnerFull'
    <3>1. \A i \in Slot : flash'[h][i] # Blank
      <4>1. \A i \in Slot : i < headSlot \/ i = headSlot
        BY <1>6, SlotsAssumption DEF Slot
      <4> QED BY <1>4, <4>1 DEF Taken
    <3>2. ASSUME NEW s \in Sector, Inner(s)' PROVE IsFull(s)'
      <4>1. Inner(s) \/ s = h
        BY <2>1, <3>2, HeadMoves
      <4>2. CASE s = h
        BY <3>1, <4>2 DEF IsFull
      <4>3. CASE Inner(s)
        BY <1>2, <1>3, <4>3 DEF IsFull
      <4> QED BY <4>1, <4>2, <4>3
    <3> QED BY <3>2 DEF InnerFull
  <2>6. OuterBlank'
    <3>1. ASSUME NEW s \in Sector, Outer(s)' PROVE Erased(s)' /\ IsBlank(s)'
      <4>1. Outer(s)
        BY <2>1, <3>1, HeadMoves
      <4> QED BY <1>1, <1>2, <1>3, <4>1 DEF IsBlank, Erased
    <3> QED BY <3>1 DEF OuterBlank
  <2>7. HeadSplits'
    <3>1. \A i \in Slot : ~(i < 0)
      BY SlotsAssumption DEF Slot
    <3> QED BY <2>1, <2>3, <3>1 DEF HeadSplits
  <2>8. NextReady' /\ EmptyAtZero'
    BY <2>1, <2>4 DEF NextReady, EmptyAtZero
  <2> QED BY <2>1, <2>5, <2>6, <2>7, <2>8 DEF Layout
<1> QED BY <1>5, <1>6

\* What is kept afterwards was live before, or is in the slot that was taken.
LEMMA TakenKept ==
  ASSUME TypeOK, Layout, ~AtStart, tailSector # Succ(headSector), Taken,
         \A i \in Slot : i > headSlot => flash[headSector][i] = Blank,
         NEW s \in Sector, NEW i \in Slot, Kept(s, i)', flash'[s][i] \in Nat
  PROVE (s = headSector /\ i = headSlot) \/ IsLive(s, i)
<1>1. headSlot \in Slot /\ headSector \in Sector
  BY DEF TypeOK
<1>2. CASE headSlot # SlotsPerSector - 1
  <2>1. headSlot' = headSlot + 1 /\ headSector' = headSector /\ tailSector' = tailSector
    BY <1>2 DEF Taken
  <2>2. s = headSector => i <= headSlot
    <3>1. SUFFICES ASSUME s = headSector, i > headSlot PROVE FALSE
      BY <1>1, SlotsAssumption DEF Slot
    <3>2. flash'[s][i] = Blank
      BY <3>1, <1>1 DEF Taken, Slot
    <3> QED BY <3>2, CellAssumption
  <2>3. s # headSector => Inner(s)
    BY <2>1 DEF Kept, IsLive, Inner
  <2> QED BY <1>1, <2>2, <2>3, SlotsAssumption DEF IsLive, Inner, Slot
<1>3. CASE headSlot = SlotsPerSector - 1
  <2>1. headSlot' = 0 /\ headSector' = Succ(headSector) /\ tailSector' = tailSector
    BY <1>3 DEF Taken
  <2>2. Inner(s)' <=> Inner(s) \/ s = headSector
    BY <2>1, HeadMoves
  <2>3. ~(s = headSector' /\ i <= 0)
    <3>1. SUFFICES ASSUME s = Succ(headSector) PROVE FALSE
      BY <2>1
    <3>2. s # headSector /\ IsBlank(s)
      BY <3>1, SectorAhead DEF Layout, OuterBlank
    <3>3. flash'[s][i] = Blank
      BY <3>2 DEF Taken, IsBlank
    <3> QED BY <3>3, CellAssumption
  <2>4. Inner(s)'
    <3>1. Inner(s)' \/ (s = headSector' /\ i < headSlot') \/ (s = headSector' /\ i = headSlot')
      BY DEF Kept, IsLive, Inner
    <3>2. i < 0 \/ i = 0 => i <= 0
      BY SlotsAssumption DEF Slot
    <3> QED BY <2>1, <2>3, <3>1, <3>2
  <2>5. CASE s = headSector
    BY <1>1, <1>3, <2>5, SlotsAssumption DEF IsLive, Slot
  <2> QED BY <2>2, <2>4, <2>5 DEF IsLive, Inner
<1> QED BY <1>2, <1>3

\* A live slot is not behind the slot at the head.
LEMMA HeadIsLast ==
  ASSUME TypeOK, NEW s \in Sector, NEW i \in Slot,
         IsLive(s, i) \/ (s = headSector /\ i = headSlot)
  PROVE ~Before(headSector, headSlot, s, i)
<1>1. headSlot \in Int /\ i \in Int
  BY SlotsAssumption DEF TypeOK, Slot
<1>2. Dist(tailSector, headSector) \in Int /\ Dist(tailSector, s) \in Int
  BY Regions
<1> QED BY <1>1, <1>2 DEF IsLive, Before

LEMMA TakenOrder ==
  ASSUME TypeOK, Layout, ~AtStart, tailSector # Succ(headSector), Taken,
         \A i \in Slot : i > headSlot => flash[headSector][i] = Blank,
         Ordered, Numbered,
         \/ flash'[headSector][headSlot] = flash[headSector][headSlot]
         \/ flash'[headSector][headSlot] = next - 1 /\ pc = "write"
  PROVE Ordered'
<1> DEFINE New(s, i) == s = headSector /\ i = headSlot
<1>1. SUFFICES ASSUME NEW s \in Sector, NEW t \in Sector, NEW i \in Slot, NEW j \in Slot,
                      Kept(s, i)', flash'[s][i] \in Nat,
                      Kept(t, j)', flash'[t][j] \in Nat,
                      Before(s, i, t, j)'
               PROVE flash'[s][i] < flash'[t][j]
  BY DEF Ordered
<1>2. (New(s, i) \/ IsLive(s, i)) /\ (New(t, j) \/ IsLive(t, j))
  BY <1>1, TakenKept
<1>3. Before(s, i, t, j)
  BY <1>1 DEF Before, Taken
<1>4. ~New(s, i) /\ IsLive(s, i)
  BY <1>2, <1>3, HeadIsLast
<1>5. flash'[s][i] = flash[s][i]
  BY <1>4 DEF Taken
<1>6. CASE flash'[t][j] = flash[t][j]
  BY <1>1, <1>2, <1>3, <1>4, <1>5, <1>6 DEF Ordered, Kept
<1>7. CASE New(t, j) /\ flash'[t][j] = next - 1 /\ pc = "write"
  BY <1>1, <1>5, <1>7 DEF Numbered
<1> QED BY <1>2, <1>6, <1>7 DEF Taken

LEMMA RecWrite == RecInv /\ Write => Recoverable'
<1> SUFFICES ASSUME RecInv, Write PROVE Recoverable'
  OBVIOUS
<1>1. /\ TypeOK /\ Steps /\ Numbered /\ Ordered /\ Layout
      /\ pc = "write" /\ pc' = "idle" /\ next \in Nat /\ next # 0
      /\ headSector \in Sector /\ headSlot \in Slot
      /\ tailSector # Succ(headSector) /\ ~AtStart
  BY RunningLayout DEF RecInv, Recoverable, Write, Steps, TypeOK, AtStart
<1>2. \A i \in Slot : i > headSlot \/ i = headSlot => flash[headSector][i] = Blank
  BY <1>1 DEF Layout, HeadSplits
<1>3. flash'[headSector][headSlot] = next - 1
  BY <1>1, <1>2 DEF Write, Program, TypeOK
<1>4. Taken
  BY <1>1, <1>3, CellAssumption DEF Taken, Write, TypeOK
<1>5. Layout' /\ (headSlot' # 0 => tailSector' # Succ(headSector'))
  BY <1>1, <1>2, <1>4, TakenLayout
<1>6. Steps'
  BY <1>1, <1>5 DEF Steps
<1>7. Ordered'
  BY <1>1, <1>2, <1>3, <1>4, TakenOrder
<1>8. Numbered'
  <2>1. ASSUME NEW s \in Sector, NEW i \in Slot, flash'[s][i] \in Nat
        PROVE flash'[s][i] < next
    <3>1. CASE s = headSector /\ i = headSlot
      BY <1>1, <1>3, <3>1
    <3>2. CASE ~(s = headSector /\ i = headSlot)
      BY <2>1, <1>1, <1>4, <3>2 DEF Taken, Numbered
    <3> QED BY <3>1, <3>2
  <2> QED BY <1>1, <1>4, <2>1 DEF Numbered, Taken
<1> QED BY <1>5, <1>6, <1>7, <1>8 DEF Recoverable

(***************************************************************************)
(* Calls that fail and power cuts.                                         *)
(***************************************************************************)

\* Nothing has changed in the flash: the call failed, or never began.
LEMMA RecUntouched ==
  ASSUME RecInv, Layout, pc # "clear", UNCHANGED <<flash, headSector, headSlot, tailSector, next>>,
         pc' \in {"idle", "off"},
         pc' = "idle" => flash[headSector][headSlot] = Blank
  PROVE Recoverable'
<1>1. /\ Steps /\ Numbered /\ Ordered /\ next \in Nat
      /\ flash' = flash /\ headSector' = headSector /\ headSlot' = headSlot
      /\ tailSector' = tailSector /\ next' = next
  BY DEF RecInv, Recoverable, TypeOK
<1>2. AtStart => AtStart'
  BY <1>1 DEF AtStart
<1>3. InnerFull'
  BY <1>1, <1>2 DEF Layout, InnerFull, Inner, Ahead, IsFull
<1>4. OuterBlank'
  BY <1>1, <1>2 DEF Layout, OuterBlank, Outer, Ahead, IsBlank, Erased
<1>5. HeadSplits'
  BY <1>1 DEF Layout, HeadSplits
<1>6. NextReady' /\ EmptyAtZero'
  BY <1>1, <1>2 DEF Layout, NextReady, EmptyAtZero
<1>7. Steps'
  BY <1>1 DEF Steps
<1>8. Numbered'
  BY <1>1 DEF Numbered
<1>9. Ordered'
  BY <1>1 DEF Ordered, Kept, IsLive, Before
<1> QED BY <1>3, <1>4, <1>5, <1>6, <1>7, <1>8, <1>9 DEF Recoverable, Layout

\* An erase that was cut short keeps the blank slots, and adds no record.
LEMMA TornEraseFacts ==
  ASSUME TypeOK, EraseBegun, Target \in Sector
  PROVE /\ \A s \in Sector : s # Target => flash'[s] = flash[s]
        /\ \A i \in Slot : flash[Target][i] = Blank => flash'[Target][i] = Blank
        /\ \A i \in Slot : flash'[Target][i] \in Nat => flash'[Target][i] = flash[Target][i]
<1>1. PICK wiped \in SUBSET Slot, spoilt \in SUBSET Slot :
        flash' = [flash EXCEPT ![Target] = TornErase(@, wiped, spoilt)]
  BY DEF EraseBegun
<1>2. /\ \A s \in Sector : s # Target => flash'[s] = flash[s]
      /\ flash'[Target] = TornErase(flash[Target], wiped, spoilt)
  BY <1>1 DEF TypeOK
<1> QED BY <1>2, CellAssumption DEF TornErase

LEMMA RecTornErase ==
  ASSUME RecInv, pc = "erase_ahead", EraseBegun, pc' \in {"idle", "off"},
         UNCHANGED <<headSector, headSlot, tailSector, next>>
  PROVE Recoverable'
<1> DEFINE a == Succ(headSector)
<1>1. /\ TypeOK /\ Steps /\ Numbered /\ Ordered /\ Layout
      /\ headSector' = headSector /\ headSlot' = headSlot /\ tailSector' = tailSector
      /\ next' = next /\ next \in Nat /\ headSector \in Sector /\ 0 \in Slot /\ headSlot = 0
  BY RunningLayout, SlotsAssumption DEF RecInv, Recoverable, TypeOK, Steps, Slot
<1>2. a \in Sector /\ a # headSector /\ Target = a
  BY <1>1, SectorAhead DEF Target
<1>3. /\ \A s \in Sector : s # a => flash'[s] = flash[s]
      /\ \A i \in Slot : flash[a][i] = Blank => flash'[a][i] = Blank
      /\ \A i \in Slot : flash'[a][i] \in Nat => flash'[a][i] = flash[a][i]
  BY <1>1, <1>2, TornEraseFacts
<1>4. AtStart /\ AtStart'
  <2>1. flash[headSector][0] = Blank
    BY <1>1 DEF Layout, HeadSplits
  <2> QED BY <1>1, <1>2, <1>3, <2>1 DEF AtStart
<1>5. InnerFull'
  <2>1. ASSUME NEW s \in Sector, Inner(s)', s # a PROVE IsFull(s)'
    BY <1>1, <1>3, <2>1 DEF Layout, InnerFull, Inner, Ahead, IsFull
  <2> QED BY <1>1, <1>4, <2>1 DEF InnerFull, Ahead
<1>6. OuterBlank'
  <2>1. ASSUME NEW s \in Sector, Outer(s)' PROVE Erased(s)'
    BY <1>1, <1>3, <2>1 DEF Layout, OuterBlank, Outer, Erased
  <2>2. ASSUME NEW s \in Sector, Outer(s)', s # a PROVE IsBlank(s)'
    BY <1>1, <1>3, <2>2 DEF Layout, OuterBlank, Outer, Ahead, IsBlank
  <2> QED BY <1>1, <1>4, <2>1, <2>2 DEF OuterBlank, Ahead
<1>7. HeadSplits'
  BY <1>1, <1>2, <1>3 DEF Layout, HeadSplits
<1>8. NextReady' /\ EmptyAtZero'
  BY <1>1, <1>4 DEF Layout, NextReady, EmptyAtZero
<1>9. Steps'
  BY <1>1 DEF Steps
<1>10. \A s \in Sector, i \in Slot : flash'[s][i] \in Nat => flash'[s][i] = flash[s][i]
  BY <1>3
<1>11. Numbered'
  BY <1>1, <1>10 DEF Numbered
<1>12. Ordered'
  BY <1>1, <1>10 DEF Ordered, Kept, IsLive, Before
<1> QED BY <1>5, <1>6, <1>7, <1>8, <1>9, <1>11, <1>12 DEF Recoverable, Layout

\* A write that was cut short may have stored its record, the newest of all.
LEMMA RecTornWrite ==
  ASSUME RecInv, pc = "write", WriteBegun, pc' = "off",
         UNCHANGED <<headSector, headSlot, tailSector, next>>
  PROVE Recoverable'
<1> DEFINE h == headSector
<1>1. /\ TypeOK /\ Steps /\ Numbered /\ Ordered /\ Layout
      /\ headSector' = headSector /\ headSlot' = headSlot /\ tailSector' = tailSector
      /\ next' = next /\ next \in Nat /\ next # 0
      /\ h \in Sector /\ headSlot \in Slot /\ tailSector # Succ(h) /\ ~AtStart
  BY RunningLayout DEF RecInv, Recoverable, TypeOK, Steps, AtStart
<1>2. flash[h][headSlot] = Blank
  BY <1>1 DEF Layout, HeadSplits
<1>3. PICK cell \in {Blank, Damaged, next - 1} : flash' = [flash EXCEPT ![h][headSlot] = cell]
  BY <1>2 DEF WriteBegun, TornWrite, Program
<1>4. /\ \A s \in Sector, i \in Slot : ~(s = h /\ i = headSlot) => flash'[s][i] = flash[s][i]
      /\ flash'[h][headSlot] = cell
      /\ \A s \in Sector : s # h => flash'[s] = flash[s]
  BY <1>1, <1>3 DEF TypeOK
<1>5. \A s \in Sector : /\ Inner(s) => IsFull(s) /\ s # h
                        /\ Outer(s) => IsBlank(s) /\ Erased(s) /\ s # h
  BY <1>1, Regions DEF Layout, InnerFull, OuterBlank
<1>6. InnerFull'
  <2>1. ASSUME NEW s \in Sector, Inner(s)' PROVE IsFull(s)'
    <3>1. Inner(s)
      BY <1>1, <2>1 DEF Inner
    <3>2. IsFull(s) /\ s # h
      BY <1>5, <3>1
    <3> QED BY <1>4, <3>2 DEF IsFull
  <2> QED BY <2>1 DEF InnerFull
<1>7. OuterBlank'
  <2>1. ASSUME NEW s \in Sector, Outer(s)' PROVE Erased(s)' /\ IsBlank(s)'
    <3>1. Outer(s)
      BY <1>1, <2>1 DEF Outer
    <3>2. IsBlank(s) /\ Erased(s) /\ s # h
      BY <1>5, <3>1
    <3> QED BY <1>4, <3>2 DEF IsBlank, Erased
  <2> QED BY <2>1 DEF OuterBlank
<1>8. HeadSplits'
  <2>1. \A i \in Slot : i < headSlot \/ i > headSlot => flash'[h][i] = flash[h][i]
    BY <1>1, <1>4, SlotsAssumption DEF Slot
  <2> QED BY <1>1, <2>1 DEF Layout, HeadSplits
<1>9. NextReady' /\ EmptyAtZero'
  BY <1>1 DEF Layout, NextReady, EmptyAtZero
<1>10. Steps'
  BY <1>1 DEF Steps
<1>11. Numbered'
  <2>1. ASSUME NEW s \in Sector, NEW i \in Slot, flash'[s][i] \in Nat
        PROVE flash'[s][i] < next
    <3>1. CASE s = h /\ i = headSlot
      BY <1>1, <1>3, <1>4, <2>1, <3>1, CellAssumption
    <3>2. CASE ~(s = h /\ i = headSlot)
      BY <1>1, <1>4, <2>1, <3>2 DEF Numbered
    <3> QED BY <3>1, <3>2
  <2> QED BY <1>1, <2>1 DEF Numbered
<1>12. Ordered'
  <2>1. SUFFICES ASSUME NEW s \in Sector, NEW t \in Sector, NEW i \in Slot, NEW j \in Slot,
                        Kept(s, i), flash'[s][i] \in Nat,
                        Kept(t, j), flash'[t][j] \in Nat,
                        Before(s, i, t, j)
                 PROVE flash'[s][i] < flash'[t][j]
    BY <1>1 DEF Ordered, Kept, IsLive, Before
  <2>2. ~(s = h /\ i = headSlot)
    BY <1>1, <2>1, HeadIsLast DEF Kept
  <2>3. flash'[s][i] = flash[s][i]
    BY <1>4, <2>2
  <2>4. CASE t = h /\ j = headSlot
    <3>1. flash'[t][j] = next - 1
      BY <1>3, <1>4, <2>1, <2>4, CellAssumption
    <3> QED BY <1>1, <2>1, <2>3, <3>1 DEF Numbered
  <2>5. CASE ~(t = h /\ j = headSlot)
    BY <1>1, <1>4, <2>1, <2>3, <2>5 DEF Ordered
  <2> QED BY <2>4, <2>5
<1> QED BY <1>6, <1>7, <1>8, <1>9, <1>10, <1>11, <1>12 DEF Recoverable, Layout

LEMMA RecAppendFails == HealthyFaults /\ RecInv /\ AppendFails => Recoverable'
<1> SUFFICES ASSUME HealthyFaults, RecInv, AppendFails PROVE Recoverable'
  OBVIOUS
<1>1. /\ pc \in {"erase_ahead", "write"} /\ pc' = "idle"
      /\ UNCHANGED <<headSector, headSlot, tailSector, next>>
      /\ Layout /\ headSlot \in Slot
  BY RunningLayout DEF AppendFails, ring, RecInv, Recoverable, Steps, TypeOK
<1>2. flash[headSector][headSlot] = Blank
  BY <1>1 DEF Layout, HeadSplits
<1>3. UNCHANGED flash \/ (pc = "erase_ahead" /\ EraseBegun)
  BY <1>1 DEF AppendFails, HealthyFaults
<1> QED BY <1>1, <1>2, <1>3, RecUntouched, RecTornErase

LEMMA RecPowerCut == HealthyFaults /\ RecInv /\ PowerCut => Recoverable'
<1> SUFFICES ASSUME HealthyFaults, RecInv, PowerCut PROVE Recoverable'
  OBVIOUS
<1>1. /\ pc \notin {"off", "clear", "reclaim"} /\ pc' = "off"
      /\ UNCHANGED <<headSector, headSlot, tailSector, next>>
      /\ Layout
  BY RunningLayout DEF PowerCut, ring, HealthyFaults, RecInv, Recoverable, Steps
<1>2. \/ UNCHANGED flash
      \/ pc = "erase_ahead" /\ EraseBegun
      \/ pc = "write" /\ WriteBegun
  BY <1>1 DEF PowerCut
<1> QED BY <1>1, <1>2, RecUntouched, RecTornErase, RecTornWrite

(***************************************************************************)
(* log_store_clear                                                         *)
(***************************************************************************)
LEMMA RecClearStart == RecInv /\ ClearStart => Recoverable'
<1> SUFFICES ASSUME RecInv, ClearStart PROVE Recoverable'
  OBVIOUS
<1>1. /\ TypeOK /\ Steps /\ Numbered /\ Ordered /\ pc = "idle" /\ pc' = "clear" /\ k' = 0
      /\ UNCHANGED <<flash, headSector, headSlot, tailSector, next>>
  BY DEF RecInv, Recoverable, ClearStart, ring
<1>2. Steps'
  BY <1>1, SectorsAssumption DEF Steps, Sector
<1>3. Numbered'
  BY <1>1 DEF Numbered
<1>4. Ordered'
  BY <1>1 DEF Ordered, Kept, IsLive, Before
<1> QED BY <1>1, <1>2, <1>3, <1>4 DEF Recoverable

LEMMA RecClearSector == RecInv /\ ClearSector => Recoverable'
<1> SUFFICES ASSUME RecInv, ClearSector PROVE Recoverable'
  OBVIOUS
<1>1. /\ TypeOK /\ Steps /\ Numbered /\ Ordered /\ pc = "clear" /\ UNCHANGED next
      /\ k \in Sector /\ next \in Nat /\ pc' \in {"clear", "idle"}
  BY DEF RecInv, Recoverable, ClearSector, TypeOK
<1>2. /\ \A s \in Sector : s # k => flash'[s] = flash[s]
      /\ \A i \in Slot : flash'[k][i] = Blank
  BY <1>1 DEF ClearSector, TypeOK, BlankSector
<1>3. \A s \in Sector, i \in Slot : flash'[s][i] \in Nat => s # k /\ flash'[s][i] = flash[s][i]
  BY <1>2, CellAssumption
<1>4. Numbered'
  BY <1>1, <1>3, SectorsAssumption DEF Numbered
<1>5. CASE k = Sectors - 1
  <2>1. headSector' = 0 /\ headSlot' = 0 /\ tailSector' = 0 /\ pc' = "idle"
    BY <1>5 DEF ClearSector
  <2>2. \A s \in Sector : IsBlank(s)'
    <3>1. ASSUME NEW s \in Sector PROVE IsBlank(s)'
      <4>1. s # k => s < k
        BY <1>5, SectorsAssumption DEF Sector
      <4>2. CASE s = k
        BY <1>2, <4>2 DEF IsBlank
      <4>3. CASE s # k
        BY <1>1, <1>2, <4>1, <4>3 DEF Steps, IsBlank
      <4> QED BY <4>2, <4>3
    <3> QED BY <3>1
  <2>3. Layout'
    <3>1. (\A s \in Sector : IsBlank(s))'
      BY <2>2
    <3>2. (headSector = 0 /\ headSlot = 0 /\ tailSector = 0 /\ pc # "write")'
      BY <2>1
    <3> QED BY <3>1, <3>2, BlankLayout, PTL
  <2>4. Steps'
    BY <2>1 DEF Steps
  <2>5. Ordered'
    BY <2>2, CellAssumption DEF Ordered, IsBlank
  <2> QED BY <1>4, <2>3, <2>4, <2>5 DEF Recoverable
<1>6. CASE k # Sectors - 1
  <2>1. /\ k' = k + 1 /\ pc' = pc
        /\ UNCHANGED <<headSector, headSlot, tailSector>>
    BY <1>6 DEF ClearSector, ring
  <2>2. Steps'
    <3>1. ASSUME NEW s \in Sector, s < k + 1 PROVE IsBlank(s)'
      <4>1. s < k \/ s = k
        BY <1>1, <3>1, SectorsAssumption DEF Sector
      <4> QED BY <1>1, <1>2, <4>1 DEF Steps, IsBlank
    <3> QED BY <1>1, <2>1, <3>1 DEF Steps
  <2>3. Ordered'
    BY <1>1, <1>3, <2>1 DEF Ordered, Kept, IsLive, Before
  <2> QED BY <1>1, <1>4, <2>1, <2>2, <2>3 DEF Recoverable
<1> QED BY <1>5, <1>6

(***************************************************************************)
(* log_store_init: what the recovery finds, and that it is right.          *)
(***************************************************************************)
LEMMA RunIs ==
  ASSUME NEW r \in Sector, Erased(r), ~Erased(Pred(r)),
         \A s \in Sector : Erased(s) /\ s # r => Erased(Pred(s))
  PROVE RunStart = r
<1> DEFINE Starts == {s \in Sector : Erased(s) /\ ~Erased(Pred(s))}
<1>1. Starts = {r}
  OBVIOUS
<1>2. Starts \in SUBSET Nat
  BY SectorsAssumption DEF Sector
<1>3. Least(Starts) \in Starts
  BY <1>1, <1>2, LeastIsLeast
<1> QED BY <1>1, <1>3 DEF RunStart

LEMMA TailIs ==
  ASSUME RunStart \in Sector, NEW t \in Sector, ~Erased(t),
         \A s \in Sector : ~Erased(s) => Dist(RunStart, t) <= Dist(RunStart, s)
  PROVE BootTail = t
<1>1. /\ BootTail \in Sector /\ ~Erased(BootTail)
      /\ \A s \in Sector : ~Erased(s) => Dist(RunStart, BootTail) <= Dist(RunStart, s)
  BY DEF BootTail
<1>2. Dist(RunStart, t) \in Int /\ Dist(RunStart, BootTail) \in Int
  BY <1>1, Distances, SectorsAssumption
<1>3. Dist(RunStart, BootTail) = Dist(RunStart, t)
  BY <1>1, <1>2
<1> QED BY <1>1, <1>3, Distances

LEMMA HeadIsRunStart ==
  ASSUME \A i \in Slot : flash[Pred(RunStart)][i] # Blank
  PROVE BootHead = <<RunStart, 0>>
BY DEF BootHead, EmptySlots

LEMMA HeadIsSlot ==
  ASSUME NEW n \in Slot, flash[Pred(RunStart)][n] = Blank,
         \A i \in Slot : i < n => flash[Pred(RunStart)][i] # Blank
  PROVE BootHead = <<Pred(RunStart), n>>
<1> DEFINE E == EmptySlots(Pred(RunStart))
<1>1. E \in SUBSET Nat /\ n \in E
  BY SlotsAssumption DEF EmptySlots, Slot
<1>2. Least(E) \in E /\ Least(E) <= n
  BY <1>1, LeastIsLeast
<1>3. ~(Least(E) < n) /\ n \in Nat /\ Least(E) \in Nat
  BY <1>1, <1>2 DEF EmptySlots
<1>4. Least(E) = n
  BY <1>2, <1>3
<1> QED BY <1>1, <1>4 DEF BootHead

\* Going round from r, the tail comes before the other sectors up to r.
LEMMA TailComesFirst ==
  ASSUME NEW t \in Sector, NEW r \in Sector, NEW s \in Sector, Dist(t, s) < Dist(t, r)
  PROVE Dist(r, t) <= Dist(r, s)
BY SectorsAssumption DEF Sector, Dist

\* The sectors beyond the head are one run.
LEMMA OuterRun ==
  ASSUME TypeOK, NEW s \in Sector, Outer(s), s # Succ(headSector)
  PROVE Pred(s) \in Sector /\ Outer(Pred(s))
<1>1. headSector \in Sector /\ tailSector \in Sector /\ Pred(s) \in Sector /\ Succ(Pred(s)) = s
  BY Neighbours DEF TypeOK
<1>2. /\ Dist(tailSector, s) \in Int /\ Dist(tailSector, headSector) \in Int
      /\ Dist(tailSector, headSector) >= 0 /\ Dist(tailSector, tailSector) = 0
      /\ Dist(tailSector, s) > Dist(tailSector, headSector)
  BY <1>1, Distances, SectorsAssumption DEF Outer
<1>3. s # tailSector
  BY <1>2
<1>4. Dist(tailSector, Pred(s)) = Dist(tailSector, s) - 1
  BY <1>1, <1>3, Distances
<1>5. Dist(tailSector, Pred(s)) # Dist(tailSector, headSector)
  BY <1>1, Distances
<1> QED BY <1>1, <1>2, <1>4, <1>5 DEF Outer

\* The head's sector has records: the erased sectors are those beyond it.
LEMMA RecoversInSector ==
  ASSUME TypeOK, Layout, pc = "off", ~AtStart
  PROVE /\ RunStart = Succ(headSector) /\ BootTail = tailSector
        /\ flash[headSector][headSlot] = Blank => BootHead = <<headSector, headSlot>>
        /\ flash[headSector][headSlot] # Blank =>
             BootHead = IF headSlot = SlotsPerSector - 1
                          THEN <<Succ(headSector), 0>> ELSE <<headSector, headSlot + 1>>
<1> DEFINE h == headSector  t == tailSector  a == Succ(headSector)
<1>1. /\ h \in Sector /\ t \in Sector /\ a \in Sector /\ headSlot \in Slot /\ 0 \in Slot
      /\ Pred(a) = h /\ a # h /\ t # a /\ Outer(a) /\ Dist(t, a) = Dist(t, h) + 1
  BY SectorAhead, Neighbours, SlotsAssumption DEF TypeOK, Layout, NextReady, Slot
<1>2. flash[h][0] # Blank
  <2>1. headSlot # 0 => 0 < headSlot
    BY <1>1, SlotsAssumption DEF Slot
  <2> QED BY <1>1, <2>1 DEF Layout, HeadSplits, AtStart
<1>3. \A s \in Sector : Erased(s) <=> Outer(s)
  <2>1. ASSUME NEW s \in Sector, Outer(s) PROVE Erased(s)
    BY <2>1 DEF Layout, OuterBlank
  <2>2. ASSUME NEW s \in Sector, Inner(s) PROVE ~Erased(s)
    BY <1>1, <2>2 DEF Layout, InnerFull, IsFull, Erased
  <2>3. ~Erased(h)
    BY <1>2 DEF Erased
  <2> QED BY <1>1, <2>1, <2>2, <2>3, Regions
<1>4. RunStart = a
  <2>1. ~Erased(Pred(a)) /\ Erased(a)
    BY <1>1, <1>3, Regions
  <2>2. ASSUME NEW s \in Sector, Erased(s), s # a PROVE Erased(Pred(s))
    BY <1>3, <2>2, OuterRun
  <2> QED BY <1>1, <2>1, <2>2, RunIs
<1>5. BootTail = t
  <2>1. ~Erased(t)
    <3>1. ~Outer(t)
      BY <1>1, Distances, SectorsAssumption DEF Outer
    <3> QED BY <1>1, <1>3, <3>1
  <2>2. ASSUME NEW s \in Sector, ~Erased(s) PROVE Dist(a, t) <= Dist(a, s)
    <3>1. ~Outer(s)
      BY <1>3, <2>2
    <3>2. Dist(t, s) \in Int /\ Dist(t, h) \in Int
      BY <1>1, Distances, SectorsAssumption
    <3>3. Dist(t, s) < Dist(t, a)
      BY <1>1, <3>1, <3>2 DEF Outer
    <3> QED BY <1>1, <3>3, TailComesFirst
  <2> QED BY <1>1, <1>4, <2>1, <2>2, TailIs
<1>6. \A i \in Slot : i < headSlot => flash[h][i] # Blank
  BY DEF Layout, HeadSplits
<1>7. CASE flash[h][headSlot] = Blank
  BY <1>1, <1>4, <1>5, <1>6, <1>7, HeadIsSlot
<1>8. CASE flash[h][headSlot] # Blank /\ headSlot = SlotsPerSector - 1
  <2>1. \A i \in Slot : i < headSlot \/ i = headSlot
    BY <1>8, SlotsAssumption DEF Slot
  <2>2. \A i \in Slot : flash[h][i] # Blank
    BY <1>6, <1>8, <2>1
  <2> QED BY <1>1, <1>4, <1>5, <1>8, <2>2, HeadIsRunStart
<1>9. CASE flash[h][headSlot] # Blank /\ headSlot # SlotsPerSector - 1
  <2>1. headSlot + 1 \in Slot /\ headSlot + 1 > headSlot
    BY <1>1, <1>9, SlotsAssumption DEF Slot
  <2>2. flash[h][headSlot + 1] = Blank
    BY <2>1 DEF Layout, HeadSplits
  <2>3. \A i \in Slot : i < headSlot + 1 => i < headSlot \/ i = headSlot
    BY <1>1, SlotsAssumption DEF Slot
  <2>4. \A i \in Slot : i < headSlot + 1 => flash[h][i] # Blank
    BY <1>6, <1>9, <2>3
  <2> QED BY <1>1, <1>4, <1>5, <1>9, <2>1, <2>2, <2>4, HeadIsSlot
<1> QED BY <1>7, <1>8, <1>9

\* The head is at the start of a blank sector, and the tail is further on than
\* the next one: head and tail are found where they are.
LEMMA RecoversAtStart ==
  ASSUME TypeOK, Layout, AtStart, tailSector # Succ(headSector),
         NEW d \in Sector, ~Erased(d)
  PROVE BootHead = <<headSector, headSlot>> /\ BootTail = tailSector
<1> DEFINE h == headSector  t == tailSector  a == Succ(headSector)
<1>1. /\ h \in Sector /\ t \in Sector /\ a \in Sector /\ headSlot = 0 /\ Erased(h)
      /\ Pred(a) = h /\ a # h /\ t # a /\ Outer(a)
      /\ Pred(h) \in Sector
  BY SectorAhead, Neighbours DEF TypeOK, AtStart, Erased
<1>2. /\ \A s \in Sector : Outer(s) => Erased(s)
      /\ \A s \in Sector : Inner(s) => IsFull(s) /\ ~Erased(s)
  <2>1. ASSUME NEW s \in Sector, Inner(s) PROVE IsFull(s)
    <3>1. s # a
      BY <1>1, <2>1, Regions
    <3> QED BY <2>1, <3>1 DEF Layout, InnerFull, Ahead
  <2>2. \A s \in Sector : IsFull(s) => ~Erased(s)
    BY SlotsAssumption DEF IsFull, Erased, Slot
  <2> QED BY <2>1, <2>2 DEF Layout, OuterBlank
<1>3. \A s \in Sector : Inner(s) \/ s = h \/ Outer(s)
  BY Regions
<1>4. t # h
  <2>1. SUFFICES ASSUME t = h PROVE FALSE
    OBVIOUS
  <2>2. Inner(d)
    BY <1>1, <1>2, <1>3
  <2> QED BY <1>1, <2>1, <2>2, Distances, SectorsAssumption DEF Inner
<1>5. Inner(Pred(h)) /\ Inner(t)
  <2>1. /\ Dist(t, Pred(h)) = Dist(t, h) - 1 /\ Dist(t, h) \in Int
        /\ Dist(t, t) = 0 /\ Dist(t, h) # 0 /\ Dist(t, h) >= 0
    BY <1>1, <1>4, Distances, SectorsAssumption
  <2> QED BY <2>1 DEF Inner
<1>6. RunStart = h
  <2>1. ASSUME NEW s \in Sector, Erased(s), s # h PROVE Erased(Pred(s))
    <3>1. Outer(s)
      BY <1>2, <1>3, <2>1
    <3> QED BY <1>1, <1>2, <3>1, OuterRun
  <2>2. ~Erased(Pred(h))
    BY <1>1, <1>2, <1>5
  <2> QED BY <1>1, <2>1, <2>2, RunIs
<1>7. BootHead = <<h, 0>>
  BY <1>1, <1>2, <1>5, <1>6, HeadIsRunStart DEF IsFull
<1>8. BootTail = t
  <2>1. ASSUME NEW s \in Sector, ~Erased(s) PROVE Dist(h, t) <= Dist(h, s)
    <3>1. Inner(s)
      BY <1>1, <1>2, <1>3, <2>1
    <3> QED BY <1>1, <3>1, TailComesFirst DEF Inner
  <2> QED BY <1>1, <1>2, <1>5, <1>6, <2>1, TailIs
<1> QED BY <1>1, <1>7, <1>8

\* The erase of the sector ahead, the oldest one, was cut: the tail is found
\* behind it if its first slot reads erased.
LEMMA RecoversTornTail ==
  ASSUME TypeOK, Layout, AtStart, tailSector = Succ(headSector)
  PROVE /\ BootHead = <<headSector, headSlot>>
        /\ BootTail = IF Erased(tailSector) THEN Succ(tailSector) ELSE tailSector
<1> DEFINE h == headSector  a == Succ(headSector)
<1>1. /\ h \in Sector /\ a \in Sector /\ headSlot = 0 /\ Erased(h) /\ a # h
      /\ Pred(a) = h /\ Pred(h) \in Sector /\ Pred(h) # h /\ Pred(h) # a
      /\ Succ(a) \in Sector /\ Succ(a) # h /\ Succ(a) # a
  <2>1. h \in Sector /\ headSlot = 0 /\ Erased(h)
    BY DEF TypeOK, AtStart, Erased
  <2>2. a \in Sector /\ Pred(h) \in Sector /\ Succ(Pred(h)) = h
    BY <2>1, Neighbours
  <2> QED BY <2>1, <2>2, Neighbours
<1>2. /\ Dist(h, h) = 0 /\ Dist(h, a) = 1 /\ Dist(h, Succ(a)) = 2
      /\ \A s \in Sector : Dist(h, s) \in Nat
  <2>1. Dist(h, h) = 0 /\ Dist(h, a) = Dist(h, h) + 1 /\ Dist(h, Succ(a)) = Dist(h, a) + 1
    BY <1>1, Distances
  <2>2. \A s \in Sector : Dist(h, s) \in Nat
    BY <1>1, Distances, SectorsAssumption
  <2> QED BY <2>1, <2>2
<1>3. \A s \in Sector : s # h /\ s # a => IsFull(s) /\ ~Erased(s)
  <2>1. SUFFICES ASSUME NEW s \in Sector, s # h, s # a PROVE IsFull(s) /\ ~Erased(s)
    OBVIOUS
  <2>2. /\ Dist(a, h) = Sectors - 1 /\ Dist(a, s) \in 0 .. Sectors - 1
        /\ Dist(a, s) # Dist(a, h)
    BY <1>1, <2>1, Distances
  <2>3. Inner(s)
    BY <2>2, SectorsAssumption DEF Inner
  <2>4. IsFull(s)
    BY <2>1, <2>3 DEF Layout, InnerFull, Ahead
  <2> QED BY <2>4, SlotsAssumption DEF IsFull, Erased, Slot
<1>4. RunStart = h
  <2>1. ~Erased(Pred(h))
    BY <1>1, <1>3
  <2>2. \A s \in Sector : Erased(s) /\ s # h => Erased(Pred(s))
    BY <1>1, <1>3
  <2> QED BY <1>1, <2>1, <2>2, RunIs
<1>5. BootHead = <<h, 0>>
  BY <1>1, <1>3, <1>4, HeadIsRunStart DEF IsFull
<1>6. CASE ~Erased(a)
  <2>1. ASSUME NEW s \in Sector, ~Erased(s) PROVE Dist(h, a) <= Dist(h, s)
    <3>1. s # h
      BY <1>1, <2>1
    <3>2. Dist(h, s) # 0 /\ Dist(h, s) \in Nat
      BY <1>1, <1>2, <3>1, Distances
    <3> QED BY <1>2, <3>2
  <2> QED BY <1>1, <1>4, <1>5, <1>6, <2>1, TailIs
<1>7. CASE Erased(a)
  <2>1. ASSUME NEW s \in Sector, ~Erased(s) PROVE Dist(h, Succ(a)) <= Dist(h, s)
    <3>1. s # h /\ s # a
      BY <1>1, <1>7, <2>1
    <3>2. Dist(h, s) # Dist(h, h) /\ Dist(h, s) # Dist(h, a) /\ Dist(h, s) \in Nat
      BY <1>1, <1>2, <3>1, Distances
    <3> QED BY <1>2, <3>2
  <2> QED BY <1>1, <1>3, <1>4, <1>5, <1>7, <2>1, TailIs
<1> QED BY <1>1, <1>5, <1>6, <1>7

\* The slot at the head was written before the cut: the head moves past it.
LEMMA RecFindsRecord ==
  ASSUME TypeOK, Steps, Numbered, Ordered, Layout, pc = "off", pc' = "idle",
         UNCHANGED <<flash, next, tailSector>>,
         flash[headSector][headSlot] # Blank,
         IF headSlot = SlotsPerSector - 1
           THEN headSlot' = 0 /\ headSector' = Succ(headSector)
           ELSE headSlot' = headSlot + 1 /\ UNCHANGED headSector
  PROVE Recoverable'
<1>1. /\ flash' = flash /\ next' = next /\ headSector \in Sector /\ headSlot \in Slot
      /\ ~AtStart /\ tailSector # Succ(headSector)
  BY DEF TypeOK, AtStart, Layout, NextReady
<1>2. Taken
  BY <1>1 DEF Taken
<1>3. \A i \in Slot : i > headSlot => flash[headSector][i] = Blank
  BY DEF Layout, HeadSplits
<1>4. Layout' /\ (headSlot' # 0 => tailSector' # Succ(headSector'))
  BY <1>1, <1>2, <1>3, TakenLayout
<1>5. Ordered'
  BY <1>1, <1>2, <1>3, TakenOrder
<1>6. Steps' /\ Numbered'
  BY <1>1, <1>4 DEF Steps, Numbered
<1> QED BY <1>4, <1>5, <1>6 DEF Recoverable

\* The erase ahead was done but for the tail's move: the recovery makes it.
LEMMA RecMovesTail ==
  ASSUME TypeOK, Steps, Numbered, Ordered, Layout, AtStart, pc' = "idle",
         tailSector = Succ(headSector), Erased(tailSector), tailSector' = Succ(tailSector),
         UNCHANGED <<flash, next, headSector, headSlot>>
  PROVE Recoverable'
<1> DEFINE a == Succ(headSector)
<1>1. /\ flash' = flash /\ next' = next /\ headSector' = headSector /\ headSlot' = 0 /\ headSlot = 0
      /\ headSector \in Sector /\ a \in Sector /\ a # headSector /\ AtStart'
      /\ tailSector = a /\ tailSector' \in Sector
  BY Neighbours DEF TypeOK, AtStart
<1>2. tailSector' = headSector => tailSector = headSector
  BY <1>1, TailMoves
<1>3. ASSUME NEW s \in Sector, s # a
      PROVE (Inner(s)' <=> Inner(s)) /\ (Outer(s)' <=> Outer(s))
  BY <1>1, <1>3, TailMoves
<1>4. ASSUME NEW s \in Sector, NEW t \in Sector, s # a, t # a,
             (Dist(tailSector, s) < Dist(tailSector, t))'
      PROVE Dist(tailSector, s) < Dist(tailSector, t)
  BY <1>1, <1>4, TailMoves
<1>5. ~Inner(a)'
  <2>1. Dist(tailSector', a) = Sectors - 1
    BY <1>1, NextDistance
  <2>2. Dist(tailSector', headSector) \in 0 .. Sectors - 1
    BY <1>1, Distances
  <2> QED BY <1>1, <2>1, <2>2, SectorsAssumption DEF Inner
<1>6. InnerFull'
  <2>1. ASSUME NEW s \in Sector, Inner(s)' PROVE IsFull(s)'
    <3>1. s # a
      BY <1>1, <1>5, <2>1 DEF Inner
    <3>2. IsFull(s)
      BY <1>3, <2>1, <3>1 DEF Layout, InnerFull, Ahead
    <3> QED BY <1>1, <3>2 DEF IsFull
  <2> QED BY <2>1 DEF InnerFull
<1>7. OuterBlank'
  <2>1. Erased(a)
    BY <1>1
  <2>2. ASSUME NEW s \in Sector, Outer(s)', s # a PROVE Erased(s) /\ IsBlank(s)
    BY <1>3, <2>2 DEF Layout, OuterBlank, Ahead
  <2> QED BY <1>1, <2>1, <2>2 DEF OuterBlank, Ahead, Erased, IsBlank
<1>8. HeadSplits'
  <2>1. \A i \in Slot : ~(i < 0)
    BY SlotsAssumption DEF Slot
  <2> QED BY <1>1, <2>1 DEF Layout, HeadSplits, AtStart
<1>9. NextReady' /\ EmptyAtZero'
  BY <1>1, <1>2 DEF NextReady, EmptyAtZero
<1>10. Steps' /\ Numbered'
  BY <1>1 DEF Steps, Numbered
<1>11. Ordered'
  <2>1. ASSUME NEW s \in Sector, NEW i \in Slot, Kept(s, i)' PROVE Kept(s, i) /\ s # a
    <3>1. s # a
      BY <1>1, <1>5, <2>1 DEF Kept, IsLive, Inner
    <3> QED BY <1>1, <1>3, <2>1, <3>1 DEF Kept, IsLive, Inner
  <2>2. ASSUME NEW s \in Sector, NEW t \in Sector, NEW i \in Slot, NEW j \in Slot,
               Kept(s, i)', Kept(t, j)', Before(s, i, t, j)'
        PROVE Before(s, i, t, j)
    BY <1>4, <2>1, <2>2 DEF Before
  <2> QED BY <1>1, <2>1, <2>2, OrderKept
<1> QED BY <1>6, <1>7, <1>8, <1>9, <1>10, <1>11 DEF Recoverable, Layout

LEMMA RecBootRecover == RecInv /\ BootRecover => Recoverable'
<1> SUFFICES ASSUME RecInv, BootRecover PROVE Recoverable'
  OBVIOUS
<1>1. PICK d \in Sector : ~Erased(d)
  BY DEF BootRecover
<1>2. ~Foreign
  BY SlotsAssumption, CellAssumption DEF BootRecover, Foreign, Erased, Slot
<1>3. /\ TypeOK /\ Steps /\ Numbered /\ Ordered /\ Layout /\ pc = "off" /\ pc' = "idle"
      /\ UNCHANGED <<flash, next>> /\ headSector \in Sector
      /\ headSector' = BootHead[1] /\ headSlot' = BootHead[2] /\ tailSector' = BootTail
  BY <1>2 DEF RecInv, Recoverable, BootRecover, SetRing, TypeOK
<1>4. CASE ~AtStart
  <2>1. CASE flash[headSector][headSlot] = Blank
    BY <1>3, <1>4, <2>1, RecoversInSector, RecUntouched
  <2>2. CASE flash[headSector][headSlot] # Blank
    <3>1. UNCHANGED tailSector
      BY <1>3, <1>4, RecoversInSector
    <3>2. BootHead = IF headSlot = SlotsPerSector - 1
                       THEN <<Succ(headSector), 0>> ELSE <<headSector, headSlot + 1>>
      BY <1>3, <1>4, <2>2, RecoversInSector
    <3>3. IF headSlot = SlotsPerSector - 1
            THEN headSlot' = 0 /\ headSector' = Succ(headSector)
            ELSE headSlot' = headSlot + 1 /\ UNCHANGED headSector
      BY <1>3, <3>2
    <3> QED BY <1>3, <2>2, <3>1, <3>3, RecFindsRecord
  <2> QED BY <2>1, <2>2
<1>5. CASE AtStart
  <2>1. flash[headSector][headSlot] = Blank
    BY <1>5 DEF AtStart
  <2>2. CASE tailSector # Succ(headSector)
    BY <1>1, <1>3, <1>5, <2>1, <2>2, RecoversAtStart, RecUntouched
  <2>3. CASE tailSector = Succ(headSector) /\ Erased(tailSector)
    BY <1>3, <1>5, <2>3, RecoversTornTail, RecMovesTail
  <2>4. CASE tailSector = Succ(headSector) /\ ~Erased(tailSector)
    BY <1>3, <1>5, <2>1, <2>4, RecoversTornTail, RecUntouched
  <2> QED BY <2>2, <2>3, <2>4
<1> QED BY <1>4, <1>5

\* Every sector reads erased only when the log is empty and starts at sector 0.
LEMMA EmptyStays ==
  ASSUME RecInv, BootEmpty
  PROVE Layout /\ headSlot = 0 /\ UNCHANGED <<flash, next, headSector, headSlot, tailSector>>
<1> DEFINE h == headSector  t == tailSector
<1>1. /\ TypeOK /\ pc = "off" /\ pc' = "idle" /\ UNCHANGED <<flash, next>>
      /\ headSector' = 0 /\ headSlot' = 0 /\ tailSector' = 0
      /\ h \in Sector /\ t \in Sector /\ headSlot \in Slot /\ 0 \in Slot
      /\ \A s \in Sector : Erased(s)
  BY SlotsAssumption DEF RecInv, BootEmpty, SetRing, TypeOK, Slot
<1>2. Layout
  BY <1>1, CellAssumption DEF RecInv, Recoverable, Foreign, Erased
<1>3. \A s \in Sector : Inner(s) => AtStart /\ s = Succ(h)
  BY <1>1, <1>2 DEF Layout, InnerFull, Ahead, IsFull, Erased
<1>4. t = h
  <2>1. SUFFICES ASSUME t # h PROVE FALSE
    OBVIOUS
  <2>2. Inner(t)
    BY <1>1, <2>1, Distances, SectorsAssumption DEF Inner
  <2>3. t = Succ(h) /\ Succ(t) \in Sector /\ Succ(t) # h /\ Succ(t) # t
    BY <1>1, <1>3, <2>2, Neighbours
  <2>4. /\ Dist(t, h) = Sectors - 1 /\ Dist(t, Succ(t)) \in 0 .. Sectors - 1
        /\ Dist(t, Succ(t)) # Dist(t, h)
    BY <1>1, <2>3, Distances
  <2>5. Inner(Succ(t))
    BY <2>4, SectorsAssumption DEF Inner
  <2> QED BY <1>3, <2>3, <2>5
<1>5. headSlot = 0
  <2>1. ~(0 < headSlot)
    BY <1>1, <1>2 DEF Layout, HeadSplits, Erased
  <2> QED BY <1>1, <2>1, SlotsAssumption DEF Slot
<1>6. UNCHANGED <<headSector, headSlot, tailSector>>
  BY <1>1, <1>2, <1>4, <1>5 DEF Layout, EmptyAtZero
<1> QED BY <1>1, <1>2, <1>5, <1>6

LEMMA RecBootEmpty == RecInv /\ BootEmpty => Recoverable'
<1> SUFFICES ASSUME RecInv, BootEmpty PROVE Recoverable'
  OBVIOUS
<1>1. pc = "off" /\ pc' = "idle" /\ flash[headSector][headSlot] = Blank
  BY EmptyStays DEF BootEmpty, Erased, RecInv, TypeOK
<1> QED BY <1>1, EmptyStays, RecUntouched

\* No sector reads erased only in a partition that was never used.
LEMMA RecBootCorrupt == RecInv /\ BootCorrupt => Recoverable'
<1> SUFFICES ASSUME RecInv, BootCorrupt PROVE Recoverable'
  OBVIOUS
<1>1. /\ TypeOK /\ Steps /\ Numbered /\ pc = "off" /\ pc' = "clear" /\ k' = 0
      /\ UNCHANGED <<flash, next>>
      /\ headSector' = 0 /\ headSlot' = 0 /\ tailSector' = 0
      /\ 0 \in Sector
  BY SectorsAssumption DEF RecInv, Recoverable, BootCorrupt, SetRing, Sector
<1>2. Steps'
  BY <1>1, SectorsAssumption DEF Steps, Sector
<1>3. Numbered'
  BY <1>1 DEF Numbered
<1>4. Ordered'
  <2>1. \A s \in Sector : Dist(0, s) >= 0 /\ Dist(0, 0) = 0
    BY <1>1, Distances, SectorsAssumption
  <2>2. \A i \in Slot : ~(i < 0)
    BY SlotsAssumption DEF Slot
  <2>3. ASSUME NEW s \in Sector, NEW i \in Slot, Kept(s, i)' PROVE s = 0 /\ i = 0
    BY <1>1, <2>1, <2>2, <2>3, Distances DEF Kept, IsLive
  <2>4. ASSUME NEW s \in Sector, NEW t \in Sector, NEW i \in Slot, NEW j \in Slot,
               Kept(s, i)', Kept(t, j)', Before(s, i, t, j)'
        PROVE FALSE
    <3>1. s = 0 /\ t = 0 /\ i = 0 /\ j = 0
      BY <2>3, <2>4
    <3> QED BY <1>1, <2>1, <2>4, <3>1 DEF Before
  <2> QED BY <2>4 DEF Ordered
<1> QED BY <1>1, <1>2, <1>3, <1>4 DEF Recoverable

(***************************************************************************)
(* The theorems.                                                           *)
(***************************************************************************)
LEMMA RecStep == HealthyFaults /\ RecInv /\ [Next]_vars => RecInv'
<1> SUFFICES ASSUME HealthyFaults, RecInv, [Next]_vars PROVE RecInv'
  OBVIOUS
<1>1. TypeOK'
  BY RecIsCap, CapStep DEF CapInv
<1>2. Recoverable'
  <2>1. CASE Reclaim
    BY <2>1 DEF Reclaim, RecInv, Recoverable, Steps
  <2>2. CASE ClearFails
    BY <2>2 DEF ClearFails, HealthyFaults
  <2>3. CASE BootFails
    BY <2>3 DEF BootFails, HealthyFaults
  <2>4. CASE UNCHANGED vars
    BY <2>4 DEF vars, RecInv, Recoverable, Steps, Numbered, Ordered, Kept, IsLive, Before,
       Foreign, Layout, InnerFull, OuterBlank, HeadSplits, NextReady, EmptyAtZero,
       AtStart, Ahead, Inner, Outer, IsBlank, IsFull, Erased
  <2> QED BY <2>1, <2>2, <2>3, <2>4, RecAppendStart, RecEraseAhead, RecWrite, RecAppendFails,
          RecPowerCut, RecClearStart, RecClearSector, RecBootEmpty, RecBootCorrupt, RecBootRecover
       DEF Next
<1> QED BY <1>1, <1>2 DEF RecInv

LEMMA RecOrders == RecInv => Chronological
BY DEF RecInv, Recoverable, Ordered, Kept, Before, Chronological

\* Whatever flash call a power cut or an error interrupts, the flash holds the
\* layout from which log_store_init finds head and tail where they were, or one
\* record further on.
THEOREM AlwaysRecoverable == ASSUME HealthyFaults PROVE Spec => []Recoverable
<1>1. RecInv => Recoverable
  BY DEF RecInv
<1>2. RecInv /\ [Next]_vars => RecInv'
  BY RecStep
<1> QED BY RecInit, <1>1, <1>2, PTL DEF Spec

\* log_store_read returns the records in the order log_store_append took them,
\* across wraps, rolls, failing calls, power cuts and recoveries.
THEOREM OrderIsKept == ASSUME HealthyFaults PROVE Spec => []Chronological
<1>1. RecInv /\ [Next]_vars => RecInv'
  BY RecStep
<1> QED BY RecInit, RecOrders, <1>1, PTL DEF Spec

(***************************************************************************)
(* What log_store_append has reported as stored stays stored, and the ring *)
(* in flash implements the bounded queue of RingLog.                       *)
(***************************************************************************)
\* The action properties of LogStore, as facts of one step.
Rolls == \A r \in Live \ Live' : Count = Capacity /\ \E i \in Slot : flash[tailSector][i] = r
Adds == Live' = Live \cup {next - 1}
Brings == Live' \subseteq Live \cup {next - 1}

LEMMA LiveSlot ==
  ASSUME TypeOK
  PROVE /\ \A r : r \in Live <=> /\ r \in 0 .. next - 1
                                 /\ \E s \in Sector, i \in Slot : IsLive(s, i) /\ flash[s][i] = r
        /\ \A r \in Live : r \in Nat /\ r < next
BY DEF Live, TypeOK

LEMMA Below ==
  ASSUME NEW a \in Nat, NEW b \in Nat, a <= b, NEW r \in Nat, r < a
  PROVE r \in 0 .. b - 1
OBVIOUS

\* Live slots that stay live and as they are lose nothing; others are of the oldest sector.
LEMMA RollsIf ==
  ASSUME TypeOK, TypeOK', next <= next',
         \A s \in Sector, i \in Slot :
           IsLive(s, i) /\ flash[s][i] \in Nat =>
             \/ IsLive(s, i)' /\ flash'[s][i] = flash[s][i]
             \/ s = tailSector /\ Count = Capacity
  PROVE Rolls
<1> SUFFICES ASSUME NEW r \in Live, r \notin Live'
             PROVE Count = Capacity /\ \E i \in Slot : flash[tailSector][i] = r
  BY DEF Rolls
<1>1. r \in Nat /\ r < next /\ next \in Nat /\ next' \in Nat
  BY LiveSlot DEF TypeOK
<1>2. PICK s \in Sector, i \in Slot : IsLive(s, i) /\ flash[s][i] = r
  BY LiveSlot
<1>3. next <= next'
  OBVIOUS
<1>5. r \in 0 .. next' - 1
  BY <1>1, <1>3, Below
<1>6. ~(IsLive(s, i)' /\ flash'[s][i] = flash[s][i])
  BY <1>2, <1>5 DEF Live
<1> QED BY <1>1, <1>2, <1>6

\* The head before a sector that it is about to enter: the log is full.
LEMMA FullRing ==
  ASSUME TypeOK, tailSector = Succ(headSector), headSlot = 0
  PROVE Count = Capacity
<1>1. Dist(tailSector, headSector) = Sectors - 1
  BY Distances DEF TypeOK
<1>2. (Sectors - 1) * SlotsPerSector \in Nat
  BY SectorsAssumption, Multiples
<1> QED BY <1>1, <1>2 DEF Count, Capacity

LEMMA AheadIsTail ==
  ASSUME TypeOK, NEW i \in Slot, headSlot = 0, IsLive(Succ(headSector), i)
  PROVE tailSector = Succ(headSector) /\ Count = Capacity
<1>1. Succ(headSector) \in Sector /\ Succ(headSector) # headSector
  BY SectorAhead
<1>2. tailSector = Succ(headSector)
  BY <1>1, SectorAhead, Regions DEF IsLive, Inner
<1> QED BY <1>2, FullRing

\* Nothing but the slot at the head is taken.
LEMMA TakenLive ==
  ASSUME TypeOK, tailSector # Succ(headSector), Taken,
         NEW s \in Sector, NEW i \in Slot, IsLive(s, i)
  PROVE IsLive(s, i)' /\ flash'[s][i] = flash[s][i] /\ ~(s = headSector /\ i = headSlot)
<1>1. headSlot \in Slot /\ headSector \in Sector /\ i \in Int /\ headSlot \in Int
  BY SlotsAssumption DEF TypeOK, Slot
<1>2. Inner(s) \/ (s = headSector /\ i < headSlot)
  BY DEF IsLive, Inner
<1>3. ~(s = headSector /\ i = headSlot)
  BY <1>1, <1>2, Regions
<1>4. CASE headSlot # SlotsPerSector - 1
  <2>1. headSlot' = headSlot + 1 /\ headSector' = headSector /\ tailSector' = tailSector
    BY <1>4 DEF Taken
  <2> QED BY <1>1, <1>2, <1>3, <2>1 DEF IsLive, Inner, Taken
<1>5. CASE headSlot = SlotsPerSector - 1
  <2>1. headSector' = Succ(headSector) /\ tailSector' = tailSector
    BY <1>5 DEF Taken
  <2>2. Inner(s)'
    BY <1>2, <2>1, HeadMoves
  <2> QED BY <1>3, <2>2 DEF IsLive, Inner, Taken
<1> QED BY <1>4, <1>5

LEMMA TakenIsLive ==
  ASSUME TypeOK, tailSector # Succ(headSector), Taken,
         NEW s \in Sector, NEW i \in Slot, s = headSector, i = headSlot
  PROVE IsLive(s, i)'
<1>1. headSlot \in Slot /\ headSector \in Sector /\ headSlot \in Int
  BY SlotsAssumption DEF TypeOK, Slot
<1>2. CASE headSlot # SlotsPerSector - 1
  BY <1>1, <1>2 DEF Taken, IsLive
<1>3. CASE headSlot = SlotsPerSector - 1
  <2>1. headSector' = Succ(headSector) /\ tailSector' = tailSector
    BY <1>3 DEF Taken
  <2> QED BY <1>1, <2>1, HeadMoves DEF IsLive, Inner
<1> QED BY <1>2, <1>3

(***************************************************************************)
(* Each operation.                                                         *)
(***************************************************************************)
\* What a step that leaves the ring alone needs, and more than enough for one that changes
\* nothing.
LEMMA Unmoved ==
  ASSUME RecInv, RecInv', next <= next', UNCHANGED <<headSector, headSlot, tailSector>>,
         \A s \in Sector, i \in Slot :
           IsLive(s, i) /\ flash[s][i] \in Nat =>
             flash'[s][i] = flash[s][i] \/ (s = tailSector /\ Count = Capacity)
  PROVE Rolls
<1>1. \A s \in Sector, i \in Slot : IsLive(s, i) => IsLive(s, i)'
  BY DEF IsLive
<1> QED BY <1>1, RollsIf DEF RecInv

LEMMA RollsEraseAhead == RecInv /\ RecInv' /\ EraseAhead => Rolls
<1> SUFFICES ASSUME RecInv, RecInv', EraseAhead PROVE Rolls
  OBVIOUS
<1> DEFINE a == Succ(headSector)
<1>1. /\ TypeOK /\ headSlot = 0 /\ headSector \in Sector /\ tailSector \in Sector /\ next \in Nat
      /\ UNCHANGED <<headSector, headSlot, next>>
  BY DEF RecInv, Recoverable, Steps, EraseAhead, EraseSector, TypeOK
<1>2. \A s \in Sector : s # a => flash'[s] = flash[s]
  BY <1>1 DEF EraseAhead, EraseSector, TypeOK
<1>3. tailSector' = IF tailSector = a THEN Succ(tailSector) ELSE tailSector
  <2>1. tailSector = a => Count > 0
    <3>1. tailSector = a => Count = Capacity
      BY <1>1, FullRing
    <3>2. 1 * SlotsPerSector <= (Sectors - 1) * SlotsPerSector
      BY SectorsAssumption, Multiples
    <3>3. Capacity > 0
      BY <3>2, SlotsAssumption, SectorsAssumption, Multiples DEF Capacity
    <3> QED BY <3>1, <3>3
  <2> QED BY <2>1 DEF EraseAhead, EraseSector
<1>4. \A s \in Sector : s # a => (Inner(s)' <=> Inner(s))
  BY <1>1, <1>3, TailMoves
<1>5. ASSUME NEW s \in Sector, NEW i \in Slot, IsLive(s, i)
      PROVE (IsLive(s, i)' /\ flash'[s][i] = flash[s][i]) \/ (s = tailSector /\ Count = Capacity)
  <2>1. CASE s = a
    BY <1>1, <1>5, <2>1, AheadIsTail
  <2>2. CASE s # a
    BY <1>1, <1>2, <1>4, <1>5, <2>2 DEF IsLive, Inner
  <2> QED BY <2>1, <2>2
<1> QED BY <1>1, <1>5, RollsIf DEF RecInv

\* A slot that is written is the one at the head, and it was blank.
LEMMA WriteTakes ==
  ASSUME RecInv, Write
  PROVE /\ Taken /\ tailSector # Succ(headSector) /\ Layout /\ ~AtStart
        /\ flash'[headSector][headSlot] = next - 1 /\ next \in Nat /\ next # 0
        /\ \A i \in Slot : i > headSlot => flash[headSector][i] = Blank
<1>1. /\ TypeOK /\ Steps /\ Layout
      /\ pc = "write" /\ pc' = "idle" /\ next \in Nat /\ next # 0
      /\ headSector \in Sector /\ headSlot \in Slot
      /\ tailSector # Succ(headSector) /\ ~AtStart
  BY RunningLayout DEF RecInv, Recoverable, Write, Steps, TypeOK, AtStart
<1>2. \A i \in Slot : i > headSlot \/ i = headSlot => flash[headSector][i] = Blank
  BY <1>1 DEF Layout, HeadSplits
<1>3. flash'[headSector][headSlot] = next - 1
  BY <1>1, <1>2 DEF Write, Program, TypeOK
<1>4. Taken
  BY <1>1, <1>3, CellAssumption DEF Taken, Write, TypeOK
<1> QED BY <1>1, <1>2, <1>3, <1>4

LEMMA RollsTaken ==
  ASSUME RecInv, RecInv', Taken, tailSector # Succ(headSector)
  PROVE Rolls
<1>1. TypeOK /\ TypeOK' /\ next \in Nat /\ next' = next
  BY DEF RecInv, Taken, TypeOK
<1>2. \A s \in Sector, i \in Slot : IsLive(s, i) => IsLive(s, i)' /\ flash'[s][i] = flash[s][i]
  BY <1>1, TakenLive
<1> QED BY <1>1, <1>2, RollsIf

\* A torn erase hits the oldest sector or one beyond the head.
LEMMA RollsTornErase ==
  ASSUME RecInv, RecInv', pc = "erase_ahead", EraseBegun,
         UNCHANGED <<headSector, headSlot, tailSector, next>>
  PROVE Rolls
<1>1. TypeOK /\ headSlot = 0 /\ next \in Nat /\ next' = next
  BY DEF RecInv, Recoverable, Steps, TypeOK
<1>2. Target = Succ(headSector) /\ Target \in Sector
  BY <1>1, SectorAhead DEF Target
<1>3. \A s \in Sector : s # Succ(headSector) => flash'[s] = flash[s]
  BY <1>1, <1>2, TornEraseFacts
<1>4. \A i \in Slot : IsLive(Succ(headSector), i) =>
                       Succ(headSector) = tailSector /\ Count = Capacity
  BY <1>1, AheadIsTail
<1> QED BY <1>1, <1>3, <1>4, Unmoved

LEMMA RollsTornWrite ==
  ASSUME RecInv, RecInv', pc = "write", WriteBegun,
         UNCHANGED <<headSector, headSlot, tailSector, next>>
  PROVE Rolls
<1>1. /\ TypeOK /\ next \in Nat /\ next' = next /\ headSector \in Sector /\ headSlot \in Slot
      /\ Layout
  BY RunningLayout DEF RecInv, TypeOK
<1>2. flash[headSector][headSlot] = Blank
  BY <1>1 DEF Layout, HeadSplits
<1>3. \A s \in Sector, i \in Slot :
        ~(s = headSector /\ i = headSlot) => flash'[s][i] = flash[s][i]
  BY <1>1 DEF WriteBegun, TypeOK
<1> QED BY <1>1, <1>2, <1>3, CellAssumption, Unmoved

LEMMA RollsAppendFails == HealthyFaults /\ RecInv /\ RecInv' /\ AppendFails => Rolls
<1> SUFFICES ASSUME HealthyFaults, RecInv, RecInv', AppendFails PROVE Rolls
  OBVIOUS
<1>1. /\ UNCHANGED <<headSector, headSlot, tailSector, next>> /\ next \in Nat
      /\ UNCHANGED flash \/ (pc = "erase_ahead" /\ EraseBegun)
  BY DEF AppendFails, ring, HealthyFaults, RecInv, Recoverable, Steps, TypeOK
<1>2. CASE UNCHANGED flash
  BY <1>1, <1>2, Unmoved
<1>3. CASE pc = "erase_ahead" /\ EraseBegun
  BY <1>1, <1>3, RollsTornErase
<1> QED BY <1>1, <1>2, <1>3

LEMMA RollsPowerCut == HealthyFaults /\ RecInv /\ RecInv' /\ PowerCut => Rolls
<1> SUFFICES ASSUME HealthyFaults, RecInv, RecInv', PowerCut PROVE Rolls
  OBVIOUS
<1>1. /\ UNCHANGED <<headSector, headSlot, tailSector, next>> /\ next \in Nat
      /\ \/ UNCHANGED flash
         \/ pc = "erase_ahead" /\ EraseBegun
         \/ pc = "write" /\ WriteBegun
  BY DEF PowerCut, ring, HealthyFaults, RecInv, Recoverable, Steps, TypeOK
<1>2. CASE UNCHANGED flash
  BY <1>1, <1>2, Unmoved
<1>3. CASE pc = "erase_ahead" /\ EraseBegun
  BY <1>1, <1>3, RollsTornErase
<1>4. CASE pc = "write" /\ WriteBegun
  BY <1>1, <1>4, RollsTornWrite
<1> QED BY <1>1, <1>2, <1>3, <1>4

(***************************************************************************)
(* log_store_init                                                          *)
(***************************************************************************)
LEMMA RollsBootEmpty == RecInv /\ RecInv' /\ BootEmpty => Rolls
<1> SUFFICES ASSUME RecInv, RecInv', BootEmpty PROVE Rolls
  OBVIOUS
<1>1. UNCHANGED <<flash, next, headSector, headSlot, tailSector>> /\ next \in Nat
  BY EmptyStays DEF RecInv, TypeOK
<1> QED BY <1>1, Unmoved

\* A flash without an erased sector holds no record.
LEMMA RollsBootCorrupt == RecInv /\ BootCorrupt => Rolls
<1> SUFFICES ASSUME RecInv, BootCorrupt PROVE Live = {}
  BY DEF Rolls
<1>1. TypeOK /\ pc = "off" /\ \A s \in Sector : ~Erased(s)
  BY DEF RecInv, BootCorrupt
<1>2. Foreign
  <2>1. SUFFICES ASSUME Layout PROVE FALSE
    BY <1>1 DEF RecInv, Recoverable
  <2>2. tailSector = Succ(headSector)
    <3>1. ~Outer(Succ(headSector))
      BY <1>1, <2>1, SectorAhead DEF Layout, OuterBlank
    <3> QED BY <1>1, <3>1, SectorAhead
  <2>3. AtStart
    BY <2>1, <2>2 DEF Layout, NextReady
  <2> QED BY <1>1, <2>3 DEF AtStart, Erased, TypeOK
<1> QED BY <1>1, <1>2, LiveSlot, CellAssumption DEF Foreign

\* The recovery finds head and tail where they were, or the head one record on, or the tail
\* past a sector whose erase was cut.
LEMMA BootFinds ==
  ASSUME RecInv, BootRecover
  PROVE /\ Layout /\ UNCHANGED <<flash, next>>
        /\ \/ UNCHANGED <<headSector, headSlot, tailSector>>
           \/ /\ Taken /\ tailSector # Succ(headSector) /\ ~AtStart
              /\ \A i \in Slot : i > headSlot => flash[headSector][i] = Blank
           \/ /\ headSlot = 0 /\ UNCHANGED <<headSector, headSlot>>
              /\ tailSector = Succ(headSector) /\ tailSector' = Succ(tailSector)
<1>1. PICK d \in Sector : ~Erased(d)
  BY DEF BootRecover
<1>2. ~Foreign
  BY SlotsAssumption, CellAssumption DEF BootRecover, Foreign, Erased, Slot
<1>3. /\ TypeOK /\ Layout /\ pc = "off" /\ pc' = "idle"
      /\ UNCHANGED <<flash, next>> /\ headSector \in Sector
      /\ headSector' = BootHead[1] /\ headSlot' = BootHead[2] /\ tailSector' = BootTail
  BY <1>2 DEF RecInv, Recoverable, BootRecover, SetRing, TypeOK
<1>4. CASE ~AtStart
  <2>1. CASE flash[headSector][headSlot] = Blank
    BY <1>3, <1>4, <2>1, RecoversInSector
  <2>2. CASE flash[headSector][headSlot] # Blank
    <3>1. UNCHANGED tailSector
      BY <1>3, <1>4, RecoversInSector
    <3>2. BootHead = IF headSlot = SlotsPerSector - 1
                       THEN <<Succ(headSector), 0>> ELSE <<headSector, headSlot + 1>>
      BY <1>3, <1>4, <2>2, RecoversInSector
    <3>3. Taken
      BY <1>3, <2>2, <3>1, <3>2 DEF Taken
    <3> QED BY <1>3, <1>4, <3>3 DEF Layout, NextReady, HeadSplits
  <2> QED BY <2>1, <2>2
<1>5. CASE AtStart
  <2>1. CASE tailSector # Succ(headSector)
    BY <1>1, <1>3, <1>5, <2>1, RecoversAtStart
  <2>2. CASE tailSector = Succ(headSector)
    BY <1>3, <1>5, <2>2, RecoversTornTail DEF AtStart
  <2> QED BY <2>1, <2>2
<1> QED BY <1>4, <1>5

LEMMA RollsBootRecover == RecInv /\ RecInv' /\ BootRecover => Rolls
<1> SUFFICES ASSUME RecInv, RecInv', BootRecover PROVE Rolls
  OBVIOUS
<1> DEFINE a == Succ(headSector)
<1>1. TypeOK /\ TypeOK' /\ next \in Nat /\ next' = next /\ flash' = flash
  BY BootFinds DEF RecInv, TypeOK
<1>2. CASE UNCHANGED <<headSector, headSlot, tailSector>>
  BY <1>1, <1>2, Unmoved
<1>3. CASE Taken /\ tailSector # Succ(headSector)
  BY <1>3, RollsTaken
<1>4. CASE /\ headSlot = 0 /\ UNCHANGED <<headSector, headSlot>>
           /\ tailSector = a /\ tailSector' = Succ(tailSector)
  <2>1. \A s \in Sector : s # a => (Inner(s)' <=> Inner(s))
    BY <1>1, <1>4, TailMoves
  <2>2. ASSUME NEW s \in Sector, NEW i \in Slot, IsLive(s, i)
        PROVE IsLive(s, i)' \/ (s = tailSector /\ Count = Capacity)
    <3>1. CASE s = a
      BY <1>1, <1>4, <2>2, <3>1, AheadIsTail
    <3>2. CASE s # a
      BY <1>4, <2>1, <2>2, <3>2 DEF IsLive, Inner
    <3> QED BY <3>1, <3>2
  <2> QED BY <1>1, <2>2, RollsIf
<1> QED BY <1>2, <1>3, <1>4, BootFinds

(***************************************************************************)
(* The theorems.                                                           *)
(***************************************************************************)
LEMMA RollsStep ==
  HealthyFaults /\ RecInv /\ [Next]_vars => (pc # "clear" => Rolls)
<1> SUFFICES ASSUME HealthyFaults, RecInv, [Next]_vars, pc # "clear" PROVE Rolls
  OBVIOUS
<1>1. RecInv' /\ next \in Nat
  BY RecStep DEF RecInv, TypeOK
<1>2. CASE UNCHANGED vars
  BY <1>1, <1>2, Unmoved DEF vars
<1>3. CASE AppendStart
  <2>1. next' = next + 1 /\ UNCHANGED <<flash, headSector, headSlot, tailSector>>
    BY <1>3 DEF AppendStart, ring
  <2>2. next <= next'
    BY <1>1, <2>1
  <2> QED BY <1>1, <2>1, <2>2, Unmoved
<1>4. CASE Reclaim
  BY <1>4 DEF Reclaim, RecInv, Recoverable, Steps
<1>5. CASE Write
  BY <1>1, <1>5, WriteTakes, RollsTaken
<1>6. CASE ClearStart
  <2>1. UNCHANGED <<flash, headSector, headSlot, tailSector, next>>
    BY <1>6 DEF ClearStart, ring
  <2> QED BY <1>1, <2>1, Unmoved
<1>7. CASE ClearSector \/ ClearFails
  BY <1>7 DEF ClearSector, ClearFails
<1>8. CASE BootFails
  BY <1>8 DEF BootFails, HealthyFaults
<1> QED BY <1>1, <1>2, <1>3, <1>4, <1>5, <1>6, <1>7, <1>8, RollsEraseAhead, RollsAppendFails,
           RollsPowerCut, RollsBootEmpty, RollsBootCorrupt, RollsBootRecover DEF Next

\* Outside log_store_clear a record is lost only from the oldest sector of a full log, whatever
\* power cut, error or recovery comes between (log_store.c, log_store_init and erase_sector).
THEOREM LosesOnlyWhenFull == ASSUME HealthyFaults PROVE Spec => RollsOnlyWhenFull
<1>1. RecInv /\ [Next]_vars => RecInv'
  BY RecStep
<1>2. RecInv /\ [Next]_vars =>
        [pc # "clear" => \A r \in Live \ Live' :
                           /\ Count = Capacity
                           /\ \E i \in Slot : flash[tailSector][i] = r]_vars
  BY RollsStep DEF Rolls
<1> QED BY <1>1, <1>2, RecInit, PTL DEF Spec, RollsOnlyWhenFull

\* The live slots afterwards are those before, and the one that was taken.
LEMMA TakenSlots ==
  ASSUME TypeOK, tailSector # Succ(headSector), Taken, NEW s \in Sector, NEW i \in Slot
  PROVE IsLive(s, i)' <=> IsLive(s, i) \/ (s = headSector /\ i = headSlot)
<1>1. IsLive(s, i) \/ (s = headSector /\ i = headSlot) => IsLive(s, i)'
  BY TakenLive, TakenIsLive
<1>2. ASSUME IsLive(s, i)' PROVE IsLive(s, i) \/ (s = headSector /\ i = headSlot)
  <2>1. headSlot \in Slot /\ i \in Int /\ headSlot \in Int
    BY SlotsAssumption DEF TypeOK, Slot
  <2>2. CASE headSlot # SlotsPerSector - 1
    BY <1>2, <2>1, <2>2 DEF Taken, IsLive
  <2>3. CASE headSlot = SlotsPerSector - 1
    <3>1. headSlot' = 0 /\ headSector' = Succ(headSector) /\ tailSector' = tailSector
      BY <2>3 DEF Taken
    <3>2. ~(i < headSlot')
      BY <3>1, SlotsAssumption DEF Slot
    <3>3. Inner(s) \/ s = headSector
      BY <1>2, <3>1, <3>2, HeadMoves DEF IsLive, Inner
    <3>4. i < headSlot \/ i = headSlot
      BY <2>1, <2>3, SlotsAssumption DEF Slot
    <3> QED BY <3>3, <3>4 DEF IsLive, Inner
  <2> QED BY <2>2, <2>3
<1> QED BY <1>1, <1>2

LEMMA TakenAdds ==
  ASSUME TypeOK, tailSector # Succ(headSector), Taken, next # 0,
         flash'[headSector][headSlot] = next - 1
  PROVE Adds
<1>1. next \in Nat /\ next' = next /\ headSector \in Sector /\ headSlot \in Slot
  BY DEF TypeOK, Taken
<1>2. ASSUME NEW r \in Live' PROVE r \in Live \cup {next - 1}
  <2>1. PICK s \in Sector, i \in Slot : r \in 0 .. next - 1 /\ IsLive(s, i)' /\ flash'[s][i] = r
    BY <1>1, <1>2 DEF Live
  <2>2. CASE s = headSector /\ i = headSlot
    BY <2>1, <2>2
  <2>3. CASE ~(s = headSector /\ i = headSlot)
    <3>1. IsLive(s, i) /\ flash[s][i] = r
      BY <2>1, <2>3, TakenSlots DEF Taken
    <3> QED BY <2>1, <3>1 DEF Live
  <2> QED BY <2>2, <2>3
<1>3. ASSUME NEW r \in Live PROVE r \in Live'
  <2>1. PICK s \in Sector, i \in Slot : r \in 0 .. next - 1 /\ IsLive(s, i) /\ flash[s][i] = r
    BY <1>3 DEF Live
  <2>2. IsLive(s, i)' /\ flash'[s][i] = r
    BY <2>1, TakenLive
  <2> QED BY <1>1, <2>1, <2>2 DEF Live
<1>4. next - 1 \in Live'
  <2>1. PICK s \in Sector, i \in Slot : s = headSector /\ i = headSlot
    BY <1>1
  <2>2. IsLive(s, i)' /\ flash'[s][i] = next - 1
    BY <2>1, TakenIsLive
  <2>3. next - 1 \in 0 .. next - 1
    BY <1>1
  <2> QED BY <1>1, <2>2, <2>3 DEF Live
<1> QED BY <1>2, <1>3, <1>4 DEF Adds

LEMMA WriteAdds == RecInv /\ Write => Adds
  BY WriteTakes, TakenAdds DEF RecInv

\* A record that log_store_append has returned 0 for is in the log at once, and takes the place
\* of no other (log_store.c, log_store_append).
THEOREM AcknowledgedIsRead == ASSUME HealthyFaults PROVE Spec => AckedReadable
<1>1. RecInv /\ [Next]_vars => RecInv'
  BY RecStep
<1>2. RecInv /\ [Next]_vars =>
        [pc = "write" /\ <<headSector, headSlot>>' # <<headSector, headSlot>>
           => Live' = Live \cup {next - 1}]_vars
  <2> SUFFICES ASSUME RecInv, [Next]_vars, pc = "write",
                      <<headSector, headSlot>>' # <<headSector, headSlot>>
               PROVE Adds
    BY DEF Adds
  <2>1. Write
    BY DEF Next, vars, ring, AppendStart, Reclaim, EraseAhead, AppendFails, ClearStart,
           ClearSector, ClearFails, PowerCut, BootEmpty, BootCorrupt, BootRecover, BootFails
  <2> QED BY <2>1, WriteAdds
<1> QED BY <1>1, <1>2, RecInit, PTL DEF Spec, AckedReadable

\* The first slot of a sector is blank before it is written: a sector that does not
\* begin with a blank slot is reclaimed, and erasing the next one leaves it alone.
FreshStart == pc \in {"erase_ahead", "write"} /\ headSlot = 0 => flash[headSector][0] = Blank

LEMMA FreshStep == CapInv /\ FreshStart /\ [Next]_vars => FreshStart'
<1> SUFFICES ASSUME CapInv, FreshStart, [Next]_vars PROVE FreshStart'
  OBVIOUS
<1>0. TypeOK /\ headSector \in Sector /\ 0 \in Slot
  BY SlotsAssumption DEF CapInv, TypeOK, Slot
<1>1. CASE AppendStart
  BY <1>1 DEF AppendStart, ring, FreshStart, Erased
<1>2. CASE Reclaim
  BY <1>0, <1>2 DEF Reclaim, EraseSector, FreshStart, TypeOK, BlankSector
<1>3. CASE EraseAhead
  <2>1. Succ(headSector) # headSector
    BY <1>0, Neighbours
  <2>2. flash'[headSector] = flash[headSector] /\ headSector' = headSector /\ headSlot' = headSlot
    BY <1>0, <1>3, <2>1 DEF EraseAhead, EraseSector, TypeOK
  <2> QED BY <1>3, <2>2 DEF EraseAhead, FreshStart
<1>4. CASE UNCHANGED vars
  BY <1>4 DEF vars, FreshStart
<1>5. CASE pc' \notin {"erase_ahead", "write"}
  BY <1>5 DEF FreshStart
<1>6. Next => AppendStart \/ Reclaim \/ EraseAhead \/ pc' \notin {"erase_ahead", "write"}
  BY DEF Next, Write, AppendFails, ClearStart, ClearSector, ClearFails, PowerCut,
         BootEmpty, BootCorrupt, BootRecover, BootFails
<1> QED BY <1>1, <1>2, <1>3, <1>4, <1>5, <1>6

LEMMA FreshWriteAdds == CapInv /\ FreshStart /\ Write /\ headSlot = 0 => Adds
<1> SUFFICES ASSUME CapInv, FreshStart, Write, headSlot = 0 PROVE Adds
  OBVIOUS
<1>1. /\ TypeOK /\ pc = "write" /\ next # 0 /\ next \in Nat /\ tailSector # Succ(headSector)
      /\ headSector \in Sector /\ headSlot \in Slot /\ flash[headSector][headSlot] = Blank
  BY DEF CapInv, TypeOK, Gap, CallState, Write, FreshStart
<1>2. flash'[headSector][headSlot] = next - 1
  BY <1>1 DEF Write, Program, TypeOK
<1>3. Taken
  <2>1. next - 1 # Blank
    BY <1>1, CellAssumption
  <2> QED BY <1>1, <1>2, <2>1 DEF Taken, Write, TypeOK
<1> QED BY <1>1, <1>2, <1>3, TakenAdds

\* Whatever fails, and whatever a failing write has left behind at the start of a sector:
\* the reclaim makes room for the next record, which displaces no other (log_store.c,
\* log_store_append).
THEOREM ReclaimMakesRoom == Spec => ReclaimHeals
<1>1. Init => CapInv /\ FreshStart
  BY CapInit DEF Init, FreshStart
<1>2. CapInv /\ FreshStart /\ [Next]_vars => (CapInv /\ FreshStart)'
  BY CapStep, FreshStep
<1>3. CapInv /\ FreshStart /\ [Next]_vars =>
        [pc = "write" /\ headSlot = 0 /\ <<headSector, headSlot>>' # <<headSector, headSlot>>
           => Live' = Live \cup {next - 1}]_vars
  <2> SUFFICES ASSUME CapInv, FreshStart, [Next]_vars, pc = "write", headSlot = 0,
                      <<headSector, headSlot>>' # <<headSector, headSlot>>
               PROVE Adds
    BY DEF Adds
  <2>1. Write
    BY DEF Next, vars, ring, AppendStart, Reclaim, EraseAhead, AppendFails, ClearStart,
           ClearSector, ClearFails, PowerCut, BootEmpty, BootCorrupt, BootRecover, BootFails
  <2> QED BY <2>1, FreshWriteAdds
<1> QED BY <1>1, <1>2, <1>3, PTL DEF Spec, ReclaimHeals

\* While the power is off the slot at the head holds the record whose append was cut, or none.
HeadRecord ==
  pc = "off" /\ flash[headSector][headSlot] \in Nat => flash[headSector][headSlot] = next - 1

LEMMA HeadRecordStep == HealthyFaults /\ RecInv /\ HeadRecord /\ [Next]_vars => HeadRecord'
<1> SUFFICES ASSUME HealthyFaults, RecInv, HeadRecord, [Next]_vars, pc' = "off"
             PROVE HeadRecord'
  BY DEF HeadRecord
<1>1. CASE UNCHANGED vars
  BY <1>1 DEF vars, HeadRecord
<1>2. CASE PowerCut
  <2>1. /\ UNCHANGED <<headSector, headSlot, next>> /\ pc \notin {"off", "clear"} /\ Layout
        /\ headSector \in Sector /\ headSlot \in Slot /\ TypeOK
    BY <1>2, RunningLayout DEF PowerCut, ring, HealthyFaults, RecInv, TypeOK
  <2>2. flash[headSector][headSlot] = Blank
    BY <2>1 DEF Layout, HeadSplits
  <2>3. CASE UNCHANGED flash
    BY <2>1, <2>2, <2>3, CellAssumption DEF HeadRecord
  <2>4. CASE pc = "erase_ahead" /\ EraseBegun
    <3>1. Target = Succ(headSector) /\ Target \in Sector /\ Target # headSector
      BY <2>1, <2>4, SectorAhead DEF Target
    <3>2. flash'[headSector] = flash[headSector]
      BY <2>1, <2>4, <3>1, TornEraseFacts
    <3> QED BY <2>1, <2>2, <3>2, CellAssumption DEF HeadRecord
  <2>5. CASE pc = "write" /\ WriteBegun
    <3>1. PICK cell \in {Blank, Damaged, next - 1} :
            flash' = [flash EXCEPT ![headSector][headSlot] = cell]
      BY <2>2, <2>5 DEF WriteBegun, TornWrite, Program
    <3>2. flash'[headSector][headSlot] = cell
      BY <2>1, <3>1 DEF TypeOK
    <3> QED BY <2>1, <3>2, CellAssumption DEF HeadRecord
  <2> QED BY <1>2, <2>1, <2>3, <2>4, <2>5 DEF PowerCut, RecInv, Recoverable, Steps
<1>3. CASE ~PowerCut /\ ~UNCHANGED vars
  BY <1>3 DEF Next, AppendStart, Reclaim, EraseAhead, Write, AppendFails, ClearStart,
     ClearSector, ClearFails, BootEmpty, BootCorrupt, BootRecover, BootFails, RecInv, Recoverable,
     Steps
<1> QED BY <1>1, <1>2, <1>3

\* Slots that a recovery makes live were live before, but for the one at the head.
LEMMA BringsIf ==
  ASSUME HeadRecord, pc = "off", UNCHANGED <<flash, next>>,
         \A s \in Sector, i \in Slot : IsLive(s, i)' /\ flash[s][i] \in Nat =>
           IsLive(s, i) \/ (s = headSector /\ i = headSlot)
  PROVE Brings
<1> SUFFICES ASSUME NEW r \in Live' PROVE r \in Live \cup {next - 1}
  BY DEF Brings
<1>1. PICK s \in Sector, i \in Slot : IsLive(s, i)' /\ flash[s][i] = r
  BY DEF Live
<1>2. r \in 0 .. next - 1 /\ r \in Nat
  BY DEF Live
<1>3. CASE IsLive(s, i)
  BY <1>1, <1>2, <1>3 DEF Live
<1>4. CASE s = headSector /\ i = headSlot
  BY <1>1, <1>2, <1>4 DEF HeadRecord
<1> QED BY <1>1, <1>2, <1>3, <1>4

LEMMA BootBrings == RecInv /\ HeadRecord /\ (BootEmpty \/ BootRecover) => Brings
<1> SUFFICES ASSUME RecInv, HeadRecord, BootEmpty \/ BootRecover PROVE Brings
  OBVIOUS
<1> DEFINE a == Succ(headSector)
<1>0. TypeOK /\ pc = "off"
  BY DEF RecInv, BootEmpty, BootRecover
<1>1. UNCHANGED <<flash, next>>
  BY EmptyStays, BootFinds
<1>2. CASE UNCHANGED <<headSector, headSlot, tailSector>>
  <2>1. \A s \in Sector, i \in Slot : IsLive(s, i)' => IsLive(s, i)
    BY <1>2 DEF IsLive
  <2> QED BY <1>0, <1>1, <2>1, BringsIf
<1>3. CASE /\ Taken /\ tailSector # Succ(headSector) /\ ~AtStart /\ Layout
           /\ \A i \in Slot : i > headSlot => flash[headSector][i] = Blank
  <2>1. ASSUME NEW s \in Sector, NEW i \in Slot, IsLive(s, i)', flash[s][i] \in Nat
        PROVE (s = headSector /\ i = headSlot) \/ IsLive(s, i)
    BY <1>0, <1>1, <1>3, <2>1, TakenKept DEF Kept
  <2> QED BY <1>0, <1>1, <2>1, BringsIf
<1>4. CASE /\ headSlot = 0 /\ UNCHANGED <<headSector, headSlot>>
           /\ tailSector = a /\ tailSector' = Succ(tailSector)
  <2>1. /\ \A s \in Sector : s # a => (Inner(s)' <=> Inner(s))
        /\ Outer(a)' /\ tailSector' \in Sector
    BY <1>0, <1>4, TailMoves
  <2>2. ~Inner(a)' /\ a # headSector
    <3>1. Dist(tailSector', a) \in Int /\ Dist(tailSector', headSector) \in Int
      BY <1>0, <1>4, <2>1, SectorAhead, Distances, SectorsAssumption DEF TypeOK
    <3> QED BY <1>0, <1>4, <2>1, <3>1, SectorAhead DEF Inner, Outer
  <2>3. \A s \in Sector, i \in Slot : IsLive(s, i)' => IsLive(s, i)
    BY <1>4, <2>1, <2>2 DEF IsLive, Inner
  <2> QED BY <1>0, <1>1, <2>3, BringsIf
<1> QED BY <1>2, <1>3, <1>4, EmptyStays, BootFinds

\* A restart brings no cleared or rolled record back: new to the reader is at most the record
\* whose append the power cut interrupted (log_store.c, log_store_init).
THEOREM RecoveryBringsNothingBack == ASSUME HealthyFaults PROVE Spec => RecoveryFaithful
<1>1. RecInv /\ HeadRecord /\ [Next]_vars => (RecInv /\ HeadRecord)'
  BY RecStep, HeadRecordStep
<1>2. RecInv /\ HeadRecord /\ [Next]_vars =>
        [pc = "off" /\ pc' = "idle" => Live' \subseteq Live \cup {next - 1}]_vars
  <2> SUFFICES ASSUME RecInv, HeadRecord, [Next]_vars, pc = "off", pc' = "idle" PROVE Brings
    BY DEF Brings
  <2>1. BootEmpty \/ BootRecover
    BY DEF Next, vars, AppendStart, Reclaim, EraseAhead, Write, AppendFails, ClearStart,
           ClearSector, ClearFails, PowerCut, BootCorrupt, BootFails, HealthyFaults
  <2> QED BY <2>1, BootBrings
<1>3. Init => RecInv /\ HeadRecord
  <2>1. ASSUME Init PROVE flash[headSector][headSlot] \notin Nat
    BY <2>1, SectorsAssumption, SlotsAssumption, CellAssumption DEF Init, Sector, Slot
  <2> QED BY <2>1, RecInit DEF HeadRecord
<1> QED BY <1>1, <1>2, <1>3, PTL DEF Spec, RecoveryFaithful

(***************************************************************************)
(* The refinement, under HealthyFaults.                                    *)
(***************************************************************************)
Stores == Nat \cup {Hole}

(***************************************************************************)
(* The slots in the order in which log_store_read walks them.              *)
(***************************************************************************)
LEMMA Digits ==
  ASSUME NEW n \in Nat
  PROVE /\ n \div SlotsPerSector \in Nat /\ n % SlotsPerSector \in Slot
        /\ n = (n \div SlotsPerSector) * SlotsPerSector + (n % SlotsPerSector)
  BY SlotsAssumption DEF Slot

LEMMA DigitsAre ==
  ASSUME NEW d \in Nat, NEW i \in Slot
  PROVE /\ (d * SlotsPerSector + i) \div SlotsPerSector = d
        /\ (d * SlotsPerSector + i) % SlotsPerSector = i
  BY SlotsAssumption DEF Slot

\* Some way on from the tail.
LEMMA WayOn ==
  ASSUME NEW t \in Sector, NEW d \in Nat, d < Sectors
  PROVE (t + d) % Sectors \in Sector /\ Dist(t, (t + d) % Sectors) = d
  <1>1. (t + d) % Sectors = IF t + d < Sectors THEN t + d ELSE t + d - Sectors
    BY SectorsAssumption DEF Sector
  <1> QED BY <1>1, SectorsAssumption DEF Sector, Dist

LEMMA CountIs ==
  ASSUME TypeOK
  PROVE /\ Count \in Nat /\ Dist(tailSector, headSector) \in 0 .. Sectors - 1 /\ headSlot \in Slot
        /\ Count = Dist(tailSector, headSector) * SlotsPerSector + headSlot
  <1>1. Dist(tailSector, headSector) \in 0 .. Sectors - 1 /\ headSlot \in Slot
    BY Distances DEF TypeOK
  <1> QED BY <1>1, SlotsAssumption, SectorsAssumption DEF Count, Slot

\* Where each entry is.
Positions ==
  \A n \in 1 .. Count :
    /\ SectorAt(n) \in Sector /\ SlotAt(n) \in Slot
    /\ n = Dist(tailSector, SectorAt(n)) * SlotsPerSector + SlotAt(n) + 1
    /\ IsLive(SectorAt(n), SlotAt(n))

LEMMA Position == TypeOK => Positions
  <1> SUFFICES ASSUME TypeOK, NEW n \in 1 .. Count
               PROVE /\ SectorAt(n) \in Sector /\ SlotAt(n) \in Slot
                     /\ n = Dist(tailSector, SectorAt(n)) * SlotsPerSector + SlotAt(n) + 1
                     /\ IsLive(SectorAt(n), SlotAt(n))
    BY DEF Positions
  <1> DEFINE D == Dist(tailSector, headSector)
             d == (n - 1) \div SlotsPerSector
             i == (n - 1) % SlotsPerSector
  <1>1. /\ D \in Nat /\ D < Sectors /\ headSlot \in Slot /\ n \in Nat /\ n - 1 \in Nat
        /\ n - 1 < D * SlotsPerSector + headSlot
    BY CountIs, SectorsAssumption
  <1>2. d \in Nat /\ i \in Slot /\ n - 1 = d * SlotsPerSector + i
    BY <1>1, Digits
  <1>3. d <= D
    <2>1. SUFFICES ASSUME D + 1 <= d PROVE FALSE
      BY <1>1, <1>2
    <2>2. (D + 1) * SlotsPerSector <= d * SlotsPerSector
      BY <1>1, <1>2, <2>1, Multiples
    <2>3. (D + 1) * SlotsPerSector = D * SlotsPerSector + SlotsPerSector
      BY <1>1, SlotsAssumption
    <2> HIDE DEF d, i, D
    <2> QED BY <1>1, <1>2, <2>2, <2>3, SlotsAssumption, Multiples DEF Slot
  <1>4. SectorAt(n) \in Sector /\ Dist(tailSector, SectorAt(n)) = d
    <2>1. SectorAt(n) = (tailSector + d) % Sectors
      BY DEF SectorAt
    <2>2. d < Sectors /\ tailSector \in Sector
      <3> HIDE DEF d, D
      <3> QED BY <1>1, <1>2, <1>3, SectorsAssumption DEF TypeOK
    <2> HIDE DEF d
    <2> QED BY <1>2, <2>1, <2>2, WayOn
  <1>5. d = D => i < headSlot /\ SectorAt(n) = headSector
    <2>1. d = D => SectorAt(n) = headSector
      BY <1>4, Distances DEF TypeOK
    <2> HIDE DEF d, i, D
    <2> QED BY <1>1, <1>2, <2>1, SlotsAssumption, Multiples DEF Slot
  <1>6. SlotAt(n) = i
    BY DEF SlotAt
  <1>7. n = d * SlotsPerSector + i + 1
    <2> HIDE DEF d, i
    <2> QED BY <1>1, <1>2, SlotsAssumption, Multiples DEF Slot
  <1> HIDE DEF d, i, D
  <1> QED BY <1>1, <1>2, <1>3, <1>4, <1>5, <1>6, <1>7 DEF IsLive, D

LEMMA PositionNext == TypeOK' => Positions'
  BY Position, PTL

\* Which entry a slot is.
LEMMA PositionIs ==
  ASSUME TypeOK, NEW s \in Sector, NEW i \in Slot, NEW n \in Nat \ {0},
         n = Dist(tailSector, s) * SlotsPerSector + i + 1
  PROVE SectorAt(n) = s /\ SlotAt(n) = i
  <1> DEFINE d == Dist(tailSector, s)
  <1>1. d \in Nat /\ d < Sectors /\ tailSector \in Sector
    BY Distances, SectorsAssumption DEF TypeOK
  <1>2. n - 1 = d * SlotsPerSector + i
    <2>1. d * SlotsPerSector \in Nat
      BY <1>1, Multiples
    <2> QED BY <2>1 DEF Slot
  <1>3. (n - 1) \div SlotsPerSector = d /\ (n - 1) % SlotsPerSector = i
    BY <1>1, <1>2, DigitsAre
  <1>4. (tailSector + d) % Sectors \in Sector /\ Dist(tailSector, (tailSector + d) % Sectors) = d
    BY <1>1, WayOn
  <1>5. (tailSector + d) % Sectors = s
    BY <1>1, <1>4, Distances
  <1> QED BY <1>3, <1>5 DEF SectorAt, SlotAt

LEMMA StoredIs ==
  ASSUME NEW cell \in Nat \cup {Blank, Damaged}
  PROVE /\ Stored(cell) \in Stores
        /\ cell \in Nat => Stored(cell) = cell
        /\ cell \notin Nat => Stored(cell) = Hole
  BY CellAssumption DEF Stored, Stores

\* The contents, as a sequence of entries.
Entries ==
  /\ Contents \in Seq(Stores) /\ Len(Contents) = Count /\ Count \in Nat
  /\ \A n \in 1 .. Count : Contents[n] = Entry(n)

LEMMA ContentsAre == TypeOK /\ pc # "clear" => Entries
  <1> SUFFICES ASSUME TypeOK, pc # "clear" PROVE Entries
    OBVIOUS
  <1>1. Contents = [n \in 1 .. Count |-> Entry(n)] /\ Count \in Nat
    BY CountIs DEF Contents
  <1>2. \A n \in 1 .. Count : Entry(n) \in Stores
    BY Position, StoredIs DEF Positions, Entry, TypeOK
  <1> QED BY <1>1, <1>2 DEF Entries

LEMMA ContentsNext == (TypeOK /\ pc # "clear" => Entries)'
  BY ContentsAre, PTL

(***************************************************************************)
(* What the steps do to the contents.                                      *)
(***************************************************************************)
LEMMA SameSequence ==
  ASSUME NEW u \in Seq(Stores), NEW v \in Seq(Stores), Len(u) = Len(v),
         \A n \in 1 .. Len(u) : u[n] = v[n]
  PROVE u = v
  BY SeqEqual

LEMMA Appended ==
  ASSUME NEW s \in Seq(Stores), NEW e \in Stores
  PROVE  /\ Append(s, e) \in Seq(Stores) /\ Len(Append(s, e)) = Len(s) + 1
         /\ \A n \in 1 .. Len(s) : Append(s, e)[n] = s[n]
         /\ Append(s, e)[Len(s) + 1] = e
  OBVIOUS

\* The ring stays, and the live slots say the same.
LEMMA ContentsStay ==
  ASSUME TypeOK, TypeOK', pc # "clear", pc' # "clear",
         UNCHANGED <<headSector, headSlot, tailSector>>,
         \A s \in Sector, i \in Slot : IsLive(s, i) => flash'[s][i] = flash[s][i]
  PROVE Contents' = Contents
  <1>1. Count' = Count /\ \A n : SectorAt(n)' = SectorAt(n) /\ SlotAt(n)' = SlotAt(n)
    BY DEF Count, SectorAt, SlotAt
  <1>2. ASSUME NEW n \in 1 .. Count PROVE Entry(n)' = Entry(n)
    BY <1>1, Position DEF Positions, Entry
  <1> QED BY <1>1, <1>2 DEF Contents

\* The slot at the head becomes the last entry.
LEMMA ContentsGrow ==
  ASSUME TypeOK, TypeOK', pc # "clear", Taken, tailSector # Succ(headSector)
  PROVE /\ Contents' = Append(Contents, Stored(flash'[headSector][headSlot]))
        /\ Len(Contents) < Capacity
  <1> DEFINE D == Dist(tailSector, headSector)
  <1>0. /\ headSlot \in Slot /\ headSector \in Sector /\ tailSector \in Sector
        /\ Count \in Nat /\ D \in 0 .. Sectors - 1 /\ Count = D * SlotsPerSector + headSlot
    BY CountIs DEF TypeOK
  <1>1. D \in Nat /\ D < Sectors - 1
    BY <1>0, Distances, SectorsAssumption
  <1> HIDE DEF D
  <1>2. Count < Capacity
    <2>1. (D + 1) * SlotsPerSector <= (Sectors - 1) * SlotsPerSector
      BY <1>1, SectorsAssumption, Multiples
    <2>2. (D + 1) * SlotsPerSector = D * SlotsPerSector + SlotsPerSector
      BY <1>1, SlotsAssumption
    <2> QED BY <1>0, <1>1, <2>1, <2>2, SlotsAssumption, SectorsAssumption, Multiples
            DEF Capacity, Slot
  <1>3. Count' = Count + 1
    <2>1. CASE headSlot # SlotsPerSector - 1
      <3>1. Count' = D * SlotsPerSector + (headSlot + 1)
        BY <2>1 DEF Taken, Count, D
      <3> QED BY <1>0, <1>1, <3>1, SlotsAssumption, Multiples DEF Slot
    <2>2. CASE headSlot = SlotsPerSector - 1
      <3>1. Dist(tailSector, headSector)' = D + 1 /\ headSlot' = 0
        BY <2>2, SectorAhead DEF Taken, D
      <3>2. (D + 1) * SlotsPerSector = D * SlotsPerSector + SlotsPerSector
        BY <1>1, SlotsAssumption
      <3>3. Count' = (D + 1) * SlotsPerSector + 0
        BY <3>1 DEF Count
      <3> QED BY <1>0, <1>1, <2>2, <3>2, <3>3, SlotsAssumption, Multiples
    <2> QED BY <2>1, <2>2
  <1>4. \A n : SectorAt(n)' = SectorAt(n) /\ SlotAt(n)' = SlotAt(n)
    BY DEF Taken, SectorAt, SlotAt
  <1>5. \A n \in 1 .. Count : Entry(n)' = Entry(n)
    BY <1>4, Position, TakenLive DEF Positions, Entry
  <1>6. PICK last \in Nat \ {0} : last = Count + 1
    BY <1>0
  <1>7. SectorAt(last) = headSector /\ SlotAt(last) = headSlot
    BY <1>0, <1>6, PositionIs DEF D
  <1>8. Entry(last)' = Stored(flash'[headSector][headSlot])
    BY <1>4, <1>7 DEF Entry
  <1>9. flash'[headSector][headSlot] \in Nat \cup {Blank, Damaged}
    BY <1>0 DEF TypeOK
  <1>10. Entries /\ Entries'
    BY ContentsAre, ContentsNext DEF Taken
  <1>11. Contents' = Append(Contents, Stored(flash'[headSector][headSlot]))
    <2> DEFINE u == Append(Contents, Stored(flash'[headSector][headSlot]))
    <2>1. /\ u \in Seq(Stores) /\ Len(u) = Count + 1
          /\ \A n \in 1 .. Count : u[n] = Contents[n]
          /\ u[Count + 1] = Stored(flash'[headSector][headSlot])
      <3>1. Stored(flash'[headSector][headSlot]) \in Stores
        BY <1>9, StoredIs
      <3> QED BY <1>10, <3>1, Appended DEF Entries
    <2>2. \A n \in 1 .. Count + 1 : n \in 1 .. Count \/ n = last
      BY <1>0, <1>6
    <2>3. \A n \in 1 .. Count + 1 : Contents'[n] = u[n]
      <3> HIDE DEF u
      <3> QED BY <1>3, <1>5, <1>6, <1>8, <1>10, <2>1, <2>2 DEF Entries
    <2> HIDE DEF u
    <2>4. Contents' = u
      BY <1>3, <1>10, <2>1, <2>3, SameSequence DEF Entries
    <2> QED BY <2>4 DEF u
  <1> QED BY <1>2, <1>10, <1>11 DEF Entries

\* The oldest sector goes.
LEMMA ContentsRoll ==
  ASSUME TypeOK, TypeOK', pc # "clear", pc' # "clear",
         headSlot = 0, tailSector = Succ(headSector), tailSector' = Succ(tailSector),
         UNCHANGED <<headSector, headSlot>>,
         \A s \in Sector : s # tailSector => flash'[s] = flash[s]
  PROVE /\ Contents' = SubSeq(Contents, SlotsPerSector + 1, Len(Contents))
        /\ Len(Contents) = Capacity
  <1>1. /\ headSector \in Sector /\ tailSector \in Sector /\ SlotsPerSector \in Nat
        /\ Count = Capacity /\ Count \in Nat
    BY CountIs, FullRing, SlotsAssumption DEF TypeOK
  <1>2. /\ \A s \in Sector : s # tailSector =>
             Dist(tailSector', s) = Dist(tailSector, s) - 1
        /\ Dist(tailSector', tailSector) = Sectors - 1
    BY <1>1, NextDistance
  <1>3. Dist(tailSector, headSector) = Sectors - 1 /\ Dist(tailSector', headSector) = Sectors - 2
    <2>1. Dist(tailSector, headSector) = Sectors - 1
      BY <1>1, Distances
    <2>2. headSector # tailSector
      BY SectorAhead
    <2> QED BY <1>1, <1>2, <2>1, <2>2, SectorsAssumption
  <1>4. /\ Count' \in Nat /\ Count' = Count - SlotsPerSector
        /\ Count = SlotsPerSector + Count'
    <2>1. Count' = (Sectors - 2) * SlotsPerSector
      <3>1. Count' = Dist(tailSector', headSector) * SlotsPerSector + 0
        BY DEF Count
      <3>2. (Sectors - 2) * SlotsPerSector \in Nat
        BY SectorsAssumption, Multiples
      <3> QED BY <1>3, <3>1, <3>2
    <2>2. (Sectors - 1) * SlotsPerSector = (Sectors - 2) * SlotsPerSector + SlotsPerSector
      BY SectorsAssumption, SlotsAssumption
    <2>3. (Sectors - 2) * SlotsPerSector \in Nat
      BY SectorsAssumption, Multiples
    <2> QED BY <1>1, <2>1, <2>2, <2>3 DEF Capacity
  <1>5. ASSUME NEW n \in 1 .. Count'
        PROVE Entry(n)' = Entry(n + SlotsPerSector) /\ n + SlotsPerSector \in 1 .. Count
    <2>1. PICK s \in Sector, i \in Slot :
            /\ Entry(n)' = Stored(flash'[s][i]) /\ IsLive(s, i)'
            /\ n = Dist(tailSector', s) * SlotsPerSector + i + 1
      BY PositionNext DEF Positions, Entry
    <2>2. s # tailSector
      <3>1. SUFFICES ASSUME s = tailSector PROVE FALSE
        OBVIOUS
      <3>2. Dist(tailSector', s) = Sectors - 1 /\ headSector' # s
        BY <1>2, <3>1, SectorAhead
      <3> QED BY <1>3, <2>1, <3>2, SectorsAssumption DEF IsLive
    <2>3. Dist(tailSector, s) = Dist(tailSector', s) + 1 /\ Dist(tailSector', s) \in Nat
      <3>1. Dist(tailSector, s) \in Nat /\ Dist(tailSector, s) # 0
        BY <1>1, <2>1, <2>2, Distances, SectorsAssumption
      <3> QED BY <1>2, <2>1, <2>2, <3>1
    <2>4. n + SlotsPerSector \in 1 .. Count
      BY <1>1, <1>4
    <2>5. n + SlotsPerSector = Dist(tailSector, s) * SlotsPerSector + i + 1
      <3>1. (Dist(tailSector', s) + 1) * SlotsPerSector
              = Dist(tailSector', s) * SlotsPerSector + SlotsPerSector
        BY <1>1, <2>3
      <3> QED BY <1>1, <2>1, <2>3, <3>1, Multiples DEF Slot
    <2>6. SectorAt(n + SlotsPerSector) = s /\ SlotAt(n + SlotsPerSector) = i
      BY <1>1, <2>1, <2>4, <2>5, PositionIs
    <2>7. flash'[s] = flash[s]
      BY <2>1, <2>2
    <2> QED BY <2>1, <2>4, <2>6, <2>7 DEF Entry
  <1>6. Entries /\ Entries'
    BY ContentsAre, ContentsNext
  <1>7. Contents' = SubSeq(Contents, SlotsPerSector + 1, Count)
    <2> DEFINE u == SubSeq(Contents, SlotsPerSector + 1, Count)
    <2>1. /\ u \in Seq(Stores) /\ Len(u) = Count'
          /\ \A n \in 1 .. Count' : u[n] = Contents[n + SlotsPerSector]
      <3>1. \A n \in SlotsPerSector + 1 .. Count : Contents[n] \in Stores
        BY <1>1, <1>6 DEF Entries
      <3>2. SlotsPerSector + 1 \in Int /\ Count \in Int
        BY <1>1
      <3>3. /\ u \in Seq(Stores)
            /\ Len(u) = IF SlotsPerSector + 1 <= Count THEN Count - (SlotsPerSector + 1) + 1
                        ELSE 0
            /\ \A n \in 1 .. Count - (SlotsPerSector + 1) + 1 :
                  u[n] = Contents[SlotsPerSector + 1 + n - 1]
        BY <3>1, <3>2, SubSeqProperties
      <3>4. /\ Count - (SlotsPerSector + 1) + 1 = Count'
            /\ \A n \in 1 .. Count' : SlotsPerSector + 1 + n - 1 = n + SlotsPerSector
            /\ SlotsPerSector + 1 <= Count \/ Count' = 0
        BY <1>1, <1>4
      <3> HIDE DEF u
      <3> QED BY <3>3, <3>4
    <2>2. \A n \in 1 .. Count' : Contents'[n] = u[n]
      <3> HIDE DEF u
      <3> QED BY <1>5, <1>6, <2>1 DEF Entries
    <2> HIDE DEF u
    <2>3. Contents' = u
      BY <1>6, <2>1, <2>2, SameSequence DEF Entries
    <2> QED BY <2>3 DEF u
  <1> QED BY <1>1, <1>6, <1>7 DEF Entries

\* The erase of the oldest sector is cut off: some of its entries are holes.
LEMMA ContentsTear ==
  ASSUME TypeOK, TypeOK', pc = "erase_ahead", pc' # "clear", EraseBegun,
         headSlot = 0, tailSector = Succ(headSector),
         UNCHANGED <<headSector, headSlot, tailSector>>
  PROVE /\ Len(Contents) = Capacity
        /\ \E lost \in SUBSET (1 .. SlotsPerSector) :
             Contents' = [n \in 1 .. Len(Contents) |-> IF n \in lost THEN Hole ELSE Contents[n]]
  <1> DEFINE lost == {n \in 1 .. SlotsPerSector : flash'[tailSector][n - 1] \notin Nat}
  <1>1. /\ tailSector \in Sector /\ SlotsPerSector \in Nat
        /\ Count = Capacity /\ Count \in Nat /\ Count' = Count
    BY CountIs, FullRing, SlotsAssumption DEF TypeOK, Count
  <1>2. Target = tailSector
    BY DEF Target
  <1>3. /\ \A s \in Sector : s # tailSector => flash'[s] = flash[s]
        /\ \A i \in Slot : flash'[tailSector][i] \in Nat =>
                              flash'[tailSector][i] = flash[tailSector][i]
    BY <1>1, <1>2, TornEraseFacts
  <1>4. Entries /\ Entries'
    BY ContentsAre, ContentsNext
  <1>5. \A n : SectorAt(n)' = SectorAt(n) /\ SlotAt(n)' = SlotAt(n)
    BY DEF SectorAt, SlotAt
  <1>6. ASSUME NEW n \in 1 .. Count
        PROVE Contents'[n] = IF n \in lost THEN Hole ELSE Contents[n]
    <2>1. Contents[n] = Entry(n) /\ Contents'[n] = Entry(n)' /\ n \in Nat \ {0}
      BY <1>1, <1>4 DEF Entries
    <2>2. CASE n \in 1 .. SlotsPerSector
      <3>1. n - 1 \in Slot /\ n = Dist(tailSector, tailSector) * SlotsPerSector + (n - 1) + 1
        BY <1>1, <2>2, Distances DEF Slot
      <3>2. SectorAt(n) = tailSector /\ SlotAt(n) = n - 1
        BY <1>1, <2>1, <3>1, PositionIs
      <3>3. /\ Entry(n) = Stored(flash[tailSector][n - 1])
            /\ Entry(n)' = Stored(flash'[tailSector][n - 1])
        BY <1>5, <3>2 DEF Entry
      <3>4. flash'[tailSector][n - 1] \in Nat \cup {Blank, Damaged}
        BY <1>1, <3>1 DEF TypeOK
      <3> QED BY <1>3, <2>1, <2>2, <3>1, <3>3, <3>4, StoredIs
    <2>3. CASE n \notin 1 .. SlotsPerSector
      <3>1. /\ SectorAt(n) \in Sector /\ SlotAt(n) \in Slot
            /\ n = Dist(tailSector, SectorAt(n)) * SlotsPerSector + SlotAt(n) + 1
        BY Position DEF Positions
      <3>2. SectorAt(n) # tailSector
        <4>1. SUFFICES ASSUME SectorAt(n) = tailSector PROVE FALSE
          OBVIOUS
        <4>2. n = SlotAt(n) + 1
          BY <1>1, <3>1, <4>1, Distances DEF Slot
        <4> QED BY <2>1, <2>3, <3>1, <4>2, SlotsAssumption DEF Slot
      <3>3. Entry(n)' = Entry(n)
        BY <1>3, <1>5, <3>1, <3>2 DEF Entry
      <3> QED BY <2>1, <2>3, <3>3
    <2> QED BY <2>2, <2>3
  <1>7. Len(Contents) = Count /\ Contents' \in Seq(Stores) /\ Len(Contents') = Count
    BY <1>1, <1>4 DEF Entries
  <1>8. Contents' = [n \in 1 .. Count |-> Contents'[n]]
    BY <1>7
  <1>9. Contents' = [n \in 1 .. Len(Contents) |-> IF n \in lost THEN Hole ELSE Contents[n]]
    BY <1>6, <1>7, <1>8
  <1> QED BY <1>1, <1>7, <1>9

(***************************************************************************)
(* Each step of the log store is one of RingLog's, or none.                *)
(***************************************************************************)
Simulates == [Abstract!Next]_<<Contents, next, Pending>>


LEMMA StaysOrGivesUp ==
  ASSUME Contents' = Contents, next' = next, Pending' => Pending
  PROVE Simulates
  BY DEF Simulates, Abstract!Next, Abstract!GiveUp, Pending

LEMMA MayGiveUp ==
  ASSUME Pending' => Pending
  PROVE Pending' \in {Pending, FALSE}
  BY DEF Pending

LEMMA IsRoll ==
  ASSUME Contents' = SubSeq(Contents, SlotsPerSector + 1, Len(Contents)),
         Len(Contents) = Capacity, next' = next, Pending' => Pending
  PROVE Simulates
  BY MayGiveUp DEF Simulates, Abstract!Next, Abstract!Roll, Abstract!MayGiveUp

LEMMA IsTear ==
  ASSUME \E lost \in SUBSET (1 .. SlotsPerSector) :
           Contents' = [n \in 1 .. Len(Contents) |-> IF n \in lost THEN Hole ELSE Contents[n]],
         Len(Contents) = Capacity, next' = next, Pending' => Pending
  PROVE Simulates
  BY MayGiveUp DEF Simulates, Abstract!Next, Abstract!Tear, Abstract!MayGiveUp

LEMMA IsClear ==
  ASSUME Contents' = <<>>, next' = next, Pending' => Pending
  PROVE Simulates
  BY MayGiveUp DEF Simulates, Abstract!Next, Abstract!Clear, Abstract!MayGiveUp

\* The slot at the head is taken by the record that is pending, or is spoilt.
LEMMA IsTaken ==
  ASSUME TypeOK, TypeOK', pc # "clear", Taken, tailSector # Succ(headSector),
         \/ flash'[headSector][headSlot] = next - 1 /\ next - 1 \in Nat /\ Pending
         \/ flash'[headSector][headSlot] \notin Nat /\ ~Pending
  PROVE Simulates
  <1>1. /\ Contents' = Append(Contents, Stored(flash'[headSector][headSlot]))
        /\ Len(Contents) < Capacity /\ ~Pending' /\ next' = next
    BY ContentsGrow DEF Taken, Pending
  <1>2. flash'[headSector][headSlot] \in Nat \cup {Blank, Damaged}
    BY DEF TypeOK
  <1>3. CASE flash'[headSector][headSlot] = next - 1 /\ next - 1 \in Nat /\ Pending
    <2>1. Contents' = Append(Contents, next - 1)
      BY <1>1, <1>2, <1>3, StoredIs
    <2>2. Pending /\ Pending' = FALSE
      BY <1>1, <1>3 DEF Pending
    <2> QED BY <1>1, <2>1, <2>2 DEF Simulates, Abstract!Next, Abstract!Commit
  <1>4. CASE flash'[headSector][headSlot] \notin Nat /\ ~Pending
    <2>1. Contents' = Append(Contents, Hole)
      BY <1>1, <1>2, <1>4, StoredIs
    <2> QED BY <1>1, <2>1, MayGiveUp
            DEF Simulates, Abstract!Next, Abstract!Waste, Abstract!MayGiveUp
  <1> QED BY <1>3, <1>4

\* What is true before a step and what its types are after it.
StepFrom == HealthyFaults /\ RecInv /\ HeadRecord /\ TypeOK'

\* While the power is on the slot at the head is blank.
LEMMA HeadIsBlank ==
  ASSUME RecInv, pc \notin {"off", "clear"}
  PROVE flash[headSector][headSlot] = Blank /\ headSector \in Sector /\ headSlot \in Slot
  BY RunningLayout DEF Layout, HeadSplits, RecInv, TypeOK

LEMMA AppendStarts == StepFrom /\ AppendStart => Simulates
  <1> SUFFICES ASSUME StepFrom, AppendStart PROVE Simulates
    OBVIOUS
  <1>1. Contents' = Contents
    BY ContentsStay DEF StepFrom, RecInv, AppendStart, ring
  <1>2. Pending' = TRUE /\ next' = next + 1
    BY DEF AppendStart, Pending
  <1> QED BY <1>1, <1>2 DEF Simulates, Abstract!Next, Abstract!Offer

LEMMA EraseAheadRolls == StepFrom /\ EraseAhead => Simulates
  <1> SUFFICES ASSUME StepFrom, EraseAhead PROVE Simulates
    OBVIOUS
  <1>1. /\ TypeOK /\ TypeOK' /\ headSlot = 0 /\ pc = "erase_ahead" /\ pc' = "write"
        /\ UNCHANGED <<headSector, headSlot, next>> /\ (Pending' => Pending)
    BY DEF StepFrom, RecInv, Recoverable, Steps, EraseAhead, EraseSector, Pending
  <1>2. \A s \in Sector : s # Succ(headSector) => flash'[s] = flash[s]
    BY <1>1 DEF EraseAhead, EraseSector, TypeOK
  <1>3. CASE tailSector = Succ(headSector)
    <2>1. Count = Capacity /\ Capacity > 0
      <3>1. 1 * SlotsPerSector <= (Sectors - 1) * SlotsPerSector
        BY SectorsAssumption, Multiples
      <3> QED BY <1>1, <1>3, <3>1, FullRing, SlotsAssumption, SectorsAssumption, Multiples
              DEF Capacity
    <2>2. tailSector' = Succ(tailSector)
      BY <1>3, <2>1 DEF EraseAhead, EraseSector
    <2> QED BY <1>1, <1>2, <1>3, <2>2, ContentsRoll, IsRoll
  <1>4. CASE tailSector # Succ(headSector)
    <2>1. \A s \in Sector, i \in Slot : IsLive(s, i) => s # Succ(headSector)
      BY <1>1, <1>4, AheadIsTail
    <2>2. tailSector' = tailSector
      BY <1>4 DEF EraseAhead, EraseSector
    <2> QED BY <1>1, <1>2, <2>1, <2>2, ContentsStay, StaysOrGivesUp
  <1> QED BY <1>3, <1>4

LEMMA WriteCommits == StepFrom /\ Write => Simulates
  <1> SUFFICES ASSUME StepFrom, Write PROVE Simulates
    OBVIOUS
  <1>1. pc = "write" /\ Pending
    BY DEF Write, Pending
  <1> QED BY <1>1, WriteTakes, IsTaken DEF StepFrom, RecInv

\* A call that ends early leaves the ring as it is, and perhaps a torn erase.
LEMMA EndsEarly ==
  ASSUME StepFrom, pc \notin {"off", "clear"}, pc' # "clear", Pending' => Pending,
         UNCHANGED <<headSector, headSlot, tailSector, next>>,
         \/ UNCHANGED flash
         \/ pc = "erase_ahead" /\ EraseBegun
         \/ pc = "write" /\ WriteBegun
  PROVE Simulates
  <1>1. TypeOK /\ TypeOK' /\ (pc = "erase_ahead" => headSlot = 0)
    BY DEF StepFrom, RecInv, Recoverable, Steps
  <1>2. CASE UNCHANGED flash
    BY <1>1, <1>2, ContentsStay, StaysOrGivesUp
  <1>3. CASE pc = "write" /\ WriteBegun
    <2>1. \A s \in Sector, i \in Slot :
            ~(s = headSector /\ i = headSlot) => flash'[s][i] = flash[s][i]
      BY <1>1, <1>3 DEF WriteBegun, TypeOK
    <2>2. \A s \in Sector, i \in Slot : IsLive(s, i) => ~(s = headSector /\ i = headSlot)
      BY <1>1, Regions, SlotsAssumption DEF IsLive, Inner, Slot
    <2> QED BY <1>1, <2>1, <2>2, ContentsStay, StaysOrGivesUp
  <1>4. CASE pc = "erase_ahead" /\ EraseBegun /\ tailSector = Succ(headSector)
    BY <1>1, <1>4, ContentsTear, IsTear
  <1>5. CASE pc = "erase_ahead" /\ EraseBegun /\ tailSector # Succ(headSector)
    <2>1. Target = Succ(headSector) /\ Target \in Sector
      BY <1>1, <1>5, SectorAhead DEF Target
    <2>2. \A s \in Sector : s # Succ(headSector) => flash'[s] = flash[s]
      BY <1>1, <1>5, <2>1, TornEraseFacts
    <2>3. \A s \in Sector, i \in Slot : IsLive(s, i) => s # Succ(headSector)
      BY <1>1, <1>5, AheadIsTail
    <2> QED BY <1>1, <2>2, <2>3, ContentsStay, StaysOrGivesUp
  <1> QED BY <1>2, <1>3, <1>4, <1>5

LEMMA FailsEarly == StepFrom /\ AppendFails => Simulates
  <1> SUFFICES ASSUME StepFrom, AppendFails PROVE Simulates
    OBVIOUS
  <1>1. /\ pc \notin {"off", "clear"} /\ pc' = "idle" /\ ~Pending'
        /\ UNCHANGED <<headSector, headSlot, tailSector, next>>
        /\ UNCHANGED flash \/ (pc = "erase_ahead" /\ EraseBegun)
    BY DEF StepFrom, AppendFails, ring, HealthyFaults, RecInv, Recoverable, Steps, Pending
  <1> QED BY <1>1, EndsEarly

LEMMA IsCutOff == StepFrom /\ PowerCut => Simulates
  <1> SUFFICES ASSUME StepFrom, PowerCut PROVE Simulates
    OBVIOUS
  <1>1. /\ pc \notin {"off", "clear"} /\ pc' = "off"
        /\ UNCHANGED <<headSector, headSlot, tailSector, next>>
        /\ \/ UNCHANGED flash
           \/ pc = "erase_ahead" /\ EraseBegun
           \/ pc = "write" /\ WriteBegun
    BY DEF StepFrom, PowerCut, ring, HealthyFaults, RecInv, Recoverable, Steps
  <1>2. Pending' => Pending
    <2>1. SUFFICES ASSUME flash'[headSector][headSlot] \in Nat PROVE Pending
      BY <1>1 DEF Pending
    <2>2. flash[headSector][headSlot] = Blank
      BY <1>1, HeadIsBlank DEF StepFrom
    <2>3. ~UNCHANGED flash
      BY <2>1, <2>2, CellAssumption
    <2> QED BY <1>1, <2>3 DEF Pending
  <1> QED BY <1>1, <1>2, EndsEarly

LEMMA ClearsAll == StepFrom /\ (ClearStart \/ ClearSector \/ BootCorrupt) => Simulates
  <1> SUFFICES ASSUME StepFrom, ClearStart \/ ClearSector \/ BootCorrupt PROVE Simulates
    OBVIOUS
  <1>1. next' = next /\ ~Pending'
    BY DEF ClearStart, ClearSector, BootCorrupt, Pending
  <1>2. Contents' = <<>>
    <2>1. CASE pc' = "clear"
      BY <2>1 DEF Contents
    <2>2. CASE pc' # "clear"
      <3>1. headSector' = 0 /\ headSlot' = 0 /\ tailSector' = 0
        BY <2>2 DEF ClearStart, ClearSector, BootCorrupt
      <3>2. Count' = 0
        BY <3>1, SlotsAssumption DEF Count, Dist
      <3>3. Contents' = [n \in 1 .. 0 |-> Entry(n)']
        BY <2>2, <3>2 DEF Contents
      <3> QED BY <3>3
    <2> QED BY <2>1, <2>2
  <1> QED BY <1>1, <1>2, IsClear

LEMMA BootsEmpty == StepFrom /\ BootEmpty => Simulates
  <1> SUFFICES ASSUME StepFrom, BootEmpty PROVE Simulates
    OBVIOUS
  <1>1. /\ UNCHANGED <<flash, next, headSector, headSlot, tailSector>>
        /\ pc = "off" /\ pc' = "idle" /\ TypeOK /\ TypeOK'
    BY EmptyStays DEF StepFrom, RecInv, BootEmpty
  <1>2. Contents' = Contents /\ ~Pending'
    BY <1>1, ContentsStay DEF Pending
  <1> QED BY <1>1, <1>2, StaysOrGivesUp

LEMMA Recovers == StepFrom /\ BootRecover => Simulates
  <1> SUFFICES ASSUME StepFrom, BootRecover PROVE Simulates
    OBVIOUS
  <1>1. /\ pc = "off" /\ pc' = "idle" /\ TypeOK /\ TypeOK' /\ ~Pending'
        /\ UNCHANGED <<flash, next>>
    BY BootFinds DEF StepFrom, RecInv, BootRecover, Pending
  <1>2. CASE UNCHANGED <<headSector, headSlot, tailSector>>
    BY <1>1, <1>2, ContentsStay, StaysOrGivesUp
  <1>3. CASE Taken /\ tailSector # Succ(headSector)
    <2>1. CASE flash[headSector][headSlot] \in Nat
      <3>1. flash[headSector][headSlot] = next - 1 /\ Pending
        BY <1>1, <2>1 DEF StepFrom, HeadRecord, Pending
      <3> QED BY <1>1, <1>3, <2>1, <3>1, IsTaken
    <2>2. CASE flash[headSector][headSlot] \notin Nat
      BY <1>1, <1>3, <2>2, IsTaken DEF Pending
    <2> QED BY <2>1, <2>2
  <1>4. CASE /\ headSlot = 0 /\ UNCHANGED <<headSector, headSlot>>
             /\ tailSector = Succ(headSector) /\ tailSector' = Succ(tailSector)
    BY <1>1, <1>4, ContentsRoll, IsRoll
  <1> QED BY <1>2, <1>3, <1>4, BootFinds DEF StepFrom

LEMMA SimulationStep == StepFrom /\ [Next]_vars => Simulates
  <1> SUFFICES ASSUME StepFrom, [Next]_vars PROVE Simulates
    OBVIOUS
  <1>1. CASE UNCHANGED vars
    BY <1>1 DEF vars, Simulates, Contents, Count, Entry, SectorAt, SlotAt, Pending
  <1>2. CASE Reclaim \/ ClearFails \/ BootFails
    BY <1>2 DEF Reclaim, ClearFails, BootFails, StepFrom, RecInv, Recoverable, Steps,
                HealthyFaults
  <1> QED BY <1>1, <1>2, AppendStarts, EraseAheadRolls, WriteCommits, FailsEarly, IsCutOff,
             ClearsAll, BootsEmpty, Recovers DEF Next

LEMMA SimulationInit == Init => Abstract!Init
  <1> SUFFICES ASSUME Init PROVE Abstract!Init
    OBVIOUS
  <1>1. /\ headSector = 0 /\ headSlot = 0 /\ tailSector = 0 /\ pc = "off" /\ next = 0
        /\ flash[0][0] \notin Nat
    BY SectorsAssumption, SlotsAssumption, CellAssumption DEF Init, Sector, Slot
  <1>2. Contents = [n \in 1 .. 0 |-> Entry(n)]
    BY <1>1, SlotsAssumption DEF Contents, Count, Dist
  <1>3. Contents = <<>> /\ Pending = FALSE
    BY <1>1, <1>2 DEF Pending
  <1> QED BY <1>1, <1>3 DEF Abstract!Init

\* Through appends, rolls, failing calls, power cuts and recoveries the log store is the bounded
\* queue that RingLog describes to its readers (log-store.c, log_store_read).
THEOREM RefinesRingLog == ASSUME HealthyFaults PROVE Spec => ImplementsRingLog
  <1>1. RecInv /\ HeadRecord /\ [Next]_vars => (RecInv /\ HeadRecord)'
    BY RecStep, HeadRecordStep
  <1>2. RecInv /\ HeadRecord /\ [Next]_vars => [Abstract!Next]_<<Contents, next, Pending>>
    BY RecStep, SimulationStep DEF StepFrom, RecInv, Simulates
  <1>3. Init => RecInv /\ HeadRecord
    <2>1. ASSUME Init PROVE flash[headSector][headSlot] \notin Nat
      BY <2>1, SectorsAssumption, SlotsAssumption, CellAssumption DEF Init, Sector, Slot
    <2> QED BY <2>1, RecInit DEF HeadRecord
  <1> QED BY <1>1, <1>2, <1>3, SimulationInit, PTL DEF Spec, ImplementsRingLog, Abstract!Spec
=============================================================================
