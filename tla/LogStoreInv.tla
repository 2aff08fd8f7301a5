------------------------------ MODULE LogStoreInv ------------------------------
(***************************************************************************)
(* Why the log store's recovery is right: the inductive invariant behind   *)
(* Chronological and the durability properties, for the faults a healthy   *)
(* flash chip allows (HealthyFaults).                                      *)
(*                                                                         *)
(* The recovery sees the flash only.  It finds head and tail again because *)
(* every sector from tail to head is full, every other one is blank, and   *)
(* the one exception, the sector ahead of a head that has just entered a   *)
(* fresh sector, can be told by the blank first slot of the head's sector. *)
(***************************************************************************)
EXTENDS LogStore

\* Power cuts and failing flash calls, outside log_store_clear.
HealthyFaults == Faults \subseteq {"cut", "fail"}

IsBlank(s) == \A i \in Slot : flash[s][i] = Blank
IsFull(s) == \A i \in Slot : flash[s][i] # Blank

\* The head stands at the start of a blank sector, and the sector ahead of it
\* may not be erased yet, or only in part.
Ahead(s) == s = Succ(headSector)
AtStart == headSlot = 0 /\ pc # "write" /\ flash[headSector][0] = Blank

\* From the tail up to the head, and beyond.
Inner(s) == Dist(tailSector, s) < Dist(tailSector, headSector)
Outer(s) == Dist(tailSector, s) > Dist(tailSector, headSector)

InnerFull == \A s \in Sector : Inner(s) => (AtStart /\ Ahead(s)) \/ IsFull(s)

OuterBlank == \A s \in Sector : Outer(s) =>
                /\ Erased(s)
                /\ (AtStart /\ Ahead(s)) \/ IsBlank(s)

\* Only a power cut leaves a slot that was written and that the head is still on.
HeadSplits == \A i \in Slot :
  /\ i < headSlot => flash[headSector][i] # Blank
  /\ i > headSlot \/ (i = headSlot /\ pc # "off") => flash[headSector][i] = Blank

\* A sector is ready to be the next one before the head's sector gets a record.
NextReady == ~AtStart => tailSector # Succ(headSector)

\* An empty log begins at the start of the partition.
EmptyAtZero == tailSector = headSector /\ headSlot = 0 => headSector = 0

\* A partition that was never erased holds no record; app_main clears it.
Foreign == pc = "off" /\ \A s \in Sector, i \in Slot : flash[s][i] = Damaged

Layout == InnerFull /\ OuterBlank /\ HeadSplits /\ NextReady /\ EmptyAtZero

\* What the flash calls under way rest on; a healthy head never needs a reclaim.
Steps ==
  /\ pc # "reclaim"
  /\ pc = "erase_ahead" => headSlot = 0
  /\ pc \in {"erase_ahead", "write"} => next # 0
  /\ pc = "clear" => \A s \in Sector : s < k => IsBlank(s)
  /\ headSlot # 0 \/ pc = "write" => tailSector # Succ(headSector)

\* Every record was offered before, and a record under way is not stored yet.
Numbered == \A s \in Sector, i \in Slot :
  flash[s][i] \in Nat =>
    /\ flash[s][i] < next
    /\ pc \in {"erase_ahead", "write"} => flash[s][i] < next - 1

\* The live slots, and the one that a recovery may add to them.
Kept(s, i) == IsLive(s, i) \/ (s = headSector /\ i = headSlot)

Before(s, i, t, j) == Dist(tailSector, s) < Dist(tailSector, t) \/ (s = t /\ i < j)

Ordered == \A s, t \in Sector : \A i, j \in Slot :
  /\ Kept(s, i) /\ flash[s][i] \in Nat
  /\ Kept(t, j) /\ flash[t][j] \in Nat
  /\ Before(s, i, t, j)
  => flash[s][i] < flash[t][j]

\* The layout from which a recovery finds head and tail, and the order that it
\* keeps: in every state a power cut can leave behind (log_store_init).
Recoverable == Steps /\ Numbered /\ Ordered /\ (pc # "clear" => Layout \/ Foreign)
================================================================================
