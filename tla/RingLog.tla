-------------------------------- MODULE RingLog --------------------------------
(***************************************************************************)
(* What the log store promises its readers: a bounded queue of records,    *)
(* oldest first, that forgets a sector's worth of the oldest only when it  *)
(* is full.  An entry may be a hole: a slot that a power cut used up, or   *)
(* that an unfinished erase has already wiped.                             *)
(***************************************************************************)
EXTENDS Integers, Sequences

CONSTANTS Capacity, SlotsPerSector, Hole

VARIABLES
  log,       \* the entries, oldest first
  next,      \* the next record to be offered
  pending    \* the last one offered may still be stored

Init == log = <<>> /\ next = 0 /\ pending = FALSE

MayGiveUp == pending' \in {pending, FALSE}

\* A record is offered to the log.
Offer == next' = next + 1 /\ pending' = TRUE /\ UNCHANGED log

GiveUp == pending /\ pending' = FALSE /\ UNCHANGED <<log, next>>

\* The offered record is stored, once.
Commit ==
  /\ pending /\ Len(log) < Capacity
  /\ log' = Append(log, next - 1)
  /\ pending' = FALSE
  /\ UNCHANGED next

\* A power cut spoils the slot that was being written.
Waste ==
  /\ Len(log) < Capacity
  /\ log' = Append(log, Hole)
  /\ MayGiveUp
  /\ UNCHANGED next

\* Room is made for the next sector: the oldest one goes, all at once or, when
\* its erase is interrupted, in part.
Roll ==
  /\ Len(log) = Capacity
  /\ log' = SubSeq(log, SlotsPerSector + 1, Len(log))
  /\ MayGiveUp
  /\ UNCHANGED next

Tear ==
  /\ Len(log) = Capacity
  /\ \E lost \in SUBSET (1 .. SlotsPerSector) :
       log' = [n \in 1 .. Len(log) |-> IF n \in lost THEN Hole ELSE log[n]]
  /\ MayGiveUp
  /\ UNCHANGED next

Clear == log' = <<>> /\ MayGiveUp /\ UNCHANGED next

Next == Offer \/ GiveUp \/ Commit \/ Waste \/ Roll \/ Tear \/ Clear

Spec == Init /\ [][Next]_<<log, next, pending>>
================================================================================
