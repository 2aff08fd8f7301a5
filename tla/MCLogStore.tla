----------------------------- MODULE MCLogStore -----------------------------
(***************************************************************************)
(* LogStore for TLC, and its refinement of RingLog.                        *)
(***************************************************************************)
EXTENDS LogStoreInv, Sequences

CONSTANT Hole

\* The ring as log_store_read walks it: slot tail + n - 1, modulo the ring.
SectorAt(n) == (tailSector + (n - 1) \div SlotsPerSector) % Sectors
SlotAt(n) == (n - 1) % SlotsPerSector
Stored(cell) == IF cell \in {Blank, Damaged} THEN Hole ELSE cell
Entry(n) == Stored(flash[SectorAt(n)][SlotAt(n)])

\* Nobody reads the log while it is being cleared, so it is empty from then on.
Contents == IF pc = "clear" THEN <<>> ELSE [n \in 1 .. Count |-> Entry(n)]

\* The append under way, or one that was cut right after its slot was written:
\* the recovery will find that record.
Pending ==
  \/ pc \in {"reclaim", "erase_ahead", "write"}
  \/ pc = "off" /\ flash[headSector][headSlot] \in Nat

Abstract == INSTANCE RingLog WITH log <- Contents, next <- next, pending <- Pending

\* The log store implements the bounded queue of RingLog: through appends,
\* rolls, failing calls, power cuts and recoveries.
ImplementsRingLog == Abstract!Spec
=============================================================================
