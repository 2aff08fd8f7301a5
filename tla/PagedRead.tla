------------------------------- MODULE PagedRead -------------------------------
(***************************************************************************)
(* Reading the history page by page while the device goes on recording:    *)
(* get_log (firmware/main/protocol.c) read by the tool (FetchLog in        *)
(* client.go, cmdLog in cli.go) or by the web page (loadChart in           *)
(* index.html).                                                            *)
(*                                                                         *)
(* The device lock makes each request one step; between two requests the   *)
(* log moves on by the steps of RingLog, which the log store implements.   *)
(* Pages are addressed by a record's distance from the oldest one, which   *)
(* a roll changes.  The last two variables only record history.            *)
(***************************************************************************)
EXTENDS Integers, Sequences, FiniteSets

CONSTANTS
  Capacity, SlotsPerSector, Hole,   \* of RingLog
  ReadChunk,     \* READ_CHUNK: slots get_log reads from flash at a time
  MaxLimit,      \* PROTOCOL_MAX_LIMIT
  PageLimit,     \* the page size the readers ask for
  Wanted,        \* how many of the newest records "last" and "web" want
  Readers,       \* kinds of reader: "all", "last" (the tool), "web"
  ReadFails,     \* a flash read may fail
  MaxRecords,    \* bound: records offered
  MaxRolls       \* bound: sectors reclaimed during a read

ASSUME RingSizes == SlotsPerSector \in Nat \ {0} /\ Capacity \in Nat /\ Capacity > SlotsPerSector
ASSUME PageSizes ==
  /\ ReadChunk \in Nat \ {0} /\ MaxLimit \in Nat \ {0} /\ PageLimit \in Nat \ {0}
  /\ Wanted \in Nat /\ MaxRecords \in Nat /\ MaxRolls \in Nat
ASSUME PagesAreWhole == PageLimit <= MaxLimit   \* both are 500
ASSUME ReadersAssumption == Readers \subseteq {"all", "last", "web"} /\ ReadFails \in BOOLEAN
ASSUME HoleAssumption == Hole \notin Nat

VARIABLES
  log, next, pending,   \* the history (RingLog)
  reader,        \* the kind of reader
  pc,            \* "idle", "first", "more", "done" or "failed"
  offset,        \* the next page's offset
  total,         \* the number of slots the reader believes in
  got,           \* the records received so far, in order
  kept,          \* records asked for that have been in the log ever since
  rolls,         \* sectors reclaimed since
  unread         \* slots that failing flash reads kept from it

ring == <<log, next, pending>>
vars == <<ring, reader, pc, offset, total, got, kept, rolls, unread>>

Ring == INSTANCE RingLog

Elements(s) == {s[n] : n \in 1 .. Len(s)}
Smaller(a, b) == IF a < b THEN a ELSE b
Larger(a, b) == IF a > b THEN a ELSE b

\* What log_store_read hands on: slot by slot, those that decode.
Records(s) ==
  LET upTo[n \in 0 .. Len(s)] ==
        IF n = 0 THEN <<>>
        ELSE IF s[n] = Hole THEN upTo[n - 1]
        ELSE Append(upTo[n - 1], s[n])
  IN upTo[Len(s)]

Reading == pc \in {"first", "more"}

Init ==
  /\ Ring!Init
  /\ reader \in Readers
  /\ pc = "idle" /\ offset = 0 /\ total = 0 /\ got = <<>>
  /\ kept = {} /\ rolls = 0 /\ unread = 0

(***************************************************************************)
(* The device between two requests.  Only the tool can clear the log, and  *)
(* it does not while it reads.                                             *)
(***************************************************************************)
LogMoves ==
  /\ pc \in {"idle", "first", "more"}
  /\ \/ Ring!Offer /\ next < MaxRecords
     \/ Ring!GiveUp \/ Ring!Commit \/ Ring!Waste \/ Ring!Tear
     \/ Ring!Roll /\ rolls < MaxRolls
     \/ Ring!Clear /\ (reader = "web" \/ pc = "idle")
  /\ kept' = kept \cap Elements(log')
  /\ rolls' = IF Reading /\ Ring!Roll THEN rolls + 1 ELSE rolls
  /\ UNCHANGED <<reader, pc, offset, total, got, unread>>

(***************************************************************************)
(* get_log: the slots that a page of `limit` slots from `offset` covers.   *)
(* A slot that does not decode is passed over; a flash read that fails     *)
(* ends the page before the chunk it is in, and the reply is still ok.     *)
(***************************************************************************)
\* Mutated form of Slots: the last slot of a page is left out.
OneShort(limit) == Larger(0, Smaller(limit - 1, Len(log) - offset))

Slots(limit) == Larger(0, Smaller(Smaller(limit, MaxLimit), Len(log) - offset))

Covered(limit) ==
  {Slots(limit)} \cup
    (IF ReadFails THEN {n \in 0 .. Slots(limit) : n % ReadChunk = 0} ELSE {})

\* log_store_read from slot offset + 1 on.
Page(slots) == Records(SubSeq(log, offset + 1, offset + slots))

(***************************************************************************)
(* The readers.                                                            *)
(***************************************************************************)
Newest(count) == Larger(0, count - Wanted)

Begin(first) ==
  /\ offset' = first /\ got' = <<>>
  /\ kept' = {log[n] : n \in {m \in 1 .. Len(log) : m > first}} \ {Hole}
  /\ rolls' = 0 /\ unread' = 0
  /\ UNCHANGED ring

\* FetchLog(0)
StartAll ==
  /\ reader = "all" /\ pc = "idle"
  /\ Begin(0)
  /\ pc' = "first"
  /\ UNCHANGED <<total, reader>>

\* get_status, then FetchLog from count - last.
StartLast ==
  /\ reader = "last" /\ pc = "idle"
  /\ Begin(Newest(Len(log)))
  /\ pc' = "first"
  /\ UNCHANGED <<total, reader>>

\* get_status tells the page where to start and where to stop.
StartWeb ==
  /\ reader = "web" /\ pc = "idle"
  /\ Begin(Newest(Len(log)))
  /\ total' = Len(log)
  /\ pc' = IF Newest(Len(log)) < Len(log) THEN "more" ELSE "done"
  /\ UNCHANGED reader

\* Mutated form of Advance: by the records received.
AdvanceByReceived(page) == offset + Larger(1, Len(page))

\* By the page, not by the records received.
Advance(page) == offset + PageLimit

ReadPage ==
  /\ Reading
  /\ \E slots \in Covered(PageLimit) :
       LET page == Page(slots)
       IN /\ got' = got \o page
          /\ offset' = Advance(page)
          /\ unread' = unread + Slots(PageLimit) - slots
  /\ total' = IF pc = "first" THEN Len(log) ELSE total
  /\ pc' = IF offset' < total' THEN "more" ELSE "done"
  /\ UNCHANGED <<ring, reader, kept, rolls>>

\* An error reply, or none: everything read so far is given up.
ReadFailed ==
  /\ Reading
  /\ pc' = "failed" /\ got' = <<>>
  /\ kept' = {} /\ rolls' = 0 /\ unread' = 0
  /\ UNCHANGED <<ring, reader, offset, total>>

\* The reader has shown what it got, or the error.
Finish ==
  /\ pc \in {"done", "failed"}
  /\ pc' = "idle"
  /\ reader' \in Readers
  /\ offset' = 0 /\ total' = 0 /\ got' = <<>>
  /\ kept' = {} /\ rolls' = 0 /\ unread' = 0
  /\ UNCHANGED ring

Next ==
  \/ LogMoves
  \/ StartAll \/ StartLast \/ StartWeb
  \/ ReadPage \/ ReadFailed \/ Finish

Spec == Init /\ [][Next]_vars

(***************************************************************************)
(* Properties                                                              *)
(***************************************************************************)
TypeOK ==
  /\ log \in Seq(Nat \cup {Hole}) /\ Len(log) <= Capacity
  /\ next \in 0 .. MaxRecords /\ pending \in BOOLEAN
  /\ reader \in {"all", "last", "web"}
  /\ pc \in {"idle", "first", "more", "done", "failed"}
  /\ offset \in Nat /\ total \in 0 .. Capacity
  /\ got \in Seq(Nat)
  /\ kept \subseteq Nat /\ rolls \in 0 .. MaxRolls /\ unread \in Nat

\* A reader gets records oldest first and none twice, however the log rolls, is
\* cleared or grows between its pages.
InOrderOnce == \A m, n \in 1 .. Len(got) : m < n => got[m] < got[n]

Missed == kept \ Elements(got)

\* A reader misses nothing but what rolls move out of its way, at most a sector's
\* slots for each roll while it reads, and what a failing flash read ends.
MissesOnlyRolled == pc = "done" => Cardinality(Missed) <= rolls * SlotsPerSector + unread

\* "FetchLog reads every record from offset to the end" (client.go).
ReadsEveryRecord == pc = "done" => Missed = {}

\* `log --last N`: "only the last N records" (cli.go).
OnlyLast == pc = "done" /\ reader = "last" => Len(got) <= Wanted
================================================================================
