------------------------------ MODULE Timekeeping ------------------------------
(***************************************************************************)
(* How a log record gets its time, and how the host reads it back.         *)
(*                                                                         *)
(* The device has no battery clock.  Until set_time or SNTP has set the    *)
(* system time, records carry the seconds since boot; the host places them *)
(* with the boot_id and uptime that answered its own set_time.             *)
(*                                                                         *)
(* Actors: the main loop (sampler_tick), whoever runs a set_time command   *)
(* (main loop or httpd task), the SNTP task, the host, and power cuts.     *)
(* The device lock keeps the first two apart; SNTP does not take it.       *)
(* Each read or write of g_source and of the system time is one step.      *)
(*                                                                         *)
(* NVS may be erased or unreadable at a boot, and may refuse the new       *)
(* boot_id.  The log has a partition of its own and survives all three.    *)
(*                                                                         *)
(* The variables found and slips, and the field boot of records, replies   *)
(* and SyncInfos, only record what happened, for the properties.           *)
(***************************************************************************)
EXTENDS Integers, FiniteSets

CONSTANTS
  MaxTime,        \* bound: the true time, in seconds
  MaxBoots,       \* bound: boots in a behaviour
  MaxRecords,     \* bound: records in the log
  BootIds,        \* how many values boot_id has (256)
  Sntp,           \* whether SNTP answers at all
  NvsMayFail,     \* whether NVS may be erased, unreadable or refuse a write at a boot
  None            \* "not there yet"

ASSUME BoundsAssumption == MaxTime \in Nat /\ MaxBoots \in Nat /\ MaxRecords \in Nat
ASSUME BootIdsAssumption == BootIds \in Nat /\ BootIds >= 2
ASSUME SwitchAssumption == Sntp \in BOOLEAN /\ NvsMayFail \in BOOLEAN
ASSUME NoneAssumption ==
  None \notin {"wall", "uptime", "unset", "none", "pc", "ntp"} /\ None \notin BOOLEAN \cup Int

VARIABLES
  time,         \* the true time
  boots,        \* how often the device has booted
  bootTime,     \* when it last did
  nvsBootId,    \* the boot_id in NVS, or None
  bootId,       \* g_boot_id
  slips,        \* the boots whose boot_id the next boot did not find
  wall,         \* what the system time shows: "unset", "pc" or "ntp" time
  source,       \* g_source: "none", "pc" or "ntp"
  owner,        \* who holds the device lock: "nobody", "sampler", "set_time"
  branch,       \* the clock clock_timestamp has decided to read
  stamp,        \* the timestamp argument of sampler_tick: [clock, value]
  flag,         \* its time_valid argument
  setter,       \* where clock_set_time is
  found,        \* the g_source it found when it started
  sntp,         \* SNTP has set the system time, its callback is still to run
  reply,        \* the answer to set_time on its way to the host
  sync,         \* the host's SyncInfo
  log           \* the stored records

device == <<boots, bootTime, nvsBootId, bootId, slips>>
clock == <<wall, source, sntp>>
sample == <<branch, stamp, flag>>
host == <<reply, sync>>
setting == <<setter, found>>
vars == <<time, device, clock, owner, sample, setting, host, log>>

uptime == time - bootTime

Init ==
  /\ time = 0 /\ boots = 1 /\ bootTime = 0
  /\ nvsBootId = 1 /\ bootId = 1 /\ slips = {}
  /\ wall = "unset" /\ source = "none" /\ sntp = FALSE
  /\ owner = "nobody"
  /\ branch = None /\ stamp = None /\ flag = None
  /\ setter = "idle" /\ found = None
  /\ reply = None /\ sync = None /\ log = {}

Advance ==
  /\ time < MaxTime
  /\ time' = time + 1
  /\ UNCHANGED <<device, clock, owner, sample, setting, host, log>>

(***************************************************************************)
(* The main loop: sampler_tick(clock_uptime_s(), clock_timestamp(),        *)
(* clock_time_valid(), settings_boot_id()).  C leaves the order in which   *)
(* the arguments are evaluated open.                                       *)
(***************************************************************************)
SampleStart ==
  /\ owner = "nobody"
  /\ Cardinality(log) < MaxRecords
  /\ \A r \in log : r.taken # time \/ r.boot # boots
  /\ owner' = "sampler"
  /\ UNCHANGED <<time, device, clock, sample, setting, host, log>>

\* Mutated form of ReadFlag: only NTP counts as a valid time.
ReadFlagOfNtp ==
  /\ owner = "sampler" /\ flag = None
  /\ flag' = (source = "ntp")
  /\ UNCHANGED <<time, device, clock, owner, branch, stamp, setting, host, log>>

\* clock_time_valid, as the third argument
ReadFlag ==
  /\ owner = "sampler" /\ flag = None
  /\ flag' = (source # "none")
  /\ UNCHANGED <<time, device, clock, owner, branch, stamp, setting, host, log>>

\* clock_timestamp: its own look at clock_time_valid, then the clock it chose
ChooseClock ==
  /\ owner = "sampler" /\ branch = None
  /\ branch' = IF source # "none" THEN "wall" ELSE "uptime"
  /\ UNCHANGED <<time, device, clock, owner, stamp, flag, setting, host, log>>

ReadClock ==
  /\ owner = "sampler" /\ branch # None /\ stamp = None
  /\ stamp' = IF branch = "uptime" THEN [clock |-> "uptime", value |-> uptime, at |-> time]
              ELSE [clock |-> wall, value |-> time, at |-> time]
  /\ UNCHANGED <<time, device, clock, owner, branch, flag, setting, host, log>>

\* The body of sampler_tick, with a working sensor and log store.
StoreRecord ==
  /\ owner = "sampler" /\ stamp # None /\ flag # None
  /\ log' = log \cup {[clock |-> stamp.clock, value |-> stamp.value, flag |-> flag,
                       bootId |-> bootId, taken |-> stamp.at, boot |-> boots]}
  /\ owner' = "nobody"
  /\ branch' = None /\ stamp' = None /\ flag' = None
  /\ UNCHANGED <<time, device, clock, setting, host>>

(***************************************************************************)
(* A set_time command, from the USB line or from the web page.             *)
(***************************************************************************)

\* Mutated form of SetTimeStart: the device lock is not taken.
SetTimeUnlocked ==
  /\ owner # "set_time" /\ setter = "idle"
  /\ found' = source
  /\ setter' = IF found' = "ntp" THEN "reply" ELSE "settimeofday"
  /\ UNCHANGED <<time, device, clock, owner, sample, host, log>>

\* Mutated form of SetTimeStart: NTP's time is not spared.
SetTimeUntested ==
  /\ owner = "nobody" /\ setter = "idle"
  /\ owner' = "set_time"
  /\ found' = source
  /\ setter' = "settimeofday"
  /\ UNCHANGED <<time, device, clock, sample, host, log>>

SetTimeStart ==
  /\ owner = "nobody" /\ setter = "idle"
  /\ owner' = "set_time"
  /\ found' = source
  /\ setter' = IF found' = "ntp" THEN "reply" ELSE "settimeofday"
  /\ UNCHANGED <<time, device, clock, sample, host, log>>

\* Mutated form of SetTimeOfDay: the call is left out.
NoSetTimeOfDay ==
  /\ setter = "settimeofday"
  /\ setter' = "mark"
  /\ UNCHANGED <<time, device, found, clock, owner, sample, host, log>>

SetTimeOfDay ==
  /\ setter = "settimeofday"
  /\ wall' = "pc"
  /\ setter' = "mark"
  /\ UNCHANGED <<time, device, found, source, sntp, owner, sample, host, log>>

SetTimeMark ==
  /\ setter = "mark"
  /\ source' = "pc"
  /\ setter' = "reply"
  /\ UNCHANGED <<time, device, found, wall, sntp, owner, sample, host, log>>

\* cmd_set_time answers, and the lock is given back.
SetTimeReply ==
  /\ setter = "reply"
  /\ reply' = [bootId |-> bootId, uptime |-> uptime, at |-> time, boot |-> boots]
  /\ setter' = "idle" /\ found' = None /\ owner' = "nobody"
  /\ UNCHANGED <<time, device, clock, sample, sync, log>>

(***************************************************************************)
(* SNTP sets the system time, then calls on_sntp_sync.                     *)
(***************************************************************************)
SntpSetsTime ==
  /\ Sntp /\ ~sntp
  /\ wall' = "ntp" /\ sntp' = TRUE
  /\ UNCHANGED <<time, device, source, owner, sample, setting, host, log>>

\* on_sntp_sync: clock_mark_valid(CLOCK_SOURCE_NTP)
SntpMarks ==
  /\ sntp
  /\ source' = "ntp" /\ sntp' = FALSE
  /\ UNCHANGED <<time, device, wall, owner, sample, setting, host, log>>

(***************************************************************************)
(* The host, and power cuts.                                               *)
(***************************************************************************)

\* connect: the answer to set_time and the PC's own time make the SyncInfo.
Connect ==
  /\ reply # None
  /\ sync' = [bootId |-> reply.bootId, uptime |-> reply.uptime, pcTime |-> time, at |-> reply.at,
              boot |-> reply.boot]
  /\ reply' = None
  /\ UNCHANGED <<time, device, clock, owner, sample, setting, log>>

\* Mutated form of NextBootId: the generation is not advanced.
SameBootId(read) == IF read = None THEN 0 ELSE read

\* g_boot_id, after the one that nvs_get_u8 read: 0 if there is none
NextBootId(read) == ((IF read = None THEN 0 ELSE read) + 1) % BootIds

\* What NVS gives instead of the boot_id, if it may fail.
Lost == IF NvsMayFail THEN {None} ELSE {}

\* settings_init: NVS is erased when it is full or of another version, or the key cannot be
\* read; a refused nvs_set_u8 goes unnoticed.
Reboot ==
  /\ boots < MaxBoots
  /\ boots' = boots + 1 /\ bootTime' = time
  /\ \E stored \in {nvsBootId} \cup Lost : \E read \in {stored} \cup Lost :
       /\ bootId' = NextBootId(read)
       /\ \/ /\ nvsBootId' = bootId'
             /\ slips' = slips \cup (IF read = nvsBootId THEN {} ELSE {boots})
          \/ /\ NvsMayFail /\ nvsBootId' = stored
             /\ slips' = slips \cup {boots + 1} \cup (IF read = nvsBootId THEN {} ELSE {boots})
  /\ wall' = "unset" /\ source' = "none" /\ sntp' = FALSE
  /\ owner' = "nobody" /\ setter' = "idle" /\ found' = None
  /\ branch' = None /\ stamp' = None /\ flag' = None
  /\ UNCHANGED <<time, host, log>>

Next ==
  \/ Advance
  \/ SampleStart \/ ReadFlag \/ ChooseClock \/ ReadClock \/ StoreRecord
  \/ SetTimeStart \/ SetTimeOfDay \/ SetTimeMark \/ SetTimeReply
  \/ SntpSetsTime \/ SntpMarks
  \/ Connect \/ Reboot

Spec == Init /\ [][Next]_vars

(***************************************************************************)
(* ResolveTime: where the host puts a record on its own time line.         *)
(***************************************************************************)
Unknown == None

ResolveTime(r) ==
  CASE r.flag -> r.value
    [] ~r.flag /\ r.bootId = sync.bootId -> sync.pcTime - (sync.uptime - r.value)
    [] OTHER -> Unknown

(***************************************************************************)
(* Properties                                                              *)
(***************************************************************************)
Stamp == [clock : {"uptime", "unset", "pc", "ntp"}, value : Nat, at : Nat]

TypeOK ==
  /\ time \in 0 .. MaxTime /\ bootTime \in 0 .. time /\ boots \in 1 .. MaxBoots
  /\ bootId \in 0 .. BootIds - 1 /\ nvsBootId \in 0 .. BootIds - 1 \cup {None}
  /\ slips \subseteq 1 .. MaxBoots
  /\ wall \in {"unset", "pc", "ntp"} /\ source \in {"none", "pc", "ntp"} /\ sntp \in BOOLEAN
  /\ owner \in {"nobody", "sampler", "set_time"}
  /\ branch \in {None, "wall", "uptime"} /\ stamp \in Stamp \cup {None} /\ flag \in BOOLEAN \cup {None}
  /\ setter \in {"idle", "settimeofday", "mark", "reply"} /\ found \in {"none", "pc", "ntp", None}
  /\ reply = None \/ DOMAIN reply = {"bootId", "uptime", "at", "boot"}
  /\ sync = None \/ DOMAIN sync = {"bootId", "uptime", "pcTime", "at", "boot"}
  /\ \A r \in log : [clock |-> r.clock, value |-> r.value, at |-> r.taken] \in Stamp /\ r.flag \in BOOLEAN

Mismatched(r) == r.flag = (r.clock = "uptime")

\* The flag of a record says which clock its timestamp was read from
\* (log-record.h: "epoch seconds if time_valid, else seconds since boot").
FlagMatchesStamp == \A r \in log : ~Mismatched(r)

\* At most the one sample that the first synchronisation of a boot overtakes
\* can have a flag that disagrees with its timestamp.
OneMismatchPerBoot ==
  \A r1, r2 \in log : Mismatched(r1) /\ Mismatched(r2) /\ r1.boot = r2.boot => r1 = r2

\* Only a synchronisation by SNTP can overtake a sample: set_time and the sampler
\* exclude each other.
OnlySntpOvertakes ==
  \A r \in log : Mismatched(r) /\ r.boot = boots => source = "ntp"

\* No record is stamped with the system time before anyone has set it: both
\* ways of setting it do so before they say so.
StampedFromSetClock == \A r \in log : r.clock # "unset"

NtpInForce == source = "ntp" /\ wall = "ntp"

\* Nothing but a reboot replaces SNTP's time, once it is in force (clock.c:10, "NTP is
\* authoritative once it has synced").
NtpAuthoritative == [][NtpInForce /\ boots' = boots => NtpInForce']_vars

\* The same except for a set_time that had found another source when it started: one that finds
\* NTP's time leaves it alone from its test to its reply.
NtpIsFinal ==
  [][NtpInForce /\ boots' = boots /\ (owner = "set_time" => found = "ntp") => NtpInForce']_vars

\* The host places no record of uptime that another boot wrote (records.go).
PlacesItsBootOnly ==
  sync # None =>
    \A r \in log : ~r.flag /\ r.clock = "uptime" /\ r.boot # sync.boot => ResolveTime(r) = Unknown

\* Two boots may have the same boot_id only if it came round in between, or some boot did not
\* find the one of the boot before it.
MayShareId(m, n) ==
  /\ m < n
  /\ \/ n - m >= BootIds
     \/ \E k \in slips : m <= k /\ k < n

\* The host places each record of uptime that the boot it is connected to wrote, late by no
\* more than the answer to its set_time was (records.go).  It may place a record of another
\* boot, wrongly, but only if NVS lost a boot_id between the two (settings.c:17-29) or
\* BootIds boots came between (docs/protocol.md:196).
EstimatesAreRight ==
  sync # None =>
    \A r \in log : ~r.flag /\ r.clock = "uptime" =>
      IF r.boot = sync.boot
      THEN /\ ResolveTime(r) # Unknown
           /\ r.taken <= ResolveTime(r) /\ ResolveTime(r) <= r.taken + (sync.pcTime - sync.at)
      ELSE ResolveTime(r) # Unknown => MayShareId(r.boot, sync.boot) \/ MayShareId(sync.boot, r.boot)
================================================================================
