---------------------------- MODULE TimekeepingProofs ----------------------------
(***************************************************************************)
(* For any number of seconds, boots and boot ids: what SNTP can do to the  *)
(* records while the sampler reads the clock, and where the host places    *)
(* records of the device's uptime.                                         *)
(***************************************************************************)
EXTENDS Timekeeping, TLAPS

(***************************************************************************)
(* What every step keeps of the types.                                     *)
(***************************************************************************)
Types ==
  /\ time \in Nat /\ boots \in Nat /\ bootTime \in Nat /\ bootTime <= time
  /\ wall \in {"unset", "pc", "ntp"} /\ source \in {"none", "pc", "ntp"}
  /\ branch \in {None, "wall", "uptime"}
  /\ \A r \in log : r.boot \in Nat /\ r.boot <= boots

\* The steps that take a sample, those of set_time, and the others.
Sampling == SampleStart \/ ReadFlag \/ ChooseClock \/ ReadClock \/ StoreRecord
Setting == SetTimeStart \/ SetTimeOfDay \/ SetTimeMark \/ SetTimeReply

LEMMA TypesInit == Init => Types
  BY DEF Init, Types

LEMMA TypesStep == Types /\ [Next]_vars => Types'
  <1> SUFFICES ASSUME Types, [Next]_vars PROVE Types'  OBVIOUS
  <1> USE BoundsAssumption DEF Types, vars, device, clock, sample, setting, host
  <1>1. CASE Advance  BY <1>1 DEF Advance
  <1>2. CASE SampleStart  BY <1>2 DEF SampleStart
  <1>3. CASE ReadFlag  BY <1>3 DEF ReadFlag
  <1>4. CASE ChooseClock  BY <1>4 DEF ChooseClock
  <1>5. CASE ReadClock  BY <1>5 DEF ReadClock
  <1>6. CASE StoreRecord  BY <1>6 DEF StoreRecord
  <1>7. CASE Setting  BY <1>7 DEF Setting, SetTimeStart, SetTimeOfDay, SetTimeMark, SetTimeReply
  <1>8. CASE SntpSetsTime \/ SntpMarks  BY <1>8 DEF SntpSetsTime, SntpMarks
  <1>9. CASE Connect  BY <1>9 DEF Connect
  <1>10. CASE Reboot  BY <1>10 DEF Reboot
  <1>11. CASE UNCHANGED vars  BY <1>11
  <1> QED
    BY <1>1, <1>2, <1>3, <1>4, <1>5, <1>6, <1>7, <1>8, <1>9, <1>10, <1>11 DEF Next, Setting

(***************************************************************************)
(* The system time is set before anyone says so.                           *)
(***************************************************************************)
SetBefore ==
  /\ source # "none" \/ setter = "mark" \/ sntp \/ branch = "wall" => wall # "unset"
  /\ stamp # None => stamp.clock # "unset"
  /\ StampedFromSetClock

LEMMA SetBeforeInit == Init => SetBefore
  BY NoneAssumption DEF Init, SetBefore, StampedFromSetClock

LEMMA SetBeforeStep == Types /\ SetBefore /\ [Next]_vars => SetBefore'
  <1> SUFFICES ASSUME Types, SetBefore, [Next]_vars PROVE SetBefore'  OBVIOUS
  <1> USE NoneAssumption DEF SetBefore, StampedFromSetClock, vars, device, clock, sample, setting, host
  <1>1. CASE Advance \/ SampleStart \/ ReadFlag \/ Connect \/ UNCHANGED vars
    BY <1>1 DEF Advance, SampleStart, ReadFlag, Connect
  <1>2. CASE ChooseClock  BY <1>2 DEF ChooseClock
  <1>3. CASE ReadClock
    <2>1. stamp'.clock # "unset"  BY <1>3 DEF ReadClock, Types
    <2> QED  BY <1>3, <2>1 DEF ReadClock
  <1>4. CASE StoreRecord  BY <1>4 DEF StoreRecord
  <1>5. CASE Setting  BY <1>5 DEF Setting, SetTimeStart, SetTimeOfDay, SetTimeMark, SetTimeReply
  <1>6. CASE SntpSetsTime \/ SntpMarks  BY <1>6 DEF SntpSetsTime, SntpMarks
  <1>7. CASE Reboot  BY <1>7 DEF Reboot
  <1> QED  BY <1>1, <1>2, <1>3, <1>4, <1>5, <1>6, <1>7 DEF Next, Setting

\* No record is stamped with a system time that nobody has set, whatever SNTP, set_time and
\* reboots do while it is taken (clock.c:10).
THEOREM StampsAreOfSetClocks == Spec => []StampedFromSetClock
  <1>1. Init => Types /\ SetBefore  BY TypesInit, SetBeforeInit
  <1>2. (Types /\ SetBefore) /\ [Next]_vars => (Types /\ SetBefore)'  BY TypesStep, SetBeforeStep
  <1>3. SetBefore => StampedFromSetClock  BY DEF SetBefore
  <1> QED  BY <1>1, <1>2, <1>3, PTL DEF Spec

(***************************************************************************)
(* NTP's time.  What set_time is about to write, it decided on at its      *)
(* start, with the lock it still holds.                                    *)
(***************************************************************************)
Tested ==
  /\ owner = "set_time" <=> setter # "idle"
  /\ setter \in {"settimeofday", "mark"} => found # "ntp"

LEMMA TestedInit == Init => Tested
  BY DEF Init, Tested

LEMMA TestedStep == Tested /\ [Next]_vars => Tested'
  <1> SUFFICES ASSUME Tested, [Next]_vars PROVE Tested'  OBVIOUS
  <1> USE DEF Tested, vars, device, clock, sample, setting, host
  <1>1. CASE Advance \/ Connect \/ UNCHANGED vars  BY <1>1 DEF Advance, Connect
  <1>2. CASE Sampling
    BY <1>2 DEF Sampling, SampleStart, ReadFlag, ChooseClock, ReadClock, StoreRecord
  <1>3. CASE Setting  BY <1>3 DEF Setting, SetTimeStart, SetTimeOfDay, SetTimeMark, SetTimeReply
  <1>4. CASE SntpSetsTime \/ SntpMarks  BY <1>4 DEF SntpSetsTime, SntpMarks
  <1>5. CASE Reboot  BY <1>5 DEF Reboot
  <1> QED  BY <1>1, <1>2, <1>3, <1>4, <1>5 DEF Next, Sampling, Setting

\* NTP's time is replaced only by a set_time that had found another source at its start
\* (clock.c:10); one that starts while NTP's time is in force never writes.
THEOREM NtpStays == Spec => NtpIsFinal
  <1>1. Init => Types /\ Tested  BY TypesInit, TestedInit
  <1>2. (Types /\ Tested) /\ [Next]_vars => (Types /\ Tested)'  BY TypesStep, TestedStep
  <1>3. (Types /\ Tested) /\ [Next]_vars =>
          [NtpInForce /\ boots' = boots /\ (owner = "set_time" => found = "ntp") => NtpInForce']_vars
    <2> SUFFICES ASSUME Types, Tested, [Next]_vars, NtpInForce, boots' = boots,
                        owner = "set_time" => found = "ntp"
                 PROVE NtpInForce'
      OBVIOUS
    <2>1. setter \notin {"settimeofday", "mark"}  BY DEF Tested
    <2> USE DEF Types, NtpInForce, vars, device, clock, sample, setting, host
    <2>2. CASE Advance \/ Connect \/ UNCHANGED vars  BY <2>2 DEF Advance, Connect
    <2>3. CASE Sampling
      BY <2>3 DEF Sampling, SampleStart, ReadFlag, ChooseClock, ReadClock, StoreRecord
    <2>4. CASE Setting
      BY <2>1, <2>4 DEF Setting, SetTimeStart, SetTimeOfDay, SetTimeMark, SetTimeReply
    <2>5. CASE SntpSetsTime \/ SntpMarks  BY <2>5 DEF SntpSetsTime, SntpMarks
    <2>6. CASE Reboot  BY <2>6 DEF Reboot
    <2> QED  BY <2>2, <2>3, <2>4, <2>5, <2>6 DEF Next, Sampling, Setting
  <1> QED  BY <1>1, <1>2, <1>3, PTL DEF Spec, NtpIsFinal

(***************************************************************************)
(* What SNTP can overtake.                                                 *)
(***************************************************************************)
\* set_time holds the lock while it runs, the sampler while it has arguments.
Excluded ==
  /\ setter \in {"idle", "settimeofday", "mark", "reply"}
  /\ owner = "set_time" <=> setter # "idle"
  /\ owner # "sampler" => branch = None /\ stamp = None /\ flag = None

\* What the sampler has seen of g_source, and what it can be by now.
Seen ==
  /\ flag \in {TRUE, FALSE, None}
  /\ flag = FALSE \/ branch = "uptime" => source \in {"none", "ntp"}
  /\ flag = TRUE \/ branch = "wall" => source # "none"
  /\ flag = TRUE /\ branch = "uptime" => source = "ntp"
  /\ flag = FALSE /\ branch = "wall" => source = "ntp"
  /\ stamp # None => branch # None /\ (stamp.clock = "uptime" <=> branch = "uptime")

\* A record whose flag disagrees with its stamp, of this boot.
Late(r) == r \in log /\ Mismatched(r) /\ r.boot = boots

\* After one, no look at g_source finds it unset, and no set_time is under way that could reset it.
Overtaken ==
  \A r \in log : Late(r) =>
    source = "ntp" /\ setter \in {"idle", "reply"} /\ flag # FALSE /\ branch # "uptime"

LateInv == Excluded /\ Seen /\ Overtaken /\ OneMismatchPerBoot

LEMMA LateInit == Init => LateInv
  BY NoneAssumption DEF Init, LateInv, Excluded, Seen, Overtaken, OneMismatchPerBoot

LEMMA LateStep == Types /\ LateInv /\ [Next]_vars => LateInv'
  <1> SUFFICES ASSUME Types, LateInv, [Next]_vars PROVE LateInv'  OBVIOUS
  <1> USE NoneAssumption DEF vars, device, clock, sample, setting, host
  <1>1. CASE Advance \/ Connect \/ UNCHANGED vars
    BY <1>1 DEF Advance, Connect, LateInv, Excluded, Seen, Overtaken, Late, OneMismatchPerBoot, Mismatched
  <1>2. CASE SampleStart
    BY <1>2 DEF SampleStart, LateInv, Excluded, Seen, Overtaken, Late, OneMismatchPerBoot, Mismatched
  <1>3. CASE ReadFlag
    <2>1. UNCHANGED <<log, boots, source, setter, owner, branch, stamp>> /\ owner = "sampler"
      BY <1>3 DEF ReadFlag
    <2>2. \/ source # "none" /\ flag' = TRUE
          \/ source = "none" /\ flag' = FALSE
      BY <1>3 DEF ReadFlag
    <2>3. Excluded'  BY <2>1 DEF LateInv, Excluded
    <2>4. Seen'
      <3>1. CASE source # "none" /\ flag' = TRUE
        BY <2>1, <3>1, Zenon DEF LateInv, Seen
      <3>2. CASE source = "none" /\ flag' = FALSE
        BY <2>1, <3>2, Zenon DEF LateInv, Seen
      <3> QED  BY <2>2, <3>1, <3>2
    <2>5. Overtaken'  BY <2>1, <2>2 DEF LateInv, Overtaken, Late
    <2>6. OneMismatchPerBoot'  BY <2>1 DEF LateInv, OneMismatchPerBoot
    <2> QED  BY <2>3, <2>4, <2>5, <2>6 DEF LateInv
  <1>4. CASE ChooseClock
    <2>1. UNCHANGED <<log, boots, source, setter, owner, flag, stamp>> /\ owner = "sampler" /\ branch = None
      BY <1>4 DEF ChooseClock
    <2>2. \/ source # "none" /\ branch' = "wall"
          \/ source = "none" /\ branch' = "uptime"
      BY <1>4 DEF ChooseClock
    <2>3. Excluded'  BY <2>1 DEF LateInv, Excluded
    <2>4. Seen'
      <3>1. CASE source # "none" /\ branch' = "wall"
        <4>1. flag = FALSE => source = "ntp"  BY <3>1 DEF LateInv, Seen
        <4> QED  BY <2>1, <3>1, <4>1, Zenon DEF LateInv, Seen
      <3>2. CASE source = "none" /\ branch' = "uptime"
        <4>1. flag # TRUE  BY <3>2 DEF LateInv, Seen
        <4> QED  BY <2>1, <3>2, <4>1, Zenon DEF LateInv, Seen
      <3> QED  BY <2>2, <3>1, <3>2
    <2>5. Overtaken'  BY <2>1, <2>2 DEF LateInv, Overtaken, Late
    <2>6. OneMismatchPerBoot'  BY <2>1 DEF LateInv, OneMismatchPerBoot
    <2> QED  BY <2>3, <2>4, <2>5, <2>6 DEF LateInv
  <1>5. CASE ReadClock
    <2>1. UNCHANGED <<log, boots, source, setter, owner, flag, branch>> /\ owner = "sampler"
      BY <1>5 DEF ReadClock
    <2>2. branch # None /\ (stamp'.clock = "uptime" <=> branch = "uptime")
      BY <1>5 DEF ReadClock, Types
    <2>3. Excluded'  BY <2>1 DEF LateInv, Excluded
    <2>4. Seen'  BY <2>1, <2>2 DEF LateInv, Seen
    <2>5. Overtaken'  BY <2>1 DEF LateInv, Overtaken, Late
    <2>6. OneMismatchPerBoot'  BY <2>1 DEF LateInv, OneMismatchPerBoot
    <2> QED  BY <2>3, <2>4, <2>5, <2>6 DEF LateInv
  <1>6. CASE StoreRecord
    <2> DEFINE new == [clock |-> stamp.clock, value |-> stamp.value, flag |-> flag,
                       bootId |-> bootId, taken |-> stamp.at, boot |-> boots]
    <2>1. /\ UNCHANGED <<boots, source, setter>> /\ log' = log \cup {new}
          /\ owner = "sampler" /\ owner' = "nobody" /\ stamp # None /\ flag # None
          /\ branch' = None /\ stamp' = None /\ flag' = None
      BY <1>6 DEF StoreRecord
    <2>2. new.flag = flag /\ new.clock = stamp.clock /\ new.boot = boots  OBVIOUS
    <2>3. Mismatched(new) =>
            /\ \/ flag = TRUE /\ branch = "uptime"
               \/ flag = FALSE /\ branch = "wall"
            /\ source = "ntp" /\ setter = "idle"
      <3>1. branch \in {"wall", "uptime"} /\ (stamp.clock = "uptime" <=> branch = "uptime") /\ setter = "idle"
        <4>1. branch # None /\ (stamp.clock = "uptime" <=> branch = "uptime")
          BY <2>1, Zenon DEF LateInv, Seen
        <4>2. setter = "idle"  BY <2>1 DEF LateInv, Excluded
        <4> QED  BY <4>1, <4>2 DEF Types
      <3>2. CASE flag = TRUE  BY <2>2, <3>1, <3>2 DEF LateInv, Seen, Mismatched
      <3>3. CASE flag = FALSE  BY <2>2, <3>1, <3>3 DEF LateInv, Seen, Mismatched
      <3> QED  BY <2>1, <3>2, <3>3 DEF LateInv, Seen
    <2> HIDE DEF new
    <2>4. \A r \in log : Mismatched(new) => ~Late(r)
      BY <2>3 DEF LateInv, Overtaken
    <2>5. Excluded'  BY <2>1 DEF LateInv, Excluded
    <2>6. Seen'  BY <2>1 DEF LateInv, Seen, Types
    <2>7. Overtaken'  BY <2>1, <2>3 DEF LateInv, Overtaken, Late, Mismatched
    <2>8. OneMismatchPerBoot'
      BY <2>1, <2>2, <2>4 DEF LateInv, OneMismatchPerBoot, Late, Mismatched
    <2> QED  BY <2>5, <2>6, <2>7, <2>8 DEF LateInv
  <1>7. CASE Setting
    <2>1. UNCHANGED <<log, boots, flag, branch, stamp>>
      BY <1>7 DEF Setting, SetTimeStart, SetTimeOfDay, SetTimeMark, SetTimeReply
    <2>2. Excluded'
      BY <1>7, <2>1 DEF LateInv, Excluded, Setting, SetTimeStart, SetTimeOfDay, SetTimeMark, SetTimeReply
    <2>3. owner # "sampler" /\ branch = None /\ stamp = None /\ flag = None
      BY <1>7 DEF LateInv, Excluded, Setting, SetTimeStart, SetTimeOfDay, SetTimeMark, SetTimeReply
    <2>4. Seen'  BY <2>1, <2>3 DEF LateInv, Seen
    <2>5. Overtaken'
      BY <1>7, <2>1, <2>3 DEF LateInv, Overtaken, Late, Setting, SetTimeStart, SetTimeOfDay,
                              SetTimeMark, SetTimeReply
    <2>6. OneMismatchPerBoot'  BY <2>1 DEF LateInv, OneMismatchPerBoot
    <2> QED  BY <2>2, <2>4, <2>5, <2>6 DEF LateInv
  <1>8. CASE SntpSetsTime \/ SntpMarks
    <2>1. UNCHANGED <<log, boots, flag, branch, stamp, setter, owner>> /\ source' \in {source, "ntp"}
      BY <1>8 DEF SntpSetsTime, SntpMarks
    <2>2. Excluded'  BY <2>1 DEF LateInv, Excluded
    <2>3. Seen'  BY <2>1 DEF LateInv, Seen, Types
    <2>4. Overtaken'  BY <2>1 DEF LateInv, Overtaken, Late
    <2>5. OneMismatchPerBoot'  BY <2>1 DEF LateInv, OneMismatchPerBoot
    <2> QED  BY <2>2, <2>3, <2>4, <2>5 DEF LateInv
  <1>9. CASE Reboot
    <2>1. /\ UNCHANGED log /\ boots' = boots + 1 /\ source' = "none" /\ owner' = "nobody"
          /\ setter' = "idle" /\ branch' = None /\ stamp' = None /\ flag' = None
      BY <1>9 DEF Reboot
    <2>2. \A r \in log' : r.boot # boots'  BY <2>1 DEF Types
    <2>3. Excluded' /\ Seen'  BY <2>1 DEF Excluded, Seen
    <2>4. Overtaken'  BY <2>2 DEF Overtaken, Late
    <2>5. OneMismatchPerBoot'  BY <2>1 DEF LateInv, OneMismatchPerBoot
    <2> QED  BY <2>3, <2>4, <2>5 DEF LateInv
  <1> QED
    BY <1>1, <1>2, <1>3, <1>4, <1>5, <1>6, <1>7, <1>8, <1>9 DEF Next, Setting

\* A flag disagrees with its stamp only if SNTP overtook the sample, and then SNTP's time is in
\* force: set_time and the sampler exclude each other (app-main.c:166).
THEOREM SntpAloneOvertakes == Spec => []OnlySntpOvertakes
  <1>1. Init => Types /\ LateInv  BY TypesInit, LateInit
  <1>2. (Types /\ LateInv) /\ [Next]_vars => (Types /\ LateInv)'  BY TypesStep, LateStep
  <1>3. LateInv => OnlySntpOvertakes  BY DEF LateInv, Overtaken, Late, OnlySntpOvertakes
  <1> QED  BY <1>1, <1>2, <1>3, PTL DEF Spec

\* It happens to one record of a boot at most.
THEOREM OneIsOvertaken == Spec => []OneMismatchPerBoot
  <1>1. Init => Types /\ LateInv  BY TypesInit, LateInit
  <1>2. (Types /\ LateInv) /\ [Next]_vars => (Types /\ LateInv)'  BY TypesStep, LateStep
  <1>3. LateInv => OneMismatchPerBoot  BY DEF LateInv
  <1> QED  BY <1>1, <1>2, <1>3, PTL DEF Spec

(***************************************************************************)
(* Where the host places a record.  Every boot has one start and one id;   *)
(* the ids of consecutive boots follow one another but where NVS slips.    *)
(***************************************************************************)
Ids == 0 .. BootIds - 1

\* The id that comes k boots after the id x, if k < BootIds.
After(x, k) == IF x + k < BootIds THEN x + k ELSE x + k - BootIds

Chained(id) ==
  \A m, n \in 1 .. boots :
    m <= n /\ n - m < BootIds /\ (\A k \in slips : ~(m <= k /\ k < n)) => id[n] = After(id[m], n - m)

BootIdInv ==
  /\ boots \in Nat /\ 1 <= boots /\ slips \subseteq Nat
  /\ bootId \in Ids /\ nvsBootId \in Ids \cup {None}
  /\ boots \in slips \/ nvsBootId = bootId

\* start[n], id[n]: when the n-th boot began, and its boot_id.
Placed(start, id) ==
  /\ start \in [Nat -> Int] /\ start[boots] = bootTime
  /\ id \in [Nat -> Ids] /\ id[boots] = bootId
  /\ stamp # None /\ stamp.clock = "uptime" =>
       stamp.at \in Int /\ stamp.value \in Int /\ stamp.at - stamp.value = bootTime
  /\ \A r \in log : r.clock = "uptime" =>
       /\ r.boot \in 1 .. boots /\ r.bootId = id[r.boot] /\ r.taken \in Int /\ r.value \in Int
       /\ r.taken - r.value = start[r.boot]
  /\ reply # None =>
       /\ reply.boot \in 1 .. boots /\ reply.bootId = id[reply.boot]
       /\ reply.at \in Int /\ reply.uptime \in Int
       /\ reply.at <= time /\ reply.at - reply.uptime = start[reply.boot]
  /\ sync # None =>
       /\ sync.boot \in 1 .. boots /\ sync.bootId = id[sync.boot]
       /\ sync.at \in Int /\ sync.uptime \in Int /\ sync.pcTime \in Int
       /\ sync.at <= sync.pcTime /\ sync.at - sync.uptime = start[sync.boot]
  /\ Chained(id)

PlaceInv == Types /\ BootIdInv /\ \E start, id : Placed(start, id)

LEMMA NextId ==
  ASSUME NEW x \in Ids PROVE NextBootId(x) = After(x, 1) /\ NextBootId(x) \in Ids
  <1>1. x # None  BY NoneAssumption, BootIdsAssumption DEF Ids
  <1>2. NextBootId(x) = (x + 1) % BootIds  BY <1>1 DEF NextBootId
  <1> QED  BY <1>2, BootIdsAssumption DEF Ids, After

LEMMA FirstId == NextBootId(None) \in Ids
  BY BootIdsAssumption DEF NextBootId, Ids

\* Equal ids that nothing excuses are those of one boot.
LEMMA OneBoot ==
  ASSUME BootIdInv, NEW id \in [Nat -> Ids], Chained(id),
         NEW m \in 1 .. boots, NEW n \in 1 .. boots, m < n, id[m] = id[n]
  PROVE MayShareId(m, n)
  <1> SUFFICES ASSUME n - m < BootIds, \A k \in slips : ~(m <= k /\ k < n) PROVE FALSE
    BY BootIdsAssumption DEF MayShareId, BootIdInv
  <1>1. id[n] = After(id[m], n - m)  BY DEF Chained
  <1>2. id[m] \in Ids  BY DEF BootIdInv
  <1> QED  BY <1>1, <1>2, BootIdsAssumption DEF After, Ids, BootIdInv

LEMMA PlaceInit == Init => PlaceInv
  <1> SUFFICES ASSUME Init PROVE PlaceInv  OBVIOUS
  <1>1. Types /\ BootIdInv  BY TypesInit, BootIdsAssumption DEF Init, BootIdInv, Ids
  <1> DEFINE start == [n \in Nat |-> 0]
             id == [n \in Nat |-> 1]
  <1>2. Chained(id)  BY BootIdsAssumption DEF Init, Chained, After
  <1>3. Placed(start, id)  BY <1>2, BootIdsAssumption DEF Init, Placed, Ids
  <1> QED  BY <1>1, <1>3 DEF PlaceInv

\* The steps that leave boots alone.
LEMMA PlaceSteady ==
  ASSUME PlaceInv, Next \/ UNCHANGED vars, ~Reboot PROVE PlaceInv'
  <1>1. PICK start, id : Placed(start, id)  BY DEF PlaceInv
  <1>2. Types /\ BootIdInv /\ Types'  BY TypesStep DEF PlaceInv
  <1> USE BoundsAssumption, BootIdsAssumption DEF vars, device, clock, sample, setting, host
  <1>3. UNCHANGED <<boots, bootTime, bootId, nvsBootId, slips>>
    BY DEF Next, Advance, SampleStart, ReadFlag, ChooseClock, ReadClock, StoreRecord, SetTimeStart,
           SetTimeOfDay, SetTimeMark, SetTimeReply, SntpSetsTime, SntpMarks, Connect
  <1>4. BootIdInv' /\ Chained(id)'  BY <1>1, <1>2, <1>3 DEF BootIdInv, Placed, Chained
  <1>5. CASE Advance
    <2>1. UNCHANGED <<stamp, log, reply, sync>> /\ time' = time + 1  BY <1>5 DEF Advance
    <2>2. Placed(start, id)'  BY <1>1, <1>2, <1>3, <1>4, <2>1 DEF Placed, Types
    <2> QED  BY <1>2, <1>4, <2>2 DEF PlaceInv
  <1>6. CASE UNCHANGED <<time, stamp, log, reply, sync>>
    <2>1. Placed(start, id)'  BY <1>1, <1>3, <1>4, <1>6 DEF Placed
    <2> QED  BY <1>2, <1>4, <2>1 DEF PlaceInv
  <1>7. CASE ReadClock
    <2>1. UNCHANGED <<time, log, reply, sync>>  BY <1>7 DEF ReadClock
    <2>2. stamp'.clock = "uptime" =>
            stamp'.at \in Int /\ stamp'.value \in Int /\ stamp'.at - stamp'.value = bootTime
      BY <1>2, <1>7 DEF ReadClock, Types, uptime
    <2>3. Placed(start, id)'  BY <1>1, <1>3, <1>4, <2>1, <2>2 DEF Placed
    <2> QED  BY <1>2, <1>4, <2>3 DEF PlaceInv
  <1>8. CASE StoreRecord
    <2> DEFINE new == [clock |-> stamp.clock, value |-> stamp.value, flag |-> flag,
                       bootId |-> bootId, taken |-> stamp.at, boot |-> boots]
    <2>1. /\ UNCHANGED <<time, reply, sync>>
          /\ log' = log \cup {new} /\ stamp # None /\ stamp' = None
      BY <1>8 DEF StoreRecord
    <2>2. new.clock = "uptime" =>
            /\ new.boot \in 1 .. boots /\ new.bootId = id[new.boot]
            /\ new.taken \in Int /\ new.value \in Int /\ new.taken - new.value = start[new.boot]
      BY <1>1, <1>2, <2>1 DEF Placed, BootIdInv
    <2> HIDE DEF new
    <2>3. Placed(start, id)'  BY <1>1, <1>3, <1>4, <2>1, <2>2 DEF Placed
    <2> QED  BY <1>2, <1>4, <2>3 DEF PlaceInv
  <1>9. CASE SetTimeReply
    <2>1. /\ UNCHANGED <<time, stamp, log, sync>>
          /\ reply' = [bootId |-> bootId, uptime |-> uptime, at |-> time, boot |-> boots]
      BY <1>9 DEF SetTimeReply
    <2>2. Placed(start, id)'
      BY <1>1, <1>2, <1>3, <1>4, <2>1 DEF Placed, BootIdInv, Types, uptime
    <2> QED  BY <1>2, <1>4, <2>2 DEF PlaceInv
  <1>10. CASE Connect
    <2>1. /\ UNCHANGED <<time, stamp, log>> /\ reply # None /\ reply' = None
          /\ sync' = [bootId |-> reply.bootId, uptime |-> reply.uptime, pcTime |-> time,
                      at |-> reply.at, boot |-> reply.boot]
      BY <1>10 DEF Connect
    <2>2. Placed(start, id)'  BY <1>1, <1>2, <1>3, <1>4, <2>1 DEF Placed, Types
    <2> QED  BY <1>2, <1>4, <2>2 DEF PlaceInv
  <1> QED
    BY <1>5, <1>6, <1>7, <1>8, <1>9, <1>10
       DEF Next, SampleStart, ReadFlag, ChooseClock, SetTimeStart, SetTimeOfDay, SetTimeMark,
           SntpSetsTime, SntpMarks

LEMMA PlaceReboot == ASSUME PlaceInv, Reboot PROVE PlaceInv'
  <1>1. PICK start, id : Placed(start, id)  BY DEF PlaceInv
  <1>2. Types /\ BootIdInv /\ Types'  BY TypesStep DEF PlaceInv, Next
  <1>3. /\ UNCHANGED <<time, log, reply, sync>> /\ stamp' = None
        /\ boots' = boots + 1 /\ bootTime' = time
    BY DEF Reboot, host
  <1>4. PICK stored \in {nvsBootId} \cup Lost, read \in Ids \cup {None} :
          /\ bootId' = NextBootId(read)
          /\ nvsBootId' = bootId' \/ (nvsBootId' = stored /\ boots + 1 \in slips')
          /\ slips \subseteq slips' /\ slips' \subseteq slips \cup {boots, boots + 1}
          /\ read = nvsBootId \/ boots \in slips'
    BY <1>2 DEF Reboot, Lost, BootIdInv
  <1>5. bootId' \in Ids  BY <1>4, NextId, FirstId
  <1>6. BootIdInv'  BY <1>2, <1>3, <1>4, <1>5 DEF BootIdInv, Lost
  <1>7. PICK begin \in [Nat -> Int], ids \in [Nat -> Ids] :
          /\ begin[boots + 1] = time /\ ids[boots + 1] = bootId'
          /\ \A n \in 1 .. boots : begin[n] = start[n] /\ ids[n] = id[n]
    <2> DEFINE b == [start EXCEPT ![boots + 1] = time]
               i == [id EXCEPT ![boots + 1] = bootId']
    <2>1. b \in [Nat -> Int] /\ i \in [Nat -> Ids]
      BY <1>1, <1>2, <1>5 DEF Placed, Types
    <2>2. /\ b[boots + 1] = time /\ i[boots + 1] = bootId'
          /\ \A n \in 1 .. boots : b[n] = start[n] /\ i[n] = id[n]
      BY <1>1, <1>2 DEF Placed, BootIdInv
    <2> HIDE DEF b, i
    <2> QED  BY <2>1, <2>2
  <1>8. Chained(ids)'
    <2> SUFFICES ASSUME NEW m \in 1 .. boots + 1, NEW n \in 1 .. boots + 1,
                        m <= n, n - m < BootIds, \A k \in slips' : ~(m <= k /\ k < n)
                 PROVE ids[n] = After(ids[m], n - m)
      BY <1>3 DEF Chained
    <2>1. \A k \in slips : ~(m <= k /\ k < n)  BY <1>4
    <2>2. CASE n <= boots
      <3>1. m \in 1 .. boots /\ n \in 1 .. boots  BY <1>2, <2>2 DEF BootIdInv
      <3> QED  BY <1>1, <1>7, <2>1, <3>1 DEF Placed, Chained
    <2>3. CASE m = boots + 1
      <3>1. n = m  BY <1>2, <2>3 DEF BootIdInv
      <3> QED  BY <1>5, <1>7, <2>3, <3>1, BootIdsAssumption DEF After, Ids
    <2>4. CASE m <= boots /\ n = boots + 1
      <3>1. boots \notin slips'  BY <1>2, <2>4 DEF BootIdInv
      <3>2. read = bootId /\ read \in Ids  BY <1>2, <1>4, <3>1 DEF BootIdInv
      <3>3. ids[n] = After(id[boots], 1)  BY <1>1, <1>4, <1>7, <2>4, <3>2, NextId DEF Placed
      <3>4. \A k \in slips : ~(m <= k /\ k < boots)  BY <1>2, <2>1, <2>4 DEF BootIdInv
      <3>5. m \in 1 .. boots /\ boots \in 1 .. boots /\ boots - m < BootIds
        BY <1>2, <2>4, BootIdsAssumption DEF BootIdInv
      <3>6. id[boots] = After(id[m], boots - m)  BY <1>1, <3>4, <3>5 DEF Placed, Chained
      <3>7. id[m] \in Ids /\ ids[m] = id[m]  BY <1>1, <1>7, <3>5 DEF Placed
      <3> QED  BY <1>2, <2>4, <3>3, <3>5, <3>6, <3>7, BootIdsAssumption DEF After, Ids, BootIdInv
    <2> QED  BY <1>2, <2>2, <2>3, <2>4 DEF BootIdInv
  <1>9. \A n \in 1 .. boots : n \in 1 .. boots'  BY <1>2, <1>3 DEF BootIdInv
  <1>10. Placed(begin, ids)'  BY <1>1, <1>3, <1>7, <1>8, <1>9 DEF Placed
  <1> QED  BY <1>2, <1>6, <1>10 DEF PlaceInv

LEMMA PlaceStep == PlaceInv /\ [Next]_vars => PlaceInv'
  BY PlaceSteady, PlaceReboot

LEMMA PlaceEstimates == PlaceInv => EstimatesAreRight
  <1> SUFFICES ASSUME PlaceInv, sync # None, NEW r \in log, ~r.flag, r.clock = "uptime"
               PROVE IF r.boot = sync.boot
                     THEN /\ ResolveTime(r) # Unknown
                          /\ r.taken <= ResolveTime(r)
                          /\ ResolveTime(r) <= r.taken + (sync.pcTime - sync.at)
                     ELSE ResolveTime(r) # Unknown =>
                            MayShareId(r.boot, sync.boot) \/ MayShareId(sync.boot, r.boot)
    BY DEF EstimatesAreRight
  <1>1. PICK start, id : Placed(start, id)  BY DEF PlaceInv
  <1>2. /\ r.boot \in 1 .. boots /\ r.bootId = id[r.boot] /\ r.taken \in Int /\ r.value \in Int
        /\ r.taken - r.value = start[r.boot]
        /\ sync.boot \in 1 .. boots /\ sync.bootId = id[sync.boot]
        /\ sync.at \in Int /\ sync.uptime \in Int /\ sync.pcTime \in Int
        /\ sync.at <= sync.pcTime /\ sync.at - sync.uptime = start[sync.boot]
    BY <1>1 DEF Placed
  <1>3. CASE r.boot = sync.boot
    <2>1. ResolveTime(r) = sync.pcTime - (sync.uptime - r.value)  BY <1>2, <1>3 DEF ResolveTime
    <2>2. ResolveTime(r) = r.taken + (sync.pcTime - sync.at)  BY <1>2, <1>3, <2>1
    <2>3. ResolveTime(r) # Unknown  BY <1>2, <2>2, NoneAssumption DEF Unknown
    <2> QED  BY <1>2, <1>3, <2>2, <2>3
  <1>4. CASE r.boot # sync.boot
    <2> SUFFICES ASSUME ResolveTime(r) # Unknown
                 PROVE MayShareId(r.boot, sync.boot) \/ MayShareId(sync.boot, r.boot)
      BY <1>4
    <2>1. id[r.boot] = id[sync.boot]  BY <1>2 DEF ResolveTime, Unknown
    <2>2. BootIdInv /\ id \in [Nat -> Ids] /\ Chained(id)  BY <1>1 DEF PlaceInv, Placed
    <2>3. r.boot < sync.boot \/ sync.boot < r.boot  BY <1>2, <1>4, <2>2 DEF BootIdInv
    <2> QED  BY <1>2, <2>1, <2>2, <2>3, OneBoot
  <1> QED  BY <1>3, <1>4

\* The host places every record of uptime of the boot it is connected to, late by no more than
\* the answer to its set_time was, and takes a record of another boot for one of it only where
\* NVS lost a boot_id between the two boots or BootIds boots came between: for any NVS faults
\* and any number of boots (records.go, settings.c:15-31).
THEOREM HostPlacesRight == Spec => []EstimatesAreRight
  <1>1. Init => PlaceInv  BY PlaceInit
  <1>2. PlaceInv /\ [Next]_vars => PlaceInv'  BY PlaceStep
  <1>3. PlaceInv => EstimatesAreRight  BY PlaceEstimates
  <1> QED  BY <1>1, <1>2, <1>3, PTL DEF Spec
================================================================================
