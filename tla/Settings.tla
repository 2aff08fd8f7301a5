-------------------------------- MODULE Settings --------------------------------
(***************************************************************************)
(* The settings that outlive a restart (firmware/main/settings.c): the     *)
(* sampling interval and the WiFi credentials, set by set_interval and     *)
(* set_wifi, kept in NVS and read at the next boot.                        *)
(*                                                                         *)
(* NVS is external.  A write reaches the flash in the order of the calls,  *)
(* at the latest with the next nvs_commit that succeeds; a power cut keeps *)
(* some first part of what was not committed.  A refused write does        *)
(* nothing; a failed commit leaves its writes as they were.                *)
(*                                                                         *)
(* The last three variables only record what a reader of the replies knows. *)
(***************************************************************************)
EXTENDS Integers, Sequences

CONSTANTS
  Intervals,         \* intervals asked for
  IntervalMin,       \* SETTINGS_INTERVAL_MIN
  IntervalMax,       \* SETTINGS_INTERVAL_MAX
  IntervalDefault,   \* SETTINGS_INTERVAL_DEFAULT
  Networks,          \* networks; each one's password has its name
  None,              \* no such key
  Fails,             \* an NVS call may fail
  MaxSets            \* bound: commands in a behaviour

ASSUME IntervalsAssumption ==
  /\ Intervals \subseteq Nat /\ IntervalMin \in Nat /\ IntervalMax \in Nat
  /\ IntervalDefault \in IntervalMin .. IntervalMax
ASSUME SetsAssumption == None \notin Networks \cup Nat /\ Fails \in BOOLEAN /\ MaxSets \in Nat

VARIABLES
  nvs,           \* what the flash holds: interval, ssid and pass
  staged,        \* writes it does not hold for sure yet, oldest first
  ram,           \* settings.c's g_interval_s
  sampling,      \* sampler.c's g_interval_s
  pc, req,       \* where the command under way is, and what it asks for
  sets,          \* commands so far
  mayInterval, mayPair,  \* what may be stored, as far as the replies tell
  halfSet        \* networks whose set_wifi may be half done: begun, and none answered ok since

vars == <<nvs, staged, ram, sampling, pc, req, sets, mayInterval, mayPair, halfSet>>

Accepted == {s \in Intervals : s >= IntervalMin /\ s <= IntervalMax}
Keys == {"interval", "ssid", "pass"}
Store == [interval : Accepted \cup {None}, ssid : Networks \cup {None}, pass : Networks \cup {None}]

\* What the store holds after some writes: of each key the last one counts.
WritesOf(key, writes) == {n \in 1 .. Len(writes) : writes[n][1] = key}
LastWriteOf(key, writes) ==
  CHOOSE n \in WritesOf(key, writes) : \A m \in WritesOf(key, writes) : m <= n

Apply(writes, store) ==
  [key \in Keys |-> IF WritesOf(key, writes) = {} THEN store[key]
                                               ELSE writes[LastWriteOf(key, writes)][2]]

Init ==
  /\ nvs \in {[interval |-> None, ssid |-> n, pass |-> n] : n \in Networks \cup {None}}
  /\ staged = <<>>
  /\ ram = IntervalDefault /\ sampling = IntervalDefault
  /\ pc = "idle" /\ req = None /\ sets = 0
  /\ mayInterval = {None} /\ mayPair = {<<nvs.ssid, nvs.pass>>} /\ halfSet = {}

\* nvs_set_*, nvs_erase_key
NvsWrite(key, value) == staged' = Append(staged, <<key, value>>)

Refuse ==
  /\ Fails /\ pc \notin {"off", "idle", "apply"}
  /\ pc' = "idle"
  /\ UNCHANGED <<nvs, staged, ram, sampling, req, sets, mayInterval, mayPair, halfSet>>

Committed == nvs' = Apply(staged, nvs) /\ staged' = <<>>

(***************************************************************************)
(* set_interval: op_set_interval_s and settings_set_interval_s.            *)
(***************************************************************************)
SetInterval ==
  /\ pc = "idle" /\ sets < MaxSets
  /\ \E s \in Intervals :
       /\ s >= IntervalMin /\ s <= IntervalMax
       /\ ram' = s /\ req' = s
       /\ mayInterval' = mayInterval \cup {s}
  /\ sets' = sets + 1
  /\ pc' = "set_interval"
  /\ UNCHANGED <<nvs, staged, sampling, mayPair, halfSet>>

WriteInterval ==
  /\ pc = "set_interval"
  /\ NvsWrite("interval", req)
  /\ pc' = "commit_interval"
  /\ UNCHANGED <<nvs, ram, sampling, req, sets, mayInterval, mayPair, halfSet>>

\* Mutated form of CommitInterval: nothing is committed.
SkipCommitInterval ==
  /\ pc = "commit_interval"
  /\ pc' = "apply"
  /\ UNCHANGED <<nvs, staged, ram, sampling, req, sets, mayInterval, mayPair, halfSet>>

CommitInterval ==
  /\ pc = "commit_interval"
  /\ Committed
  /\ pc' = "apply"
  /\ UNCHANGED <<ram, sampling, req, sets, mayInterval, mayPair, halfSet>>

\* Mutated form of ApplyInterval: the sampler is not told.
ApplyNothing ==
  /\ pc = "apply"
  /\ mayInterval' = {req}
  /\ pc' = "idle"
  /\ UNCHANGED <<nvs, staged, ram, sampling, req, sets, mayPair, halfSet>>

\* sampler_set_interval, and the reply.
ApplyInterval ==
  /\ pc = "apply"
  /\ sampling' = req
  /\ mayInterval' = {req}
  /\ pc' = "idle"
  /\ UNCHANGED <<nvs, staged, ram, req, sets, mayPair, halfSet>>

(***************************************************************************)
(* set_wifi: settings_set_wifi_credentials.                                *)
(***************************************************************************)
Passwords == {pair[2] : pair \in mayPair}

SetWifi ==
  /\ pc = "idle" /\ sets < MaxSets
  /\ \E network \in Networks :
       /\ req' = network
       /\ mayPair' = mayPair \cup {<<network, p>> : p \in Passwords \cup {network}}
       /\ halfSet' = halfSet \cup {network}
  /\ sets' = sets + 1
  /\ pc' = "set_ssid"
  /\ UNCHANGED <<nvs, staged, ram, sampling, mayInterval>>

\* An empty ssid.  A reader would not expect an ssid without its password.
Forget ==
  /\ pc = "idle" /\ sets < MaxSets
  /\ req' = None
  /\ mayPair' = mayPair \cup {<<None, p>> : p \in Passwords \cup {None}}
  /\ sets' = sets + 1
  /\ pc' = "set_ssid"
  /\ UNCHANGED <<nvs, staged, ram, sampling, mayInterval, halfSet>>

\* Mutated form of WriteSsid: the password is erased first.
WritePassFirst ==
  /\ pc = "set_ssid"
  /\ IF req = None THEN staged' = staged \o <<<<"pass", None>>, <<"ssid", None>>>>
                   ELSE NvsWrite("ssid", req)
  /\ pc' = "set_pass"
  /\ UNCHANGED <<nvs, ram, sampling, req, sets, mayInterval, mayPair, halfSet>>

WriteSsid ==
  /\ pc = "set_ssid"
  /\ NvsWrite("ssid", req)
  /\ pc' = "set_pass"
  /\ UNCHANGED <<nvs, ram, sampling, req, sets, mayInterval, mayPair, halfSet>>

WritePass ==
  /\ pc = "set_pass"
  /\ NvsWrite("pass", req)
  /\ pc' = "commit_wifi"
  /\ UNCHANGED <<nvs, ram, sampling, req, sets, mayInterval, mayPair, halfSet>>

CommitWifi ==
  /\ pc = "commit_wifi"
  /\ Committed
  /\ mayPair' = {<<req, req>>} /\ halfSet' = {}
  /\ pc' = "idle"
  /\ UNCHANGED <<ram, sampling, req, sets, mayInterval>>

(***************************************************************************)
(* A power cut, and settings_init and sampler_init after it.               *)
(***************************************************************************)
PowerCut ==
  /\ pc # "off"
  /\ \E n \in 0 .. Len(staged) : nvs' = Apply(SubSeq(staged, 1, n), nvs)
  /\ staged' = <<>>
  /\ pc' = "off" /\ req' = None
  /\ UNCHANGED <<ram, sampling, sets, mayInterval, mayPair, halfSet>>

\* A partition that has no free page left, or that another version wrote, is erased first.
Boot ==
  /\ pc = "off"
  /\ nvs' \in {nvs, [key \in Keys |-> None]}
  /\ ram' = IF nvs'.interval = None THEN IntervalDefault ELSE nvs'.interval
  /\ sampling' = ram'
  /\ pc' = "idle"
  /\ mayInterval' = {nvs'.interval} /\ mayPair' = {<<nvs'.ssid, nvs'.pass>>}
  /\ halfSet' = halfSet \cap {nvs'.ssid}
  /\ UNCHANGED <<staged, req, sets>>

Next ==
  \/ SetInterval \/ WriteInterval \/ CommitInterval \/ ApplyInterval
  \/ SetWifi \/ Forget \/ WriteSsid \/ WritePass \/ CommitWifi
  \/ Refuse \/ PowerCut \/ Boot

Spec == Init /\ [][Next]_vars

(***************************************************************************)
(* Properties                                                              *)
(***************************************************************************)
TypeOK ==
  /\ nvs \in Store
  /\ staged \in Seq(Keys \X (Accepted \cup Networks \cup {None}))
  /\ ram \in Accepted \cup {IntervalDefault} /\ sampling \in Accepted \cup {IntervalDefault}
  /\ pc \in {"off", "idle", "set_interval", "commit_interval", "apply",
             "set_ssid", "set_pass", "commit_wifi"}
  /\ req \in Accepted \cup Networks \cup {None}
  /\ sets \in 0 .. MaxSets
  /\ mayInterval \subseteq Accepted \cup {None}
  /\ mayPair \subseteq (Networks \cup {None}) \X (Networks \cup {None})
  /\ halfSet \subseteq Networks

\* An interval that was replied to with ok is the one the device boots with, until
\* another set_interval is tried.
KnownInterval == nvs.interval \in mayInterval

\* Credentials replied to with ok are those the device boots with, until others are
\* tried.  A forget that does not get through leaves a network its password or takes it away,
\* and never makes the device try it as an open one.  Only a set_wifi that does not get through
\* may: its ssid is then stored with the password of before, or with none (settings.c:64).
KnownNetwork ==
  /\ <<nvs.ssid, nvs.pass>> \in mayPair
  /\ nvs.ssid \in {None, nvs.pass} \cup halfSet

\* What a set_interval was answered ok for is in force everywhere: the sampler
\* keeps it, get_status reports it and the next boot will read it.
AnsweredIsInForce ==
  \A s \in mayInterval : pc = "idle" /\ mayInterval = {s} =>
    ram = sampling /\ ram = (IF s = None THEN IntervalDefault ELSE s)

\* The interval that get_status reports is the one the sampler keeps
\* ("current sampling interval", docs/protocol.md).
ReportedIsKept == pc = "idle" => ram = sampling
================================================================================
