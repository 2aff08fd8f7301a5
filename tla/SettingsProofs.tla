---------------------------- MODULE SettingsProofs ----------------------------
(***************************************************************************)
(* For any intervals, networks and number of commands: what is stored, and *)
(* what is in force, is what the replies say.                              *)
(***************************************************************************)
EXTENDS Settings, WellFoundedInduction, TLAPS

(***************************************************************************)
(* What a sequence of writes leaves in the store.                          *)
(***************************************************************************)
Value == Nat \cup Networks \cup {None}
Write == Keys \X Value
Stores == [Keys -> Value]

\* The last of some places in a sequence.
LEMMA LastExists ==
  ASSUME NEW L \in Nat, NEW P \in SUBSET (1 .. L), P # {}
  PROVE \E n \in P : \A m \in P : m <= n
  <1> DEFINE R == OpToRel(<, Nat)
             S == {L - n : n \in P}
  <1>1. IsWellFoundedOn(R, Nat)
    BY NatLessThanWellFounded
  <1>2. ASSUME NEW m \in Nat, NEW n \in Nat, m < n PROVE <<m, n>> \in R
    BY <1>2 DEF OpToRel
  <1>3. S \in SUBSET Nat /\ S # {}
    <2>1. \A n \in P : L - n \in Nat
      OBVIOUS
    <2> QED BY <2>1
  <1> HIDE DEF R
  <1>4. PICK d \in S : \A m \in S : ~(<<m, d>> \in R)
    <2> HIDE DEF S
    <2> QED BY <1>1, <1>3, WFMin
  <1>5. PICK n \in P : d = L - n
    BY <1>4
  <1>6. ASSUME NEW m \in P PROVE m <= n
    <2>1. ~(<<L - m, d>> \in R) /\ L - m \in Nat /\ d \in Nat
      BY <1>3, <1>4
    <2>2. ~(L - m < d)
      BY <1>2, <2>1
    <2> QED BY <1>5, <2>2
  <1> QED BY <1>6

LEMMA LastWrite ==
  ASSUME NEW w \in Seq(Write), NEW key, WritesOf(key, w) # {}
  PROVE /\ LastWriteOf(key, w) \in WritesOf(key, w)
        /\ \A m \in WritesOf(key, w) : m <= LastWriteOf(key, w)
  <1>1. Len(w) \in Nat /\ WritesOf(key, w) \in SUBSET (1 .. Len(w))
    BY DEF WritesOf
  <1>2. \E n \in WritesOf(key, w) : \A m \in WritesOf(key, w) : m <= n
    BY <1>1, LastExists
  <1> QED BY <1>2 DEF LastWriteOf

LEMMA ApplyNone == ASSUME NEW store \in Stores PROVE Apply(<<>>, store) = store
  BY DEF Apply, WritesOf, Stores

LEMMA Appended ==
  ASSUME NEW w \in Seq(Write), NEW e \in Write
  PROVE  /\ Append(w, e) \in Seq(Write) /\ Len(Append(w, e)) = Len(w) + 1 /\ Len(w) \in Nat
         /\ \A n \in 1 .. Len(w) : Append(w, e)[n] = w[n]
         /\ Append(w, e)[Len(w) + 1] = e
  OBVIOUS

\* One more write.
LEMMA ApplyOne ==
  ASSUME NEW w \in Seq(Write), NEW store \in Stores, NEW key \in Keys, NEW value \in Value
  PROVE Apply(Append(w, <<key, value>>), store) = [Apply(w, store) EXCEPT ![key] = value]
  <1> DEFINE e == <<key, value>>
             v == Append(w, e)
  <1>1. e \in Write /\ e[1] = key /\ e[2] = value
    BY DEF Write
  <1>2. /\ v \in Seq(Write) /\ Len(v) = Len(w) + 1 /\ Len(w) \in Nat
        /\ \A n \in 1 .. Len(w) : v[n] = w[n]
        /\ v[Len(w) + 1] = e
    BY <1>1, Appended
  <1> HIDE DEF v, e
  <1>3. WritesOf(key, v) # {} /\ v[LastWriteOf(key, v)][2] = value
    <2>1. Len(w) + 1 \in WritesOf(key, v)
      BY <1>1, <1>2 DEF WritesOf
    <2>2. LastWriteOf(key, v) = Len(w) + 1
      BY <1>2, <2>1, LastWrite DEF WritesOf
    <2> QED BY <1>1, <1>2, <2>1, <2>2
  <1>4. ASSUME NEW other \in Keys, other # key
        PROVE /\ WritesOf(other, v) = WritesOf(other, w)
              /\ WritesOf(other, w) # {} =>
                   v[LastWriteOf(other, v)] = w[LastWriteOf(other, w)]
    <2>1. WritesOf(other, v) = WritesOf(other, w)
      BY <1>1, <1>2, <1>4 DEF WritesOf
    <2>2. LastWriteOf(other, v) = LastWriteOf(other, w)
      BY <2>1 DEF LastWriteOf
    <2>3. WritesOf(other, w) # {} => LastWriteOf(other, w) \in 1 .. Len(w)
      BY LastWrite DEF WritesOf
    <2> QED BY <1>2, <2>1, <2>2, <2>3
  <1> QED BY <1>3, <1>4 DEF Apply, v, e

LEMMA ApplyType ==
  ASSUME NEW w \in Seq(Write), NEW store \in Stores
  PROVE Apply(w, store) \in Stores
  <1> SUFFICES ASSUME NEW key \in Keys, WritesOf(key, w) # {}
               PROVE w[LastWriteOf(key, w)][2] \in Value
    BY DEF Apply, Stores
  <1>1. LastWriteOf(key, w) \in 1 .. Len(w)
    BY LastWrite DEF WritesOf
  <1> QED BY <1>1 DEF Write

LEMMA Prefixes ==
  ASSUME NEW w \in Seq(Write), NEW e \in Write
  PROVE /\ \A n \in 0 .. Len(w) : /\ SubSeq(w, 1, n) \in Seq(Write)
                                 /\ SubSeq(Append(w, e), 1, n) = SubSeq(w, 1, n)
        /\ SubSeq(w, 1, Len(w)) = w
        /\ SubSeq(Append(w, e), 1, Len(w) + 1) = Append(w, e)
        /\ SubSeq(w, 1, 0) = <<>>
  OBVIOUS

(***************************************************************************)
(* What may be stored, whichever of the writes a power cut keeps.          *)
(***************************************************************************)
Types ==
  /\ nvs \in Stores /\ staged \in Seq(Write) /\ req \in Value
  /\ mayInterval \subseteq Nat \cup {None}

May(store) == store.interval \in mayInterval /\ <<store.ssid, store.pass>> \in mayPair

Kept(n) == Apply(SubSeq(staged, 1, n), nvs)
Full == Apply(staged, nvs)

\* What the replies allow covers each outcome of a power cut.
Covered == \A n \in 0 .. Len(staged) : May(Kept(n))

\* Where a command under way stands.
UnderWay ==
  /\ pc \in {"off", "apply"} => staged = <<>>
  /\ pc \in {"set_interval", "commit_interval", "apply"} =>
       req \in mayInterval /\ req \in Nat /\ ram = req
  /\ pc \in {"commit_interval", "apply"} => Full.interval = req
  /\ pc = "set_ssid" => <<req, Full.pass>> \in mayPair
  /\ pc \in {"set_ssid", "set_pass"} => <<req, req>> \in mayPair
  /\ pc \in {"set_pass", "commit_wifi"} => Full.ssid = req
  /\ pc = "commit_wifi" => Full.pass = req

\* The intervals in use are among those that may be stored.
InUse(s) == IF s = None THEN IntervalDefault ELSE s
InForce ==
  /\ \E s \in mayInterval : sampling = InUse(s)
  /\ \E s \in mayInterval : ram = InUse(s)

KnownInv == Types /\ Covered /\ UnderWay /\ InForce

LEMMA FullIs ==
  ASSUME Types
  PROVE /\ Len(staged) \in Nat /\ Kept(0) = nvs /\ Kept(Len(staged)) = Full /\ Full \in Stores
        /\ \A n \in 0 .. Len(staged) : Kept(n) \in Stores
        /\ Covered => May(nvs) /\ May(Full)
  <1>1. <<"ssid", None>> \in Write
    BY DEF Write, Keys, Value
  <1>2. /\ \A n \in 0 .. Len(staged) : SubSeq(staged, 1, n) \in Seq(Write)
        /\ SubSeq(staged, 1, Len(staged)) = staged /\ SubSeq(staged, 1, 0) = <<>>
    BY <1>1, Prefixes DEF Types
  <1>3. Len(staged) \in Nat
    BY DEF Types
  <1>4. /\ Kept(0) = nvs /\ Kept(Len(staged)) = Full /\ Full \in Stores
        /\ \A n \in 0 .. Len(staged) : Kept(n) \in Stores
    BY <1>2, ApplyNone, ApplyType DEF Types, Kept, Full
  <1> QED BY <1>3, <1>4 DEF Covered

\* An NVS call that writes.
LEMMA WriteCovers ==
  ASSUME Types, Covered, NEW key \in Keys, NEW value \in Value, NvsWrite(key, value),
         UNCHANGED <<nvs, mayInterval, mayPair>>, May([Full EXCEPT ![key] = value])
  PROVE staged' \in Seq(Write) /\ Covered' /\ Full' = [Full EXCEPT ![key] = value]
  <1> DEFINE e == <<key, value>>
  <1>1. staged \in Seq(Write) /\ nvs \in Stores /\ e \in Write /\ staged' = Append(staged, e)
    BY DEF Types, Write, NvsWrite
  <1>2. staged' \in Seq(Write) /\ Len(staged') = Len(staged) + 1 /\ Len(staged) \in Nat
    BY <1>1, Appended
  <1>3. Full' = [Full EXCEPT ![key] = value]
    BY <1>1, ApplyOne DEF Full
  <1>4. ASSUME NEW n \in 0 .. Len(staged') PROVE May(Kept(n))'
    <2>1. CASE n \in 0 .. Len(staged)
      <3>1. SubSeq(staged', 1, n) = SubSeq(staged, 1, n)
        BY <1>1, <2>1, Prefixes
      <3> QED BY <2>1, <3>1 DEF Covered, Kept, May
    <2>2. CASE n = Len(staged) + 1
      <3>1. SubSeq(staged', 1, n) = staged'
        BY <1>1, <2>2, Prefixes
      <3>2. Kept(n)' = Full'
        BY <3>1 DEF Kept, Full
      <3> QED BY <1>3, <3>2 DEF May
    <2> QED BY <1>2, <2>1, <2>2
  <1> QED BY <1>2, <1>3, <1>4 DEF Covered

\* A command that begins, or is given up: more may be stored than before.
LEMMA MoreCovers ==
  ASSUME Covered, UNCHANGED <<nvs, staged>>,
         mayInterval \subseteq mayInterval', mayPair \subseteq mayPair'
  PROVE Covered' /\ Full' = Full
  BY DEF Covered, Kept, Full, May

\* Nothing is on its way to the flash.
LEMMA SettledCovers ==
  ASSUME staged' = <<>>, nvs' \in Stores,
         nvs'.interval \in mayInterval', <<nvs'.ssid, nvs'.pass>> \in mayPair'
  PROVE Covered' /\ Full' = nvs' /\ staged' \in Seq(Write)
  <1>1. Len(staged') = 0 /\ SubSeq(staged', 1, 0) = <<>> /\ staged' \in Seq(Write)
    OBVIOUS
  <1>2. Apply(<<>>, nvs') = nvs'
    BY ApplyNone
  <1>3. Kept(0)' = nvs' /\ Full' = nvs'
    BY <1>1, <1>2 DEF Kept, Full
  <1> QED BY <1>1, <1>3 DEF Covered, May

(***************************************************************************)
(* Each step.                                                              *)
(***************************************************************************)
LEMMA KnownInit == Init => KnownInv
  <1> SUFFICES ASSUME Init PROVE KnownInv
    OBVIOUS
  <1>1. /\ nvs \in Stores /\ nvs.interval = None /\ staged = <<>> /\ staged \in Seq(Write)
        /\ mayInterval = {None} /\ mayPair = {<<nvs.ssid, nvs.pass>>} /\ pc = "idle"
        /\ req = None /\ ram = IntervalDefault /\ sampling = IntervalDefault
    BY DEF Init, Stores, Keys, Value
  <1>2. Types
    BY <1>1 DEF Types, Value
  <1>3. Covered
    <2>1. Len(staged) = 0 /\ Kept(0) = nvs
      BY <1>1, <1>2, FullIs
    <2> QED BY <1>1, <2>1 DEF Covered, May
  <1> QED BY <1>1, <1>2, <1>3 DEF KnownInv, UnderWay, InForce, InUse

LEMMA IntervalSteps ==
  KnownInv /\ (SetInterval \/ WriteInterval \/ CommitInterval \/ ApplyInterval) => KnownInv'
  <1> SUFFICES ASSUME KnownInv,
                      SetInterval \/ WriteInterval \/ CommitInterval \/ ApplyInterval
               PROVE KnownInv'
    OBVIOUS
  <1> USE DEF KnownInv
  <1>1. CASE SetInterval
    <2>1. PICK s \in Intervals : ram' = s /\ req' = s /\ mayInterval' = mayInterval \cup {s}
      BY <1>1 DEF SetInterval
    <2>2. s \in Nat /\ s # None
      BY IntervalsAssumption, SetsAssumption
    <2>3. /\ pc' = "set_interval" /\ UNCHANGED <<nvs, staged, sampling, mayPair>>
      BY <1>1 DEF SetInterval
    <2>4. Covered'
      BY <2>1, <2>3, MoreCovers
    <2>5. Types'
      BY <2>1, <2>2, <2>3 DEF Types, Value
    <2> QED BY <2>1, <2>2, <2>3, <2>4, <2>5 DEF UnderWay, InForce, InUse
  <1>2. CASE WriteInterval
    <2>1. /\ pc = "set_interval" /\ pc' = "commit_interval" /\ NvsWrite("interval", req)
          /\ UNCHANGED <<nvs, ram, sampling, req, mayInterval, mayPair>>
      BY <1>2 DEF WriteInterval
    <2>2. /\ "interval" \in Keys /\ req \in Value /\ req \in mayInterval /\ req \in Nat
          /\ ram = req /\ Full \in Stores /\ May(Full)
      BY <2>1, FullIs DEF UnderWay, Keys, Types
    <2>3. May([Full EXCEPT !["interval"] = req])
      BY <2>2 DEF May, Stores, Keys
    <2>4. staged' \in Seq(Write) /\ Covered' /\ Full' = [Full EXCEPT !["interval"] = req]
      BY <2>1, <2>2, <2>3, WriteCovers
    <2>5. Full'.interval = req
      BY <2>2, <2>4 DEF Stores
    <2> QED BY <2>1, <2>2, <2>4, <2>5 DEF Types, UnderWay, InForce
  <1>3. CASE CommitInterval
    <2>1. /\ pc = "commit_interval" /\ pc' = "apply" /\ nvs' = Full /\ staged' = <<>>
          /\ UNCHANGED <<ram, sampling, req, mayInterval, mayPair>>
      BY <1>3 DEF CommitInterval, Committed, Full
    <2>2. Full \in Stores /\ May(Full)
      BY FullIs
    <2>3. Covered' /\ Full' = nvs' /\ staged' \in Seq(Write)
      BY <2>1, <2>2, SettledCovers DEF May
    <2> QED BY <2>1, <2>2, <2>3 DEF Types, UnderWay, InForce
  <1>4. CASE ApplyInterval
    <2>1. /\ pc = "apply" /\ pc' = "idle" /\ sampling' = req /\ mayInterval' = {req}
          /\ UNCHANGED <<nvs, staged, ram, req, mayPair>>
      BY <1>4 DEF ApplyInterval
    <2>2. staged = <<>> /\ req \in Nat /\ req # None /\ ram = req /\ Full.interval = req
      BY <2>1, SetsAssumption DEF UnderWay
    <2>3. nvs \in Stores /\ Full = nvs /\ May(nvs)
      BY <2>2, FullIs, ApplyNone DEF Types, Full
    <2>4. Covered'
      BY <2>1, <2>2, <2>3, SettledCovers DEF May
    <2> QED BY <2>1, <2>2, <2>4 DEF Types, UnderWay, InForce, InUse
  <1> QED BY <1>1, <1>2, <1>3, <1>4

LEMMA WifiSteps ==
  KnownInv /\ (SetWifi \/ Forget \/ WriteSsid \/ WritePass \/ CommitWifi) => KnownInv'
  <1> SUFFICES ASSUME KnownInv, SetWifi \/ Forget \/ WriteSsid \/ WritePass \/ CommitWifi
               PROVE KnownInv'
    OBVIOUS
  <1> USE DEF KnownInv
  <1>0. Full \in Stores /\ May(Full)
    BY FullIs
  <1>1. CASE SetWifi \/ Forget
    <2>1. PICK n \in Networks \cup {None} :
            req' = n /\ mayPair' = mayPair \cup {<<n, p>> : p \in Passwords \cup {n}}
      BY <1>1 DEF SetWifi, Forget
    <2>2. pc' = "set_ssid" /\ UNCHANGED <<nvs, staged, ram, sampling, mayInterval>>
      BY <1>1 DEF SetWifi, Forget
    <2>3. Covered' /\ Full' = Full
      BY <2>1, <2>2, MoreCovers
    <2>4. Full.pass \in Passwords
      BY <1>0 DEF May, Passwords
    <2>5. <<n, Full.pass>> \in mayPair' /\ <<n, n>> \in mayPair'
      BY <2>1, <2>4
    <2> QED BY <2>1, <2>2, <2>3, <2>5 DEF Types, Value, UnderWay, InForce
  <1>2. CASE WriteSsid
    <2>1. /\ pc = "set_ssid" /\ pc' = "set_pass" /\ NvsWrite("ssid", req)
          /\ UNCHANGED <<nvs, ram, sampling, req, mayInterval, mayPair>>
      BY <1>2 DEF WriteSsid
    <2>2. /\ "ssid" \in Keys /\ req \in Value
          /\ <<req, Full.pass>> \in mayPair /\ <<req, req>> \in mayPair
      BY <2>1 DEF UnderWay, Keys, Types
    <2>3. May([Full EXCEPT !["ssid"] = req])
      BY <1>0, <2>2 DEF May, Stores, Keys
    <2>4. staged' \in Seq(Write) /\ Covered' /\ Full' = [Full EXCEPT !["ssid"] = req]
      BY <2>1, <2>2, <2>3, WriteCovers
    <2>5. Full'.ssid = req
      BY <1>0, <2>2, <2>4 DEF Stores
    <2> QED BY <2>1, <2>2, <2>4, <2>5 DEF Types, UnderWay, InForce
  <1>3. CASE WritePass
    <2>1. /\ pc = "set_pass" /\ pc' = "commit_wifi" /\ NvsWrite("pass", req)
          /\ UNCHANGED <<nvs, ram, sampling, req, mayInterval, mayPair>>
      BY <1>3 DEF WritePass
    <2>2. "pass" \in Keys /\ req \in Value /\ Full.ssid = req /\ <<req, req>> \in mayPair
      BY <2>1 DEF UnderWay, Keys, Types
    <2>3. May([Full EXCEPT !["pass"] = req])
      BY <1>0, <2>2 DEF May, Stores, Keys
    <2>4. staged' \in Seq(Write) /\ Covered' /\ Full' = [Full EXCEPT !["pass"] = req]
      BY <2>1, <2>2, <2>3, WriteCovers
    <2>5. Full'.pass = req /\ Full'.ssid = req
      BY <1>0, <2>2, <2>4 DEF Stores, Keys
    <2> QED BY <2>1, <2>2, <2>4, <2>5 DEF Types, UnderWay, InForce
  <1>4. CASE CommitWifi
    <2>1. /\ pc = "commit_wifi" /\ pc' = "idle" /\ nvs' = Full /\ staged' = <<>>
          /\ mayPair' = {<<req, req>>} /\ UNCHANGED <<ram, sampling, req, mayInterval>>
      BY <1>4 DEF CommitWifi, Committed, Full
    <2>2. Full.ssid = req /\ Full.pass = req
      BY <2>1 DEF UnderWay
    <2>3. Covered' /\ staged' \in Seq(Write)
      BY <1>0, <2>1, <2>2, SettledCovers DEF May
    <2> QED BY <1>0, <2>1, <2>3 DEF Types, UnderWay, InForce
  <1> QED BY <1>1, <1>2, <1>3, <1>4

LEMMA OtherSteps == KnownInv /\ (Refuse \/ PowerCut \/ Boot \/ UNCHANGED vars) => KnownInv'
  <1> SUFFICES ASSUME KnownInv, Refuse \/ PowerCut \/ Boot \/ UNCHANGED vars PROVE KnownInv'
    OBVIOUS
  <1> USE DEF KnownInv
  <1>1. CASE Refuse
    <2>1. pc' = "idle" /\ UNCHANGED <<nvs, staged, ram, sampling, req, mayInterval, mayPair>>
      BY <1>1 DEF Refuse
    <2>2. Covered'
      BY <2>1, MoreCovers
    <2> QED BY <2>1, <2>2 DEF Types, UnderWay, InForce
  <1>2. CASE PowerCut
    <2>1. PICK n \in 0 .. Len(staged) : nvs' = Kept(n)
      BY <1>2 DEF PowerCut, Kept
    <2>2. /\ staged' = <<>> /\ pc' = "off" /\ req' = None
          /\ UNCHANGED <<ram, sampling, mayInterval, mayPair>>
      BY <1>2 DEF PowerCut
    <2>3. nvs' \in Stores /\ May(Kept(n))
      BY <2>1, FullIs DEF Covered
    <2>4. Covered' /\ staged' \in Seq(Write)
      BY <2>1, <2>2, <2>3, SettledCovers DEF May
    <2> QED BY <2>2, <2>3, <2>4 DEF Types, Value, UnderWay, InForce
  <1>3. CASE Boot
    <2>1. /\ pc = "off" /\ staged = <<>> /\ nvs \in Stores /\ May(nvs)
      BY <1>3, FullIs DEF Boot, UnderWay, Types
    <2>2. /\ nvs' \in {nvs, [key \in Keys |-> None]}
          /\ ram' = (IF nvs'.interval = None THEN IntervalDefault ELSE nvs'.interval)
          /\ sampling' = ram' /\ pc' = "idle" /\ mayInterval' = {nvs'.interval}
          /\ mayPair' = {<<nvs'.ssid, nvs'.pass>>} /\ UNCHANGED <<staged, req>>
      BY <1>3 DEF Boot
    <2>3. nvs' \in Stores /\ nvs'.interval \in Nat \cup {None}
      BY <2>1, <2>2 DEF Stores, Value, May, Types, Keys
    <2>4. Covered'
      BY <2>1, <2>2, <2>3, SettledCovers
    <2>5. Types'
      BY <2>1, <2>2, <2>3 DEF Types
    <2>6. InForce'
      BY <2>2 DEF InForce, InUse
    <2> QED BY <2>1, <2>2, <2>4, <2>5, <2>6 DEF UnderWay
  <1>4. CASE UNCHANGED vars
    BY <1>4 DEF vars, Types, Covered, UnderWay, InForce, Kept, Full, May
  <1> QED BY <1>1, <1>2, <1>3, <1>4

LEMMA KnownStep == KnownInv /\ [Next]_vars => KnownInv'
  BY IntervalSteps, WifiSteps, OtherSteps DEF Next

(***************************************************************************)
(* Half done commands.                                                     *)
(***************************************************************************)
\* A network is held possible with another password than its own, or with none, only while a
\* set_wifi for it may be half done.
HalfInv == \A pair \in mayPair : pair[1] \in {None, pair[2]} \cup halfSet

LEMMA HalfInit == Init => HalfInv
  BY DEF Init, HalfInv

LEMMA HalfStep == KnownInv /\ HalfInv /\ [Next]_vars => HalfInv'
  <1> SUFFICES ASSUME KnownInv, HalfInv, [Next]_vars PROVE HalfInv'  OBVIOUS
  <1> USE DEF HalfInv
  <1>1. CASE UNCHANGED <<mayPair, halfSet>>  BY <1>1
  <1>2. CASE SetWifi
    <2>1. PICK network \in Networks :
            /\ mayPair' = mayPair \cup {<<network, p>> : p \in Passwords \cup {network}}
            /\ halfSet' = halfSet \cup {network}
      BY <1>2 DEF SetWifi
    <2> QED  BY <2>1
  <1>3. CASE Forget
    <2>1. /\ mayPair' = mayPair \cup {<<None, p>> : p \in Passwords \cup {None}}
          /\ halfSet' = halfSet
      BY <1>3 DEF Forget
    <2> QED  BY <2>1
  <1>4. CASE CommitWifi  BY <1>4 DEF CommitWifi
  <1>5. CASE Boot
    <2>1. <<nvs.ssid, nvs.pass>> \in mayPair /\ nvs \in Stores
      BY FullIs DEF KnownInv, May, Types
    <2>2. nvs' = nvs \/ nvs'.ssid = None  BY <1>5 DEF Boot, Keys
    <2>3. nvs'.ssid \in {None, nvs'.pass} \cup halfSet  BY <2>1, <2>2
    <2> QED  BY <1>5, <2>3 DEF Boot
  <1>6. CASE UNCHANGED vars  BY <1>6, <1>1 DEF vars
  <1>7. CASE SetInterval \/ WriteInterval \/ CommitInterval \/ ApplyInterval
    BY <1>7, <1>1 DEF SetInterval, WriteInterval, CommitInterval, ApplyInterval
  <1>8. CASE WriteSsid \/ WritePass \/ Refuse \/ PowerCut
    BY <1>8, <1>1 DEF WriteSsid, WritePass, Refuse, PowerCut
  <1> QED  BY <1>2, <1>3, <1>4, <1>5, <1>6, <1>7, <1>8 DEF Next

(***************************************************************************)
(* The theorems.                                                           *)
(***************************************************************************)
LEMMA KnownIs ==
  /\ KnownInv => KnownInterval /\ AnsweredIsInForce
  /\ KnownInv /\ HalfInv => KnownNetwork
  <1> SUFFICES ASSUME KnownInv
               PROVE  KnownInterval /\ AnsweredIsInForce /\ (HalfInv => KnownNetwork)
    OBVIOUS
  <1>1. KnownInterval /\ (HalfInv => KnownNetwork)
    BY FullIs DEF KnownInv, HalfInv, May, KnownInterval, KnownNetwork
  <1>2. AnsweredIsInForce
    BY DEF KnownInv, InForce, InUse, AnsweredIsInForce
  <1> QED BY <1>1, <1>2

\* Whatever call of NVS is refused or cut off, the next boot reads the interval that was last
\* answered ok, or one that was tried since (settings.c, settings_set_interval_s).
THEOREM IntervalIsKnown == Spec => []KnownInterval
  BY KnownInit, KnownStep, KnownIs, PTL DEF Spec

\* So it does of the network.  A forget that is refused or cut off never leaves an ssid without
\* the password it had: only a network whose own set_wifi was begun and did not get through is
\* stored with the password of before, or with none, which the next boot then tries
\* (settings.c, settings_set_wifi_credentials).
THEOREM NetworkIsKnown == Spec => []KnownNetwork
  BY KnownInit, KnownStep, HalfInit, HalfStep, KnownIs, PTL DEF Spec

\* What was answered ok is what the sampler keeps and get_status reports
\* (app-main.c, op_set_interval_s).
THEOREM AnswerHolds == Spec => []AnsweredIsInForce
  BY KnownInit, KnownStep, KnownIs, PTL DEF Spec
===============================================================================
