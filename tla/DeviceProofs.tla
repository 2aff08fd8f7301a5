----------------------------- MODULE DeviceProofs -----------------------------
(***************************************************************************)
(* What runs on the device's main loop.  For lines, chunks, polls and      *)
(* replies of any length: the protocol gets exactly the lines that were    *)
(* sent, and a reading is of the caller's own measurement.  For any raw    *)
(* value of the sensor's operating range: the compensation fits into 32    *)
(* bits, the record holds what was measured, and its CRC shows damage.     *)
(***************************************************************************)
EXTENDS MainLoop, Measurement, SequenceTheorems, NaturalsInduction, WellFoundedInduction, TLAPS

\* The line as far as it fits, and whether it went on.
LineInv ==
  /\ typed \in Nat /\ typed <= MaxLine + 1
  /\ line = Whole(IF typed < MaxLine THEN typed ELSE MaxLine - 1)
  /\ overflow <=> typed >= MaxLine

LEMMA WholeLength == ASSUME NEW n \in Nat PROVE Len(Whole(n)) = n /\ (Whole(n) = <<>> <=> n = 0)
  BY DEF Whole

LEMMA WholeGrows == ASSUME NEW n \in Nat PROVE Append(Whole(n), n + 1) = Whole(n + 1)
  BY DEF Whole

LEMMA LineInvInit == LineInit => LineInv
  BY MaxLineAssumption DEF LineInit, LineInv, Whole

LEMMA CharacterKeeps == LineInv /\ Character => LineInv'
  <1> SUFFICES ASSUME LineInv, Character PROVE LineInv'  OBVIOUS
  <1>1. CASE typed < MaxLine - 1
    <2>1. typed' = typed + 1 /\ line' = Append(Whole(typed), typed + 1) /\ UNCHANGED overflow
      BY <1>1, WholeLength, MaxLineAssumption DEF LineInv, Character
    <2> QED  BY <1>1, <2>1, WholeGrows, MaxLineAssumption DEF LineInv
  <1>2. CASE typed >= MaxLine - 1
    <2>1. line' = line /\ overflow' = TRUE /\ typed' = IF typed <= MaxLine THEN typed + 1 ELSE typed
      BY <1>2, WholeLength, MaxLineAssumption DEF LineInv, Character
    <2> QED  BY <1>2, <2>1, MaxLineAssumption DEF LineInv
  <1> QED  BY <1>1, <1>2, MaxLineAssumption DEF LineInv

LEMMA EndOfLineKeeps == LineInv /\ EndOfLine => LineInv'
  BY MaxLineAssumption DEF LineInv, EndOfLine, Whole

LEMMA LineInvStep == LineInv /\ [Next]_vars => LineInv'
  <1> SUFFICES ASSUME LineInv, [Next]_vars PROVE LineInv'  OBVIOUS
  <1>1. CASE Character  BY <1>1, CharacterKeeps
  <1>2. CASE EndOfLine  BY <1>2, EndOfLineKeeps
  <1>3. CASE UNCHANGED <<typed, line, overflow>>  BY <1>3 DEF LineInv
  <1>4. Character \/ EndOfLine \/ UNCHANGED <<typed, line, overflow>>
    BY DEF Next, MainStep, vars, lineVars, Boot, Reads, ReadChunk, TakeCharacter, TakeLineEnd, EndChunk,
           MainLocks, HandleReadNow, AnswerReadNow, HandleSetInterval, HandleOther, WritePiece,
           LineDone, NotDue, NoSensor, StartSample, FinishSample, Driver, BusFails, WebRequest,
           WebLocks, WebAnswers, Measured, Pull, Plug, Pass
  <1> QED  BY <1>1, <1>2, <1>3, <1>4

LEMMA LineEnds == LineInv /\ EndOfLine => handled' = IF typed < MaxLine THEN Whole(typed) ELSE <<>>
  BY WholeLength, MaxLineAssumption DEF LineInv, EndOfLine

\* Whatever the host sends and however it is cut into chunks, the protocol gets every line that
\* fits into the buffer, whole, and nothing of any other (app-main.c:150).
THEOREM LinesAreExact == Spec => ExactlyTheLines
  <1>1. Init => LineInv  BY LineInvInit DEF Init
  <1>2. LineInv /\ [Next]_vars => LineInv'  BY LineInvStep
  <1>3. LineInv => [EndOfLine => handled' = IF typed < MaxLine THEN Whole(typed) ELSE <<>>]_lineVars
    BY LineEnds
  <1> QED  BY <1>1, <1>2, <1>3, PTL DEF Spec, ExactlyTheLines

(***************************************************************************)
(* bme280_read under the device lock.                                      *)
(***************************************************************************)
Steps == {"none", "id", "force", "poll", "data", "ok", "error"}
Calls == [step : Steps, polls : 0 .. MaxPolls, got : Task \cup {"none", "old", "floating"}, calm : BOOLEAN]
Sensors == [wired : BOOLEAN, set : BOOLEAN, measures : Task \cup {"none"}, data : Task \cup {"old"}]

CallTypes == call \in [Task -> Calls] /\ sensor \in Sensors

\* The lock is held by the task whose step says so, and a call is made only under it.
Locked ==
  /\ lock = "main" <=> main \in {"handle", "reading", "reply", "due", "sample"}
  /\ lock = "web" <=> web \in {"handle", "reading"}
  /\ call["main"].step # "none" => main \in {"reading", "sample"}
  /\ call["web"].step # "none" => web = "reading"
  /\ main \in InitSteps \cup {"partition"} => web = "off"

\* A call that nothing disturbs owns the measurement that is under way, or its results.
Owned(t) ==
  call[t].calm =>
    /\ call[t].step \in {"force", "poll", "data"} => sensor.wired
    /\ call[t].step = "poll" =>
         sensor.measures = t \/ (sensor.measures = "none" /\ sensor.data = t)
    /\ call[t].step = "data" => sensor.measures = "none" /\ sensor.data = t
    /\ call[t].step = "ok" => call[t].got = t

CallInv == CallTypes /\ Locked /\ \A t \in Task : Owned(t)

LEMMA CallInvInit == Init => CallInv
  <1> SUFFICES ASSUME Init PROVE CallInv  OBVIOUS
  <1>1. \A t \in Task : call[t] = NoCall /\ call \in [Task -> {NoCall}]
    BY DEF Init
  <1>2. NoCall \in Calls  BY LoopBounds DEF NoCall, Calls, Steps
  <1>3. CallTypes  BY <1>1, <1>2 DEF Init, CallTypes, Sensors
  <1>4. Locked  BY <1>1 DEF Init, Locked, Task, NoCall, InitSteps
  <1>5. \A t \in Task : Owned(t)  BY <1>1 DEF Owned, NoCall
  <1> QED  BY <1>3, <1>4, <1>5 DEF CallInv

\* Actions that leave the sensor and the calls alone keep types and ownership.
LEMMA SameCalls == CallInv /\ UNCHANGED <<call, sensor>> => CallTypes' /\ \A t \in Task : Owned(t)'
  BY DEF CallInv, CallTypes, Owned

LEMMA BootKeeps == CallInv /\ Boot => CallInv'
  <1> SUFFICES ASSUME CallInv, Boot PROVE CallInv'  OBVIOUS
  <1>1. /\ call["main"].step = "none" /\ call["web"].step = "none" /\ web = "off"
        /\ UNCHANGED <<call, lock>> /\ main \in InitSteps \cup {"partition"}
    BY DEF CallInv, Locked, Boot, InitSensor, InitFails, NoPartition, Start, InitSteps
  <1>2. sensor' \in Sensors
    BY DEF CallInv, CallTypes, Sensors, Boot, InitSensor, InitFails, NoPartition, Start
  <1>3. /\ main' \in InitSteps \cup {"partition", "halted", "read"}
        /\ web' \in {"off", "idle"} /\ (main' \in InitSteps \cup {"partition"} => web' = "off")
    BY <1>1 DEF Boot, InitSensor, InitFails, NoPartition, Start, InitNext, InitSteps
  <1>4. Locked'  BY <1>1, <1>3 DEF CallInv, Locked, InitSteps
  <1>5. \A t \in Task : Owned(t)'  BY <1>1 DEF Owned, Task
  <1> QED  BY <1>1, <1>2, <1>4, <1>5 DEF CallInv, CallTypes

\* What an access of t's call leaves of the calls.
LEMMA GoesOn ==
  ASSUME CallTypes, NEW t \in Task, NEW step \in Steps, Goes(t, step)
  PROVE /\ call' \in [Task -> Calls] /\ call'[t] = [call[t] EXCEPT !.step = step]
        /\ call'[t].step = step /\ call'[t].calm = call[t].calm
        /\ \A u \in Task \ {t} : call'[u] = call[u]
  BY DEF CallTypes, Goes, Calls

LEMMA ReturnsIt ==
  ASSUME CallTypes, NEW t \in Task, NEW how \in Steps, NEW got \in Task \cup {"none", "old", "floating"},
         Returns(t, how, got)
  PROVE /\ call' \in [Task -> Calls]
        /\ call'[t].step = how /\ call'[t].got = got /\ call'[t].calm = call[t].calm
        /\ \A u \in Task \ {t} : call'[u] = call[u]
  BY DEF CallTypes, Returns, Calls

\* While t has a call, the other task has none.
LEMMA OneCall ==
  ASSUME Locked, NEW t \in Task, call[t].step # "none"
  PROVE \A u \in Task \ {t} : call[u].step = "none"
  BY DEF Locked, Task

\* A step of t's call that keeps the types and ownership by t keeps everything.
LEMMA CallStep ==
  ASSUME CallInv, NEW t \in Task, call[t].step # "none", call'[t].step # "none",
         \A u \in Task \ {t} : call'[u] = call[u],
         UNCHANGED <<main, web, lock>>, CallTypes', Owned(t)'
  PROVE CallInv'
  <1>1. \A u \in Task \ {t} : call'[u].step = "none"  BY OneCall DEF CallInv
  <1>2. Locked'  BY <1>1 DEF CallInv, Locked, Task
  <1>3. \A u \in Task : Owned(u)'  BY <1>1 DEF Owned
  <1> QED  BY <1>2, <1>3 DEF CallInv

LEMMA BusFailsKeeps == ASSUME CallInv, NEW t \in Task, BusFails(t) PROVE CallInv'
  <1>1. Returns(t, "error", "none") /\ UNCHANGED <<main, web, lock, sensor>> /\ call[t].step # "none"
    BY DEF BusFails, loopVars
  <1>2. /\ call' \in [Task -> Calls] /\ call'[t].step = "error"
        /\ \A u \in Task \ {t} : call'[u] = call[u]
    BY <1>1, ReturnsIt DEF CallInv, Steps
  <1>3. CallTypes'  BY <1>1, <1>2 DEF CallInv, CallTypes
  <1>4. Owned(t)'  BY <1>2 DEF Owned
  <1> QED  BY <1>1, <1>2, <1>3, <1>4, CallStep

LEMMA DriverKeeps == ASSUME CallInv, NEW t \in Task, Driver(t) PROVE CallInv'
  <1>1. UNCHANGED <<main, web, lock>>  BY DEF Driver, loopVars
  <1>2. CASE ReadId(t)
    <2>1. CASE sensor.wired /\ Goes(t, "force")
      <3>1. /\ call' \in [Task -> Calls] /\ call'[t].step = "force" /\ UNCHANGED sensor
            /\ \A u \in Task \ {t} : call'[u] = call[u]
        BY <1>2, <2>1, GoesOn DEF CallInv, Steps, ReadId
      <3>2. CallTypes' /\ Owned(t)'  BY <2>1, <3>1 DEF CallInv, CallTypes, Owned
      <3> QED  BY <1>1, <1>2, <3>1, <3>2, CallStep DEF ReadId
    <2>2. CASE Returns(t, "error", "none")
      <3>1. /\ call' \in [Task -> Calls] /\ call'[t].step = "error" /\ UNCHANGED sensor
            /\ \A u \in Task \ {t} : call'[u] = call[u]
        BY <1>2, <2>2, ReturnsIt DEF CallInv, Steps, ReadId
      <3>2. CallTypes' /\ Owned(t)'  BY <3>1 DEF CallInv, CallTypes, Owned
      <3> QED  BY <1>1, <1>2, <3>1, <3>2, CallStep DEF ReadId
    <2> QED  BY <1>2, <2>1, <2>2 DEF ReadId
  <1>3. CASE ForceMeasurement(t)
    <2>1. /\ call' \in [Task -> Calls] /\ call'[t].step = "poll" /\ call'[t].calm = call[t].calm
          /\ \A u \in Task \ {t} : call'[u] = call[u]
      BY <1>3, GoesOn DEF CallInv, Steps, ForceMeasurement
    <2>2. /\ sensor' \in Sensors /\ sensor'.wired = sensor.wired
          /\ sensor.wired => sensor'.measures = t
      BY <1>3 DEF CallInv, CallTypes, Sensors, ForceMeasurement, Aged
    <2>3. CallTypes'  BY <2>1, <2>2 DEF CallTypes
    <2>4. Owned(t)'  BY <1>3, <2>1, <2>2 DEF CallInv, Owned, ForceMeasurement
    <2> QED  BY <1>1, <1>3, <2>1, <2>3, <2>4, CallStep DEF ForceMeasurement
  <1>4. CASE Poll(t)
    <2>1. UNCHANGED sensor /\ call[t].step = "poll"  BY <1>4 DEF Poll
    <2>2. CASE Goes(t, "data") /\ (~sensor.wired \/ sensor.measures = "none")
      <3>1. /\ call' \in [Task -> Calls] /\ call'[t].step = "data" /\ call'[t].calm = call[t].calm
            /\ \A u \in Task \ {t} : call'[u] = call[u]
        BY <2>2, GoesOn DEF CallInv, Steps
      <3>2. CallTypes'  BY <2>1, <3>1 DEF CallInv, CallTypes
      <3>3. Owned(t)'  BY <2>1, <2>2, <3>1 DEF CallInv, Owned, Task
      <3> QED  BY <1>1, <2>1, <3>1, <3>2, <3>3, CallStep
    <2>3. CASE Returns(t, "error", "none")
      <3>1. /\ call' \in [Task -> Calls] /\ call'[t].step = "error"
            /\ \A u \in Task \ {t} : call'[u] = call[u]
        BY <2>3, ReturnsIt DEF CallInv, Steps
      <3>2. CallTypes' /\ Owned(t)'  BY <2>1, <3>1 DEF CallInv, CallTypes, Owned
      <3> QED  BY <1>1, <2>1, <3>1, <3>2, CallStep
    <2>4. CASE call[t].polls # MaxPolls /\ call' = [call EXCEPT ![t].polls = @ + 1]
      <3>1. /\ call' = [call EXCEPT ![t] = [call[t] EXCEPT !.polls = call[t].polls + 1]]
            /\ call[t] \in Calls
        BY <2>4 DEF CallInv, CallTypes
      <3>2. call[t].polls + 1 \in 0 .. MaxPolls  BY <2>4, <3>1, LoopBounds DEF Calls
      <3>3. /\ call' \in [Task -> Calls] /\ call'[t].step = "poll" /\ call'[t].calm = call[t].calm
            /\ \A u \in Task \ {t} : call'[u] = call[u]
        BY <2>1, <3>1, <3>2 DEF CallInv, CallTypes, Calls
      <3>4. CallTypes' /\ Owned(t)'  BY <2>1, <3>3 DEF CallInv, CallTypes, Owned
      <3> QED  BY <1>1, <2>1, <3>3, <3>4, CallStep
    <2> QED  BY <1>4, <2>2, <2>3, <2>4 DEF Poll
  <1>5. CASE ReadData(t)
    <2> DEFINE got == IF sensor.wired THEN sensor.data ELSE "floating"
    <2>1. got \in Task \cup {"none", "old", "floating"}
      BY DEF CallInv, CallTypes, Sensors
    <2>2. /\ call' \in [Task -> Calls] /\ call'[t].step = "ok" /\ call'[t].got = got
          /\ call'[t].calm = call[t].calm /\ \A u \in Task \ {t} : call'[u] = call[u]
      BY <1>5, <2>1, ReturnsIt DEF CallInv, Steps, ReadData
    <2>3. CallTypes'  BY <1>5, <2>2 DEF CallInv, CallTypes, ReadData
    <2>4. Owned(t)'  BY <1>5, <2>2 DEF CallInv, Owned, ReadData
    <2> QED  BY <1>1, <1>5, <2>2, <2>3, <2>4, CallStep DEF ReadData
  <1> QED  BY <1>2, <1>3, <1>4, <1>5 DEF Driver

LEMMA SensorKeeps == CallInv /\ (Measured \/ Pull \/ Plug) => CallInv'
  <1> SUFFICES ASSUME CallInv, Measured \/ Pull \/ Plug PROVE CallInv'  OBVIOUS
  <1>1. UNCHANGED <<main, web, lock>>  BY DEF Measured, Pull, Plug, loopVars
  <1>2. CASE Measured
    <2>1. /\ UNCHANGED call /\ sensor' \in Sensors /\ sensor'.wired = sensor.wired
          /\ sensor'.measures = "none" /\ sensor'.data = sensor.measures /\ sensor.measures # "none"
      BY <1>2 DEF CallInv, CallTypes, Sensors, Measured
    <2>2. Locked'  BY <1>1, <2>1 DEF CallInv, Locked
    <2>3. \A t \in Task : Owned(t)'  BY <2>1 DEF CallInv, Owned
    <2> QED  BY <2>1, <2>2, <2>3 DEF CallInv, CallTypes
  <1>3. CASE Disturb /\ sensor' \in Sensors
    <2>1. \A t \in Task : call[t] \in Calls /\ call'[t] = [call[t] EXCEPT !.calm = call[t].step = "none"]
      BY <1>3 DEF CallInv, CallTypes, Disturb
    <2>2. call' \in [Task -> Calls]
      <3>1. \A t \in Task : [call[t] EXCEPT !.calm = call[t].step = "none"] \in Calls
        BY <2>1, Zenon DEF Calls
      <3> QED  BY <1>3, <3>1, Zenon DEF Disturb
    <2>3. \A t \in Task : call'[t].step = call[t].step
      BY <2>1 DEF Calls
    <2>4. \A t \in Task : call'[t].calm => call[t].step = "none"
      BY <2>1, Zenon DEF Calls
    <2>5. Locked'  BY <1>1, <2>3 DEF CallInv, Locked, Task
    <2>6. \A t \in Task : Owned(t)'
      <3>1. ASSUME NEW t \in Task, call'[t].calm PROVE call'[t].step = "none"
        BY <2>3, <2>4, <3>1
      <3> QED  BY <3>1 DEF Owned
    <2> QED  BY <1>3, <2>2, <2>5, <2>6 DEF CallInv, CallTypes
  <1>4. CASE Pull
    <2>1. Disturb  BY <1>4 DEF Pull
    <2>2. sensor' \in Sensors
      <3>1. CASE sensor' = [sensor EXCEPT !.wired = FALSE]
        BY <3>1 DEF CallInv, CallTypes, Sensors
      <3>2. CASE sensor' = [wired |-> FALSE, set |-> FALSE, measures |-> "none", data |-> "old"]
        BY <3>2, Zenon DEF Sensors
      <3> QED  BY <1>4, <3>1, <3>2 DEF Pull
    <2> QED  BY <1>3, <2>1, <2>2
  <1>5. CASE Plug
    <2>1. Disturb  BY <1>5 DEF Plug
    <2>2. sensor' \in Sensors  BY <1>5 DEF CallInv, CallTypes, Sensors, Plug
    <2> QED  BY <1>3, <2>1, <2>2
  <1> QED  BY <1>2, <1>4, <1>5

\* Steps of the main loop that touch neither the calls nor the sensor.
LEMMA LoopKeeps ==
  CallInv /\ (Reads \/ MainLocks \/ HandleSetInterval \/ HandleOther \/ WritePiece \/ LineDone
               \/ NotDue \/ NoSensor)
    => CallInv'
  <1> SUFFICES ASSUME CallInv, Reads \/ MainLocks \/ HandleSetInterval \/ HandleOther \/ WritePiece
                                 \/ LineDone \/ NotDue \/ NoSensor
               PROVE CallInv'
    OBVIOUS
  <1> USE DEF Locked, InitSteps
  <1>1. UNCHANGED <<call, sensor, web>>
    BY DEF Reads, MainLocks, HandleSetInterval, HandleOther, WritePiece, LineDone, NotDue, NoSensor
  <1>2. CASE Reads
    <2>1. UNCHANGED lock /\ main \in {"read", "chars"} /\ main' \in {"chars", "line", "tick"}
      BY <1>2 DEF Reads, ReadChunk, TakeCharacter, TakeLineEnd, EndChunk
    <2> QED  BY <1>1, <2>1, SameCalls DEF CallInv
  <1>3. CASE MainLocks  BY <1>1, <1>3, SameCalls DEF CallInv, MainLocks
  <1>4. CASE HandleSetInterval \/ HandleOther \/ WritePiece
    <2>1. UNCHANGED lock /\ main \in {"handle", "reply"} /\ main' = "reply"
      BY <1>4 DEF HandleSetInterval, HandleOther, WritePiece, Reply
    <2> QED  BY <1>1, <2>1, SameCalls DEF CallInv
  <1>5. CASE LineDone \/ NotDue \/ NoSensor
    <2>1. lock' = "free" /\ main \in {"reply", "due"} /\ main' \in {"chars", "read"}
      BY <1>5 DEF LineDone, NotDue, NoSensor, TickDone
    <2> QED  BY <1>1, <2>1, SameCalls DEF CallInv
  <1> QED  BY <1>2, <1>3, <1>4, <1>5

\* A call begins or ends: it is new, or none is left.
LEMMA CallMade ==
  ASSUME CallInv, NEW t \in Task, NEW c \in {NoCall, NewCall}, call' = [call EXCEPT ![t] = c],
         UNCHANGED sensor
  PROVE /\ CallTypes' /\ (\A u \in Task : Owned(u)')
        /\ call'[t] = c /\ \A u \in Task \ {t} : call'[u] = call[u]
  <1>1. NoCall \in Calls /\ NoCall.step = "none"
    BY LoopBounds DEF NoCall, Calls, Steps
  <1>2. NewCall \in Calls /\ NewCall.step = "id"
    BY <1>1 DEF NoCall, NewCall, Calls, Steps
  <1>3. c \in Calls /\ c.step \in {"none", "id"}
    BY <1>1, <1>2
  <1>4. /\ call' \in [Task -> Calls] /\ call'[t] = c
        /\ \A u \in Task \ {t} : call'[u] = call[u]
    BY <1>3 DEF CallInv, CallTypes
  <1>5. CallTypes'  BY <1>4 DEF CallInv, CallTypes
  <1>6. Owned(t)'  BY <1>3, <1>4 DEF Owned
  <1>7. \A u \in Task \ {t} : Owned(u)'  BY <1>4 DEF CallInv, Owned
  <1> QED  BY <1>4, <1>5, <1>6, <1>7

LEMMA MainCallsKeep ==
  CallInv /\ (HandleReadNow \/ AnswerReadNow \/ StartSample \/ FinishSample) => CallInv'
  <1> SUFFICES ASSUME CallInv, HandleReadNow \/ AnswerReadNow \/ StartSample \/ FinishSample
               PROVE CallInv'
    OBVIOUS
  <1> USE DEF Locked, InitSteps, NoCall, NewCall
  <1>1. UNCHANGED <<web, sensor>>
    BY DEF HandleReadNow, AnswerReadNow, StartSample, FinishSample
  <1>2. CASE (HandleReadNow /\ main' = "reading") \/ StartSample
    <2>1. /\ call' = [call EXCEPT !["main"] = NewCall] /\ UNCHANGED lock
          /\ main \in {"handle", "due"} /\ main' \in {"reading", "sample"}
      BY <1>2 DEF HandleReadNow, StartSample, Reply
    <2>2. CallTypes' /\ (\A u \in Task : Owned(u)') /\ call'["web"] = call["web"]
      BY <1>1, <2>1, CallMade DEF Task
    <2> QED  BY <1>1, <2>1, <2>2 DEF CallInv
  <1>3. CASE HandleReadNow /\ main' # "reading"
    <2>1. UNCHANGED <<call, lock>> /\ main = "handle" /\ main' = "reply"
      BY <1>3 DEF HandleReadNow, Reply
    <2> QED  BY <1>1, <2>1, SameCalls DEF CallInv
  <1>4. CASE AnswerReadNow \/ FinishSample
    <2>1. /\ call' = [call EXCEPT !["main"] = NoCall]
          /\ \/ lock' = lock /\ main = "reading" /\ main' = "reply"
             \/ lock' = "free" /\ main = "sample" /\ main' = "read"
      BY <1>4 DEF AnswerReadNow, FinishSample, Reply, TickDone
    <2>2. /\ CallTypes' /\ (\A u \in Task : Owned(u)')
          /\ call'["web"] = call["web"] /\ call'["main"] = NoCall
      BY <1>1, <2>1, CallMade DEF Task
    <2> QED  BY <1>1, <2>1, <2>2 DEF CallInv
  <1> QED  BY <1>2, <1>3, <1>4

LEMMA WebKeeps == CallInv /\ (WebRequest \/ WebLocks \/ WebAnswers) => CallInv'
  <1> SUFFICES ASSUME CallInv, WebRequest \/ WebLocks \/ WebAnswers PROVE CallInv'  OBVIOUS
  <1> USE DEF Locked, InitSteps, NoCall, NewCall, loopVars
  <1>1. UNCHANGED <<main, sensor>>  BY DEF WebRequest, WebLocks, WebAnswers
  <1>2. CASE WebRequest
    <2>1. UNCHANGED <<call, lock>> /\ web = "idle" /\ web' \in {"read_now", "other"}
      BY <1>2 DEF WebRequest
    <2> QED  BY <1>1, <2>1, SameCalls DEF CallInv
  <1>3. CASE WebLocks /\ web' = "reading"
    <2>1. /\ call' = [call EXCEPT !["web"] = NewCall] /\ lock = "free" /\ lock' = "web"
          /\ web \in {"read_now", "other"}
      BY <1>3 DEF WebLocks
    <2>2. CallTypes' /\ (\A u \in Task : Owned(u)') /\ call'["main"] = call["main"]
      BY <1>1, <2>1, CallMade DEF Task
    <2> QED  BY <1>1, <1>3, <2>1, <2>2 DEF CallInv
  <1>4. CASE WebLocks /\ web' # "reading"
    <2>1. /\ UNCHANGED call /\ lock = "free" /\ lock' = "web"
          /\ web \in {"read_now", "other"} /\ web' = "handle"
      BY <1>4 DEF WebLocks
    <2> QED  BY <1>1, <2>1, SameCalls DEF CallInv
  <1>5. CASE WebAnswers
    <2>1. /\ call' = [call EXCEPT !["web"] = NoCall] /\ web \in {"handle", "reading"}
          /\ lock' = "free" /\ web' = "idle"
      BY <1>5 DEF WebAnswers
    <2>2. /\ CallTypes' /\ (\A u \in Task : Owned(u)')
          /\ call'["main"] = call["main"] /\ call'["web"] = NoCall
      BY <1>1, <2>1, CallMade DEF Task
    <2> QED  BY <1>1, <2>1, <2>2 DEF CallInv
  <1> QED  BY <1>2, <1>3, <1>4, <1>5

LEMMA CallInvStep == CallInv /\ [Next]_vars => CallInv'
  <1> SUFFICES ASSUME CallInv, [Next]_vars PROVE CallInv'  OBVIOUS
  <1>1. CASE UNCHANGED vars
    <2>1. UNCHANGED <<main, web, lock, call, sensor>>  BY <1>1 DEF vars, loopVars
    <2> QED  BY <2>1, SameCalls DEF CallInv, Locked
  <1>2. CASE MainStep  BY <1>2, BootKeeps, LoopKeeps, MainCallsKeep DEF MainStep
  <1>3. CASE \E t \in Task : Driver(t) \/ BusFails(t)  BY <1>3, DriverKeeps, BusFailsKeeps
  <1>4. CASE Measured \/ Pull \/ Plug  BY <1>4, SensorKeeps
  <1>5. CASE WebRequest \/ WebLocks \/ WebAnswers  BY <1>5, WebKeeps
  <1>6. CASE MainLocks  BY <1>6, LoopKeeps
  <1>7. CASE Pass
    <2>1. UNCHANGED <<main, web, lock, call, sensor>>  BY <1>7 DEF Pass, loopVars
    <2> QED  BY <2>1, SameCalls DEF CallInv, Locked
  <1> QED  BY <1>1, <1>2, <1>3, <1>4, <1>5, <1>6, <1>7 DEF Next

\* Two tasks, a sensor that comes and goes, buses that fail and measurements that outlive their
\* call: a reading is of the measurement that its own call forced, if the sensor stayed where it
\* was during that call (bme280.c:40, web.c:54).
THEOREM ReadingIsOwn == Spec => []OwnReading
  <1>1. Init => CallInv  BY CallInvInit
  <1>2. CallInv /\ [Next]_vars => CallInv'  BY CallInvStep
  <1>3. CallInv => OwnReading  BY DEF CallInv, Owned, OwnReading
  <1> QED  BY <1>1, <1>2, <1>3, PTL DEF Spec

\* Main loop and httpd task are never in the driver at once (app-main.c:153).
THEOREM OneInTheDriver ==
  Spec => [](call["main"].step = "none" \/ call["web"].step = "none")
  <1>1. Init => CallInv  BY CallInvInit
  <1>2. CallInv /\ [Next]_vars => CallInv'  BY CallInvStep
  <1>3. CallInv => call["main"].step = "none" \/ call["web"].step = "none"
    BY DEF CallInv, Locked
  <1> QED  BY <1>1, <1>2, <1>3, PTL DEF Spec

(***************************************************************************)
(* Numbers: the least and the greatest of some.                            *)
(***************************************************************************)
LEMMA LeastExists ==
  ASSUME NEW S \in SUBSET Nat, S # {}
  PROVE \E n \in S : \A m \in S : n <= m
  <1> DEFINE R == OpToRel(<, Nat)
  <1>1. IsWellFoundedOn(R, Nat)
    BY NatLessThanWellFounded
  <1>2. ASSUME NEW m \in Nat, NEW n \in Nat, m < n PROVE <<m, n>> \in R
    BY <1>2 DEF OpToRel
  <1> HIDE DEF R
  <1>3. PICK n \in S : \A m \in S : ~(<<m, n>> \in R)
    BY <1>1, WFMin
  <1>4. ASSUME NEW m \in S PROVE n <= m
    <2>1. ~(<<m, n>> \in R) /\ m \in Nat /\ n \in Nat
      BY <1>3
    <2>2. ~(m < n)
      BY <2>1, <1>2
    <2> QED BY <2>1, <2>2
  <1> QED BY <1>3, <1>4

\* Min and Max where an element is known that no other passes.
LEMMA MinIs ==
  ASSUME NEW S \in SUBSET Int, NEW m \in S, \A n \in S : m <= n
  PROVE Min(S) = m
  <1>1. \A x \in S : (\A y \in S : x =< y) => x = m
    OBVIOUS
  <1> QED BY <1>1 DEF Min

LEMMA MaxIs ==
  ASSUME NEW S \in SUBSET Int, NEW m \in S, \A n \in S : n <= m
  PROVE Max(S) = m
  <1>1. \A x \in S : (\A y \in S : x >= y) => x = m
    OBVIOUS
  <1> QED BY <1>1 DEF Max

LEMMA LeastIsOne ==
  ASSUME NEW S \in SUBSET Nat, S # {}
  PROVE Min(S) \in S
  <1>1. PICK n \in S : \A m \in S : n <= m
    BY LeastExists
  <1> QED BY <1>1 DEF Min

(***************************************************************************)
(* Products within 32 bits.                                                *)
(***************************************************************************)
\* A number no further from zero than some bound.
Within(x, bound) == x \in Int /\ -bound <= x /\ x <= bound

Between(low, x, high) == x \in Int /\ low <= x /\ x <= high

LEMMA ProductFits ==
  ASSUME NEW a \in Nat, NEW b \in Nat, NEW x, Within(x, a), NEW y, Within(y, b), a * b <= MaxInt
  PROVE Fits(x, y) /\ Mul(x, y) = x * y /\ Within(x * y, a * b)
  <1>1. x \in Int /\ -a <= x /\ x <= a /\ y \in Int /\ -b <= y /\ y <= b
    BY DEF Within
  <1>2. Magnitude(x) \in Nat /\ Magnitude(x) <= a /\ Magnitude(y) \in Nat /\ Magnitude(y) <= b
        /\ (y # 0 => Magnitude(y) > 0)
    BY <1>1 DEF Magnitude
  <1>3. \A m \in Nat, n \in Nat : m <= a /\ n <= b => m * n <= a * b
    OBVIOUS
  <1>4. Magnitude(x) * Magnitude(y) <= MaxInt
    BY <1>2, <1>3 DEF MaxInt
  <1>5. \A m \in Nat, n \in Nat : n > 0 /\ m * n <= MaxInt => m <= MaxInt \div n
    <2> SUFFICES ASSUME NEW m \in Nat, NEW n \in Nat, n > 0, m * n <= MaxInt PROVE m <= MaxInt \div n
      OBVIOUS
    <2> QED BY DEF MaxInt
  <1>6. Fits(x, y)
    BY <1>2, <1>4, <1>5 DEF Fits
  <1>7. \A m \in Int, n \in Int : -a <= m /\ m <= a /\ -b <= n /\ n <= b => -(a * b) <= m * n /\ m * n <= a * b
    OBVIOUS
  <1> QED BY <1>1, <1>6, <1>7 DEF Mul, Within

LEMMA ProductIsZero ==
  ASSUME NEW x \in Int
  PROVE /\ Fits(x, 0) /\ Mul(x, 0) = 0
        /\ Fits(0, x) /\ Mul(0, x) = 0
  BY DEF Fits, Mul, Magnitude, MaxInt

LEMMA SquareFits ==
  ASSUME NEW a \in Nat, NEW x, Within(x, a), a * a <= MaxInt
  PROVE Fits(x, x) /\ Square(x) = x * x /\ Between(0, x * x, a * a)
  <1>1. Fits(x, x) /\ Mul(x, x) = x * x
    BY ProductFits
  <1>2. \A m \in Int : -a <= m /\ m <= a => m * m \in 0 .. a * a
    OBVIOUS
  <1> QED BY <1>1, <1>2 DEF Square, Within, Between

LEMMA SharesWithin ==
  ASSUME NEW a \in Nat, NEW d \in Nat \ {0}, NEW x, Within(x, a)
  PROVE Within(x \div d, a \div d + 1)
  <1>1. x \in Int /\ -a <= x /\ x <= a
    BY DEF Within
  <1>2. \A y \in Int : d * (y \div d) <= y /\ y < d * (y \div d) + d /\ y \div d \in Int
    OBVIOUS
  <1>3. PICK q \in Int : q = x \div d
    BY <1>1, <1>2
  <1>4. PICK e \in Int : e = a \div d
    BY <1>2
  <1>5. d * q <= x /\ x < d * q + d /\ d * e <= a /\ a < d * e + d
    BY <1>1, <1>2, <1>3, <1>4
  <1>6. d * q < d * e + d /\ -(d * e + d) < d * q + d
    BY <1>1, <1>5
  <1>7. q <= e
    <2>1. q > e => d * q >= d * e + d
      OBVIOUS
    <2> QED BY <1>6, <2>1
  <1>8. -e - 1 <= q
    <2>1. q < -e - 1 => d * q + d <= -(d * e + d)
      OBVIOUS
    <2> QED BY <1>6, <2>1
  <1> QED BY <1>3, <1>4, <1>7, <1>8 DEF Within

(***************************************************************************)
(* The calibrations.                                                       *)
(***************************************************************************)
\* The coefficients of the calibrations with a sensor, and those without.
Fitted(c) ==
  /\ c.t1 = 27504 /\ c.t2 = 26435 /\ c.t3 = -1000 /\ c.p1 = 36477
  /\ c.p[2] = -10685 /\ c.p[3] = 3024 /\ c.p[4] = 2855 /\ c.p[5] = 140 /\ c.p[6] = -7 /\ c.p[7] = 15500
  /\ c.p[8] = -14600 /\ c.p[9] = 6000
  /\ c.h1 = 75 /\ c.h2 = 367 /\ c.h3 \in 0 .. 18 /\ c.h4 = 301 /\ Within(c.h5, 50) /\ Within(c.h6, 30)

Zeroed(c) ==
  /\ c.t1 = 0 /\ c.t2 = 0 /\ c.t3 = 0 /\ c.p1 = 0 /\ \A n \in 2 .. 9 : c.p[n] = 0
  /\ c.h1 = 0 /\ c.h2 = 0 /\ c.h3 = 0 /\ c.h4 = 0 /\ c.h5 = 0 /\ c.h6 = 0

LEMMA CalibrationsAre == \A c \in Calibrations : Fitted(c) \/ Zeroed(c)
  <1>1. ASSUME NEW a, NEW b PROVE
          LET c == ParseCalib(a, b)
          IN /\ c.t1 = U16(a, 1) /\ c.t2 = S16(a, 3) /\ c.t3 = S16(a, 5) /\ c.p1 = U16(a, 7)
             /\ c.h1 = a[26] /\ c.h2 = S16(b, 1) /\ c.h3 = b[3]
             /\ c.h4 = Twelve(b[4], b[5] % 16) /\ c.h5 = Twelve(b[6], b[5] \div 16) /\ c.h6 = Signed(b[7], 256)
    BY DEF ParseCalib
  <1>2. ASSUME NEW a, NEW b PROVE
          LET p == ParseCalib(a, b).p
          IN /\ p[2] = S16(a, 9) /\ p[3] = S16(a, 11) /\ p[4] = S16(a, 13) /\ p[5] = S16(a, 15)
             /\ p[6] = S16(a, 17) /\ p[7] = S16(a, 19) /\ p[8] = S16(a, 21) /\ p[9] = S16(a, 23)
    BY DEF ParseCalib
  <1>3. /\ U16(Calib1, 1) = 27504 /\ S16(Calib1, 3) = 26435 /\ S16(Calib1, 5) = -1000 /\ U16(Calib1, 7) = 36477
        /\ S16(Calib1, 9) = -10685 /\ S16(Calib1, 11) = 3024 /\ S16(Calib1, 13) = 2855 /\ S16(Calib1, 15) = 140
        /\ S16(Calib1, 17) = -7 /\ S16(Calib1, 19) = 15500 /\ S16(Calib1, 21) = -14600 /\ S16(Calib1, 23) = 6000
        /\ Calib1[26] = 75
    BY DEF Calib1, U16, S16, Signed
  <1>4. Fitted(ParseCalib(Calib1, Calib2))
    <2>1. /\ S16(Calib2, 1) = 367 /\ Calib2[3] = 18 /\ Twelve(Calib2[4], Calib2[5] % 16) = 301
          /\ Twelve(Calib2[6], Calib2[5] \div 16) = 50 /\ Signed(Calib2[7], 256) = 30
      BY DEF Calib2, U16, S16, Signed, Twelve
    <2> QED BY <1>1, <1>2, <1>3, <2>1 DEF Fitted, Within
  <1>5. Fitted(ParseCalib(Calib1, <<111, 1, 0, 18, 45, 255, 226>>))
    <2> DEFINE b == <<111, 1, 0, 18, 45, 255, 226>>
    <2>1. /\ S16(b, 1) = 367 /\ b[3] = 0 /\ Twelve(b[4], b[5] % 16) = 301
          /\ Twelve(b[6], b[5] \div 16) = -14 /\ Signed(b[7], 256) = -30
      BY DEF U16, S16, Signed, Twelve
    <2> QED BY <1>1, <1>2, <1>3, <2>1 DEF Fitted, Within
  <1>6. Zeroed(ParseCalib([n \in 1 .. 26 |-> 0], [n \in 1 .. 7 |-> 0]))
    <2> DEFINE a == [n \in 1 .. 26 |-> 0]
               b == [n \in 1 .. 7 |-> 0]
    <2>1. /\ U16(a, 1) = 0 /\ U16(a, 7) = 0 /\ S16(a, 3) = 0 /\ S16(a, 5) = 0
          /\ S16(a, 9) = 0 /\ S16(a, 11) = 0 /\ S16(a, 13) = 0 /\ S16(a, 15) = 0
          /\ S16(a, 17) = 0 /\ S16(a, 19) = 0 /\ S16(a, 21) = 0 /\ S16(a, 23) = 0 /\ a[26] = 0
      BY DEF U16, S16, Signed
    <2>2. /\ S16(b, 1) = 0 /\ b[3] = 0 /\ Twelve(b[4], b[5] % 16) = 0
          /\ Twelve(b[6], b[5] \div 16) = 0 /\ Signed(b[7], 256) = 0
      BY DEF U16, S16, Signed, Twelve
    <2> HIDE DEF a, b
    <2>3. \A n \in 2 .. 9 : ParseCalib(a, b).p[n] = 0
      <3>1. \A n \in 2 .. 9 : n = 2 \/ n = 3 \/ n = 4 \/ n = 5 \/ n = 6 \/ n = 7 \/ n = 8 \/ n = 9
        OBVIOUS
      <3> QED BY <1>2, <2>1, <3>1
    <2> QED BY <1>1, <2>1, <2>2, <2>3 DEF Zeroed, a, b
  <1> QED BY <1>4, <1>5, <1>6 DEF Calibrations

(***************************************************************************)
(* The compensation, step by step, between bounds.                         *)
(***************************************************************************)
AllFit(products) == \A pair \in products : Fits(pair[1], pair[2])

InRange(raw) ==
  Between(313800, raw.t, 710000) /\ Between(300000, raw.p, 861000) /\ Between(0, raw.h, 65535)

LEMMA FineFits ==
  ASSUME NEW c, Fitted(c), NEW raw, InRange(raw)
  PROVE AllFit(Fine(c, raw).products) /\ Between(-207966, Fine(c, raw).value, 435533)
  <1> DEFINE coarse == raw.t \div 8 - 2 * c.t1
             offset == raw.t \div 16 - c.t1
             bent == Square(offset) \div 4096
  <1>1. Fine(c, raw) = [value |-> Mul(coarse, c.t2) \div 2048 + Mul(bent, c.t3) \div 16384,
                        products |-> {<<coarse, c.t2>>, <<offset, offset>>, <<bent, c.t3>>}]
    BY SMT DEF Fine
  <1>3. Within(coarse, 33742) /\ -15783 <= coarse
    BY SMT DEF InRange, Fitted, Within, Between
  <1>4. Within(offset, 16871)
    BY SMT DEF InRange, Fitted, Within, Between
  <1> HIDE DEF coarse
  <1>5. Fits(offset, offset) /\ Square(offset) = offset * offset /\ Between(0, offset * offset, 284630641)
    BY SMT, <1>4, SquareFits DEF MaxInt, Between
  <1>7. Between(0, bent, 69489)
    BY SMT, <1>5 DEF Between
  <1> HIDE DEF offset, bent
  <1>8. Fits(coarse, c.t2) /\ Mul(coarse, c.t2) = coarse * 26435
    <2>1. Within(26435, 26435) /\ c.t2 = 26435
      BY SMT DEF Within, Fitted
    <2> QED BY SMT, <1>3, <2>1, ProductFits DEF MaxInt
  <1>9. Fits(bent, c.t3) /\ Mul(bent, c.t3) = bent * (-1000)
    <2>1. Within(bent, 69489) /\ Within(-1000, 1000) /\ c.t3 = -1000
      BY SMT, <1>7 DEF Within, Fitted, Between
    <2> QED BY SMT, <2>1, ProductFits DEF MaxInt
  <1>11. Between(-207966, (coarse * 26435) \div 2048 + (bent * (-1000)) \div 16384, 435533)
    BY SMT, <1>3, <1>7 DEF Within, Between
  <1> QED BY SMT, <1>5, <1>8, <1>9, <1>1, <1>11 DEF AllFit

LEMMA ShareBounds ==
  ASSUME NEW q \in Nat, NEW v \in Nat \ {0}, NEW low \in Nat, NEW high \in Nat,
         low * v <= q, q < high * v
  PROVE q \div v \in Nat /\ low <= q \div v /\ q \div v < high
        /\ q % v \in Nat /\ q % v < v
  <1>1. PICK d \in Int : d = q \div v
    BY SMT
  <1>2. v * d <= q /\ q < v * d + v
    BY SMT, <1>1
  <1>3. d < low => v * d + v <= low * v
    BY SMT
  <1>4. d >= high => v * d >= high * v
    BY SMT
  <1> QED BY SMT, <1>1, <1>2, <1>3, <1>4

\* The quotient of the pressure formula, whichever way it is halved.
LEMMA HalvedIs ==
  ASSUME NEW q \in Nat, NEW v \in Nat \ {0}, NEW low \in Nat, NEW high \in Nat,
         low * v <= q, q < high * v
  PROVE Between(6250 * low, Halved(q, v), 6250 * high)
  <1>1. PICK d \in Nat : d = q \div v /\ low <= d /\ d < high
    BY SMT, ShareBounds
  <1>2. PICK r \in Nat : r = q % v /\ r < v
    BY SMT, ShareBounds
  <1> DEFINE rest(k) == (r * k) \div v
  <1>3. \A k \in Nat : Between(0, rest(k), k)
    <2> SUFFICES ASSUME NEW k \in Nat PROVE Between(0, rest(k), k)
      BY SMT
    <2>1. r * k <= k * v /\ r * k \in Nat
      BY SMT, <1>2
    <2>2. PICK m \in Nat : m = r * k
      BY SMT, <2>1
    <2>3. PICK e \in Int : e = m \div v
      BY SMT, <2>2
    <2>4. v * e <= m /\ m < v * e + v
      BY SMT, <2>3
    <2>5. e <= k
      <3>1. e > k => v * e >= k * v + v
        BY SMT
      <3> QED BY SMT, <2>1, <2>2, <2>4, <3>1
    <2>6. e >= 0
      <3>1. e < 0 => v * e + v <= 0
        BY SMT
      <3> QED BY SMT, <2>4, <3>1
    <2> QED BY SMT, <2>2, <2>3, <2>5, <2>6 DEF Between
  <1>4. Between(0, rest(6250), 6250) /\ Between(0, rest(3125), 3125)
    <2> HIDE DEF rest
    <2> QED BY <1>3
  <1>5. Halved(q, v) = IF q <= 687194 THEN d * 6250 + rest(6250)
                       ELSE 2 * (d * 3125 + rest(3125))
    BY SMT, <1>1, <1>2 DEF Halved
  <1> HIDE DEF rest
  <1> QED BY SMT, <1>1, <1>4, <1>5 DEF Between

Pascals(x) == Between(0, x, 150000)

\* The pressure, from the quotient that Halved gives of q and the divisor; f is t_fine.
OffsetOf(c, f) ==
  LET t == f \div 2 - 64000
      curve == Square(t \div 4) \div 2048
  IN (Mul(curve, c.p[6]) + 2 * Mul(t, c.p[5])) \div 4 + c.p[4] * 65536

DivisorOf(c, f) ==
  LET t == f \div 2 - 64000
      bend == Square(t \div 4) \div 8192
      scale == (Mul(c.p[3], bend) \div 8 + Mul(c.p[2], t) \div 2) \div 262144
  IN Mul(32768 + scale, c.p1) \div 32768

Corrected(p) ==
  p + (((((p \div 8) * (p \div 8)) \div 8192) * 6000) \div 4096 + ((p \div 4) * (-14600)) \div 8192 + 15500) \div 16

PressureIs(c, raw) ==
  LET f == Fine(c, raw).value
      q == 1048576 - raw.p - OffsetOf(c, f) \div 4096
  IN /\ OffsetOf(c, f) \in Int /\ q \in Nat /\ DivisorOf(c, f) \in Nat \ {0}
     /\ Between(18750, Halved(q, DivisorOf(c, f)), 137500)
     /\ Pressure(c, raw).value = Corrected(Halved(q, DivisorOf(c, f)))

\* The pressure's products fit, and its difference does not wrap.
LEMMA PressureFits ==
  ASSUME NEW c, Fitted(c), NEW raw, InRange(raw)
  PROVE /\ AllFit(Pressure(c, raw).products) /\ Pressure(c, raw).wraps = FALSE
        /\ Pascals(Pressure(c, raw).value) /\ PressureIs(c, raw)
  <1> DEFINE t == Fine(c, raw).value \div 2 - 64000
             quarter == t \div 4
             curve == Square(quarter) \div 2048
             bend == Square(quarter) \div 8192
             offset == (Mul(curve, c.p[6]) + 2 * Mul(t, c.p[5])) \div 4 + c.p[4] * 65536
             scale == (Mul(c.p[3], bend) \div 8 + Mul(c.p[2], t) \div 2) \div 262144
             divisor == Mul(32768 + scale, c.p1) \div 32768
             q == 1048576 - raw.p - offset \div 4096
             p == Halved(q, divisor)
             square == Square(p \div 8) \div 8192
  <1>1. Pressure(c, raw) =
          IF divisor = 0 THEN [value |-> 0, products |-> {}, wraps |-> FALSE]
          ELSE [value |-> p + (Mul(c.p[9], square) \div 4096 + Mul(p \div 4, c.p[8]) \div 8192 + c.p[7]) \div 16,
                products |-> {<<quarter, quarter>>, <<curve, c.p[6]>>, <<t, 2 * c.p[5]>>, <<c.p[3], bend>>,
                              <<c.p[2], t>>, <<32768 + scale, c.p1>>, <<p \div 8, p \div 8>>,
                              <<c.p[9], square>>, <<p \div 4, c.p[8]>>},
                wraps |-> q < 0]
    BY SMT DEF Pressure
  <1>0. divisor = DivisorOf(c, Fine(c, raw).value) /\ offset = OffsetOf(c, Fine(c, raw).value)
    BY SMT DEF DivisorOf, OffsetOf
  <1>2. /\ c.p1 = 36477 /\ c.p[2] = -10685 /\ c.p[3] = 3024 /\ c.p[4] = 2855 /\ c.p[5] = 140 /\ c.p[6] = -7
        /\ c.p[7] = 15500 /\ c.p[8] = -14600 /\ c.p[9] = 6000
    BY SMT DEF Fitted
  <1>3. Within(t, 167983)
    BY SMT, FineFits DEF Between, Within
  <1> HIDE DEF t
  <1>4. Within(quarter, 41996)
    BY SMT, <1>3 DEF Within
  <1> HIDE DEF quarter
  <1>5. Fits(quarter, quarter) /\ Between(0, Square(quarter), 1763664016)
    BY SMT, <1>4, SquareFits DEF MaxInt, Between
  <1>6. Within(curve, 861164) /\ Within(bend, 215291) /\ bend \in Int
    BY SMT, <1>5 DEF Between, Within
  <1> HIDE DEF curve, bend
  <1>7. Fits(curve, c.p[6]) /\ Within(Mul(curve, c.p[6]), 6028148)
    <2>1. Within(-7, 7)
      BY DEF Within
    <2> QED BY SMT, <1>2, <1>6, <2>1, ProductFits DEF MaxInt
  <1>8. Fits(t, 2 * c.p[5])
    <2>1. Within(280, 280) /\ 2 * c.p[5] = 280
      BY SMT, <1>2 DEF Within
    <2> QED BY SMT, <1>3, <2>1, ProductFits DEF MaxInt
  <1>9. Within(Mul(t, c.p[5]), 23517620)
    <2>1. Within(140, 140)
      BY DEF Within
    <2> QED BY SMT, <1>2, <1>3, <2>1, ProductFits DEF MaxInt
  <1>10. Fits(c.p[3], bend) /\ Within(Mul(c.p[3], bend), 651039984)
    <2>1. Within(3024, 3024) /\ Within(bend, 215291)
      BY SMT, <1>6 DEF Within
    <2>2. Fits(3024, bend) /\ Within(Mul(3024, bend), 3024 * 215291)
      BY SMT, <2>1, ProductFits DEF MaxInt
    <2> QED BY SMT, <1>2, <2>2
  <1>11. Fits(c.p[2], t) /\ Within(Mul(c.p[2], t), 1794898355)
    <2>1. Within(-10685, 10685)
      BY SMT DEF Within
    <2> QED BY SMT, <1>2, <1>3, <2>1, ProductFits DEF MaxInt
  <1>12. Between(173839432, offset, 200371127)
    BY SMT, <1>2, <1>7, <1>9 DEF Between, Within
  <1> HIDE DEF offset
  <1>13. Within(scale, 3735)
    BY SMT, <1>10, <1>11 DEF Within
  <1> HIDE DEF scale
  <1>14. /\ Fits(32768 + scale, c.p1) /\ Mul(32768 + scale, c.p1) = (32768 + scale) * 36477
    <2>1. Within(32768 + scale, 36503) /\ Within(36477, 36477)
      BY SMT, <1>13 DEF Within
    <2> QED BY SMT, <1>2, <2>1, ProductFits DEF MaxInt
  <1>15. Between(32318, divisor, 40635)
    BY SMT, <1>13, <1>14 DEF Within, Between
  <1> HIDE DEF divisor
  <1>16. Between(138656, q, 706135)
    BY SMT, <1>12 DEF InRange, Between
  <1> HIDE DEF q
  <1>17. Between(18750, p, 137500)
    <2>1. q \in Nat /\ divisor \in Nat \ {0} /\ 3 * divisor <= q /\ q < 22 * divisor
      BY SMT, <1>15, <1>16 DEF Between
    <2> DEFINE low == 3
               high == 22
    <2>2. low \in Nat /\ high \in Nat /\ low * divisor <= q /\ q < high * divisor
      BY SMT, <2>1
    <2> HIDE DEF low, high
    <2>3. Between(6250 * low, Halved(q, divisor), 6250 * high)
      BY <2>1, <2>2, HalvedIs
    <2> QED BY SMT, <2>3 DEF Between, low, high
  <1> HIDE DEF p
  <1>18. Within(p \div 8, 17188) /\ Within(p \div 4, 34375)
    BY SMT, <1>17 DEF Between, Within
  <1>19. Fits(p \div 8, p \div 8) /\ Between(0, Square(p \div 8), 295427344)
    BY SMT, <1>18, SquareFits DEF MaxInt, Between
  <1>20. Within(square, 36063)
    BY SMT, <1>19 DEF Between, Within
  <1> HIDE DEF square
  <1>21. Fits(c.p[9], square) /\ Within(Mul(c.p[9], square), 216378000)
    <2>1. Within(6000, 6000)
      BY SMT DEF Within
    <2> QED BY SMT, <1>2, <1>20, <2>1, ProductFits DEF MaxInt
  <1>22. Fits(p \div 4, c.p[8]) /\ Within(Mul(p \div 4, c.p[8]), 501875000)
    <2>1. Within(-14600, 14600)
      BY SMT DEF Within
    <2> QED BY SMT, <1>2, <1>18, <2>1, ProductFits DEF MaxInt
  <1>23. AllFit(Pressure(c, raw).products)
    BY SMT, <1>1, <1>5, <1>7, <1>8, <1>10, <1>11, <1>14, <1>19, <1>21, <1>22 DEF AllFit
  <1>24. Pressure(c, raw).wraps = FALSE
    <2>1. divisor # 0
      BY SMT, <1>15 DEF Between
    <2>2. (q < 0) = FALSE
      BY SMT, <1>16 DEF Between
    <2>3. Pressure(c, raw).wraps = (q < 0)
      BY SMT, <1>1, <2>1
    <2> QED BY <2>2, <2>3
  <1>25. Between(0, Pressure(c, raw).value, 150000)
    <2>1. Pressure(c, raw).value = p + (Mul(c.p[9], square) \div 4096 + Mul(p \div 4, c.p[8]) \div 8192 + c.p[7]) \div 16
      BY SMT, <1>1, <1>15 DEF Between
    <2> QED BY SMT, <1>2, <1>17, <1>21, <1>22, <2>1 DEF Between, Within
  <1>26. Pascals(Pressure(c, raw).value)
    BY SMT, <1>25 DEF Pascals
  <1>27. PressureIs(c, raw)
    <2>1. Fits(p \div 8, p \div 8) /\ Square(p \div 8) = (p \div 8) * (p \div 8)
      BY SMT, <1>18, SquareFits DEF MaxInt
    <2>2. Mul(c.p[9], square) = square * 6000
      BY SMT, <1>2, <1>20, <1>21 DEF Mul, Within
    <2>3. Mul(p \div 4, c.p[8]) = (p \div 4) * (-14600)
      BY SMT, <1>2, <1>18, <1>22 DEF Mul, Within
    <2>4. Pressure(c, raw).value = p + (Mul(c.p[9], square) \div 4096 + Mul(p \div 4, c.p[8]) \div 8192 + c.p[7]) \div 16
      BY SMT, <1>1, <1>15 DEF Between
    <2>5. square = ((p \div 8) * (p \div 8)) \div 8192
      BY SMT, <2>1 DEF square
    <2>6. Pressure(c, raw).value = Corrected(p)
      BY SMT, <1>2, <2>2, <2>3, <2>4, <2>5 DEF Corrected
    <2>7. q \in Nat /\ divisor \in Nat \ {0}
      BY SMT, <1>15, <1>16 DEF Between
    <2>8. q = 1048576 - raw.p - OffsetOf(c, Fine(c, raw).value) \div 4096 /\ p = Halved(q, divisor)
      BY SMT, <1>0 DEF q, p
    <2> DEFINE f == Fine(c, raw).value
    <2>9. /\ Between(18750, Halved(q, DivisorOf(c, f)), 137500)
          /\ Pressure(c, raw).value = Corrected(Halved(q, DivisorOf(c, f)))
          /\ DivisorOf(c, f) \in Nat \ {0}
      BY SMT, <1>0, <1>17, <2>6, <2>7, <2>8
    <2>10. PressureIs(c, raw) <=>
            /\ OffsetOf(c, f) \in Int /\ q \in Nat /\ DivisorOf(c, f) \in Nat \ {0}
            /\ Between(18750, Halved(q, DivisorOf(c, f)), 137500)
            /\ Pressure(c, raw).value = Corrected(Halved(q, DivisorOf(c, f)))
      BY SMT, <2>8 DEF PressureIs
    <2>11. OffsetOf(c, f) \in Int
      BY SMT, <1>0, <1>12 DEF Between
    <2> QED BY SMT, <2>7, <2>9, <2>10, <2>11
  <1> QED BY <1>23, <1>24, <1>26, <1>27

\* The humidity, from the product of the two terms; f is t_fine.
LinearOf(c, f, h) == (h * 16384 - 315621376 - Mul(c.h5, f - 76800) + 16384) \div 32768

SlopeOf(c, f) ==
  LET v == f - 76800
      first == Mul(v, c.h6) \div 1024
      second == Mul(v, c.h3) \div 2048 + 32768
      gain == Mul(first, second) \div 1024 + 2097152
  IN (Mul(gain, c.h2) + 8192) \div 16384

Bent(x) == x - ((((x \div 32768) * (x \div 32768)) \div 128) * 75) \div 16
Limited(y) ==
  (((IF y < 0 THEN 0 ELSE IF y > 419430400 THEN 419430400 ELSE y) \div 4096) * 100 + 512) \div 1024

HumidityIs(c, raw) ==
  LET f == Fine(c, raw).value
  IN /\ Mul(c.h5, f - 76800) \in Int
     /\ Within(LinearOf(c, f, raw.h), 23683)
     /\ Between(38000, SlopeOf(c, f), 55235)
     /\ Humidity(c, raw).value = Limited(Bent(LinearOf(c, f, raw.h) * SlopeOf(c, f)))

\* So do the products of the humidity, which the clamps keep from 0 to 100 percent.
LEMMA HumidityFits ==
  ASSUME NEW c, Fitted(c), NEW raw, InRange(raw)
  PROVE /\ AllFit(Humidity(c, raw).products)
        /\ Between(0, Humidity(c, raw).value, 10000) /\ HumidityIs(c, raw)
  <1> DEFINE v == Fine(c, raw).value - 76800
             linear == (raw.h * 16384 - c.h4 * 1048576 - Mul(c.h5, v) + 16384) \div 32768
             first == Mul(v, c.h6) \div 1024
             second == Mul(v, c.h3) \div 2048 + 32768
             gain == Mul(first, second) \div 1024 + 2097152
             slope == (Mul(gain, c.h2) + 8192) \div 16384
             x == Mul(linear, slope)
             bent == Square(x \div 32768) \div 128
             y == x - Mul(bent, c.h1) \div 16
             inRange == IF y < 0 THEN 0 ELSE IF y > 419430400 THEN 419430400 ELSE y
  <1>1. Humidity(c, raw) =
          [value |-> ((inRange \div 4096) * 100 + 512) \div 1024,
           products |-> {<<c.h5, v>>, <<v, c.h6>>, <<v, c.h3>>, <<first, second>>, <<gain, c.h2>>,
                         <<linear, slope>>, <<x \div 32768, x \div 32768>>, <<bent, c.h1>>}]
    BY SMT DEF Humidity
  <1>0. /\ linear = LinearOf(c, Fine(c, raw).value, raw.h)
        /\ slope = SlopeOf(c, Fine(c, raw).value)
    <2>1. c.h4 * 1048576 = 315621376
      BY SMT DEF Fitted
    <2> QED BY SMT, <2>1 DEF LinearOf, SlopeOf
  <1>2. /\ c.h1 = 75 /\ c.h2 = 367 /\ Within(c.h3, 18) /\ c.h3 \in Nat /\ c.h4 = 301
        /\ Within(c.h5, 50) /\ Within(c.h6, 30)
    BY SMT DEF Fitted, Within
  <1>3. Within(v, 358733) /\ v = Fine(c, raw).value - 76800
    BY SMT, FineFits DEF Between, Within
  <1> HIDE DEF v
  <1>4. Fits(c.h5, v) /\ Within(Mul(c.h5, v), 17936650)
    <2>1. 50 * 358733 = 17936650 /\ 17936650 <= MaxInt
      BY SMT DEF MaxInt
    <2> QED BY SMT, <1>2, <1>3, <2>1, ProductFits
  <1>5. Fits(v, c.h6) /\ Within(Mul(v, c.h6), 10761990)
    <2>1. 358733 * 30 = 10761990 /\ 10761990 <= MaxInt
      BY SMT DEF MaxInt
    <2> QED BY SMT, <1>2, <1>3, <2>1, ProductFits
  <1>6. Fits(v, c.h3) /\ Within(Mul(v, c.h3), 6457194)
    <2>1. 358733 * 18 = 6457194 /\ 6457194 <= MaxInt
      BY SMT DEF MaxInt
    <2> QED BY SMT, <1>2, <1>3, <2>1, ProductFits
  <1>7. Within(linear, 23683)
    <2>1. Between(0, raw.h, 65535) /\ c.h4 * 1048576 = 315621376
      BY SMT, <1>2 DEF InRange
    <2>2. Between(0, raw.h * 16384, 1073725440)
      BY SMT, <2>1 DEF Between
    <2>3. Between(-333541642, raw.h * 16384 - c.h4 * 1048576 - Mul(c.h5, v) + 16384, 776057098)
      BY SMT, <1>4, <2>1, <2>2 DEF Between, Within
    <2>4. \A k \in Int : Between(-333541642, k, 776057098) => -23683 <= k \div 32768 /\ k \div 32768 <= 23683
      BY SMT DEF Between
    <2> QED BY SMT, <2>3, <2>4 DEF Between, Within
  <1> HIDE DEF linear
  <1>8. Within(first, 10510)
    BY SMT, <1>5 DEF Within
  <1> HIDE DEF first
  <1>9. Within(second, 35921)
    BY SMT, <1>6 DEF Within
  <1> HIDE DEF second
  <1>10. Fits(first, second) /\ Within(Mul(first, second), 377529710)
    <2>1. 10510 * 35921 = 377529710 /\ 377529710 <= MaxInt
      BY SMT DEF MaxInt
    <2> QED BY SMT, <1>8, <1>9, <2>1, ProductFits
  <1>11. Within(gain, 2465834) /\ gain >= 1728000
    BY SMT, <1>10 DEF Within
  <1> HIDE DEF gain
  <1>12. Fits(gain, c.h2) /\ Within(Mul(gain, c.h2), 904961078) /\ Mul(gain, c.h2) = gain * 367
    <2>1. 2465834 * 367 = 904961078 /\ 904961078 <= MaxInt /\ Within(c.h2, 367)
      BY SMT, <1>2 DEF MaxInt, Within
    <2>2. Fits(gain, c.h2) /\ Mul(gain, c.h2) = gain * c.h2 /\ Within(gain * c.h2, 2465834 * 367)
      BY SMT, <1>11, <2>1, ProductFits
    <2> QED BY SMT, <1>2, <2>1, <2>2
  <1>13. Within(slope, 55235) /\ Between(38000, slope, 55235)
    BY SMT, <1>11, <1>12 DEF Within, Between
  <1> HIDE DEF slope
  <1>14. Fits(linear, slope) /\ Within(x, 1308130505) /\ x = linear * slope
    <2>1. 23683 * 55235 = 1308130505 /\ 1308130505 <= MaxInt
      BY SMT DEF MaxInt
    <2> QED BY SMT, <1>7, <1>13, <2>1, ProductFits
  <1> HIDE DEF x
  <1>15. Within(x \div 32768, 39921)
    BY SMT, <1>14 DEF Within
  <1>16. /\ Fits(x \div 32768, x \div 32768) /\ Between(0, Square(x \div 32768), 1593686241)
         /\ Square(x \div 32768) = (x \div 32768) * (x \div 32768)
    <2>1. 39921 * 39921 = 1593686241 /\ 1593686241 <= MaxInt
      BY SMT DEF MaxInt
    <2> QED BY SMT, <1>15, <2>1, SquareFits DEF Between
  <1>17. Within(bent, 12450673) /\ bent = ((x \div 32768) * (x \div 32768)) \div 128
    BY SMT, <1>16 DEF Between, Within
  <1> HIDE DEF bent
  <1>18. Fits(bent, c.h1) /\ Within(Mul(bent, c.h1), 933800475) /\ Mul(bent, c.h1) = bent * 75
    <2>1. 12450673 * 75 = 933800475 /\ 933800475 <= MaxInt /\ Within(c.h1, 75)
      BY SMT, <1>2 DEF MaxInt, Within
    <2>2. Fits(bent, c.h1) /\ Mul(bent, c.h1) = bent * c.h1 /\ Within(bent * c.h1, 12450673 * 75)
      BY SMT, <1>17, <2>1, ProductFits
    <2> QED BY SMT, <1>2, <2>1, <2>2
  <1>19. y \in Int /\ y = Bent(x)
    <2>1. y \in Int
      BY SMT, <1>14, <1>18 DEF Within
    <2>2. y = x - (bent * 75) \div 16
      BY SMT, <1>18
    <2> QED BY SMT, <1>17, <2>1, <2>2 DEF Bent
  <1> HIDE DEF y
  <1>20. Between(0, inRange, 419430400) /\ ((inRange \div 4096) * 100 + 512) \div 1024 = Limited(y)
    <2>1. ((inRange \div 4096) * 100 + 512) \div 1024 = Limited(y)
      BY SMT DEF Limited
    <2>2. Between(0, inRange, 419430400)
      BY SMT, <1>19 DEF Between
    <2> QED BY SMT, <2>1, <2>2
  <1> HIDE DEF inRange
  <1>21. Between(0, ((inRange \div 4096) * 100 + 512) \div 1024, 10000)
    BY SMT, <1>20 DEF Between
  <1>22. AllFit(Humidity(c, raw).products)
    BY SMT, <1>1, <1>4, <1>5, <1>6, <1>10, <1>12, <1>14, <1>16, <1>18 DEF AllFit
  <1>23. HumidityIs(c, raw)
    <2> DEFINE f == Fine(c, raw).value
    <2>1. Humidity(c, raw).value = Limited(y)
      BY SMT, <1>1, <1>20
    <2>2. Humidity(c, raw).value = Limited(Bent(LinearOf(c, f, raw.h) * SlopeOf(c, f)))
      <3>1. x = LinearOf(c, f, raw.h) * SlopeOf(c, f)
        BY SMT, <1>0, <1>14
      <3>2. Limited(y) = Limited(Bent(LinearOf(c, f, raw.h) * SlopeOf(c, f)))
        BY <1>19, <3>1
      <3> QED BY SMT, <2>1, <3>2
    <2>3. Mul(c.h5, f - 76800) \in Int
      BY SMT, <1>3, <1>4 DEF Within
    <2>4. Within(LinearOf(c, f, raw.h), 23683) /\ Between(38000, SlopeOf(c, f), 55235)
      BY SMT, <1>0, <1>7, <1>13
    <2> QED BY SMT, <2>2, <2>3, <2>4 DEF HumidityIs
  <1> QED BY SMT, <1>1, <1>21, <1>22, <1>23

\* Without coefficients nothing is multiplied but by zero.
LEMMA ZeroedFits ==
  ASSUME NEW c, Zeroed(c), NEW raw, InRange(raw)
  PROVE /\ AllFit(Fine(c, raw).products) /\ Fine(c, raw).value = 0
        /\ Pressure(c, raw) = [value |-> 0, products |-> {}, wraps |-> FALSE]
        /\ AllFit(Humidity(c, raw).products) /\ Humidity(c, raw).value = 0
  <1> DEFINE coarse == raw.t \div 8 - 2 * c.t1
             offset == raw.t \div 16 - c.t1
             bent == Square(offset) \div 4096
  <1>1. Fine(c, raw) = [value |-> Mul(coarse, c.t2) \div 2048 + Mul(bent, c.t3) \div 16384,
                        products |-> {<<coarse, c.t2>>, <<offset, offset>>, <<bent, c.t3>>}]
    BY SMT DEF Fine
  <1>2. coarse \in Int /\ Within(offset, 44375)
    BY SMT DEF InRange, Zeroed, Between, Within
  <1> HIDE DEF coarse, offset
  <1>3. Fits(offset, offset) /\ Between(0, Square(offset), 1969140625)
    <2>1. 44375 * 44375 = 1969140625 /\ 1969140625 <= MaxInt
      BY SMT DEF MaxInt
    <2> QED BY SMT, <1>2, <2>1, SquareFits DEF Between
  <1>4. bent \in Int
    BY SMT, <1>3 DEF Between
  <1> HIDE DEF bent
  <1>5. Fits(coarse, c.t2) /\ Mul(coarse, c.t2) = 0 /\ Fits(bent, c.t3) /\ Mul(bent, c.t3) = 0
    BY <1>2, <1>4, ProductIsZero DEF Zeroed
  <1>6. AllFit(Fine(c, raw).products) /\ Fine(c, raw).value = 0
    BY SMT, <1>1, <1>3, <1>5 DEF AllFit
  <1>7. Pressure(c, raw) = [value |-> 0, products |-> {}, wraps |-> FALSE]
    <2> DEFINE t == Fine(c, raw).value \div 2 - 64000
               quarter == t \div 4
               curve == Square(quarter) \div 2048
               bend == Square(quarter) \div 8192
               scale == (Mul(c.p[3], bend) \div 8 + Mul(c.p[2], t) \div 2) \div 262144
               divisor == Mul(32768 + scale, c.p1) \div 32768
    <2>1. divisor = 0 => Pressure(c, raw) = [value |-> 0, products |-> {}, wraps |-> FALSE]
      BY SMT DEF Pressure
    <2>2. c.p[2] = 0 /\ c.p[3] = 0 /\ c.p1 = 0
      BY SMT DEF Zeroed
    <2>3. t = -64000
      BY SMT, <1>6
    <2> HIDE DEF t
    <2>4. Within(quarter, 16000)
      BY SMT, <2>3 DEF Within
    <2> HIDE DEF quarter
    <2>5. Between(0, Square(quarter), 256000000)
      <3>1. 16000 * 16000 = 256000000 /\ 256000000 <= MaxInt
        BY SMT DEF MaxInt
      <3> QED BY SMT, <2>4, <3>1, SquareFits
    <2>6. bend \in Int
      BY SMT, <2>5 DEF Between
    <2> HIDE DEF bend
    <2>7. Mul(c.p[3], bend) = 0 /\ Mul(c.p[2], t) = 0
      BY SMT, <2>2, <2>3, <2>6, ProductIsZero
    <2>8. scale \in Int
      BY SMT, <2>7
    <2> HIDE DEF scale
    <2>9. Mul(32768 + scale, c.p1) = 0
      <3>1. 32768 + scale \in Int
        BY SMT, <2>8
      <3> QED BY <2>2, <3>1, ProductIsZero
    <2> QED BY SMT, <2>1, <2>9
  <1>8. AllFit(Humidity(c, raw).products) /\ Humidity(c, raw).value = 0
    <2> DEFINE v == Fine(c, raw).value - 76800
               linear == (raw.h * 16384 - c.h4 * 1048576 - Mul(c.h5, v) + 16384) \div 32768
               first == Mul(v, c.h6) \div 1024
               second == Mul(v, c.h3) \div 2048 + 32768
               gain == Mul(first, second) \div 1024 + 2097152
               slope == (Mul(gain, c.h2) + 8192) \div 16384
               x == Mul(linear, slope)
               curved == Square(x \div 32768) \div 128
               y == x - Mul(curved, c.h1) \div 16
               inRange == IF y < 0 THEN 0 ELSE IF y > 419430400 THEN 419430400 ELSE y
    <2>1. Humidity(c, raw) =
            [value |-> ((inRange \div 4096) * 100 + 512) \div 1024,
             products |-> {<<c.h5, v>>, <<v, c.h6>>, <<v, c.h3>>, <<first, second>>, <<gain, c.h2>>,
                           <<linear, slope>>, <<x \div 32768, x \div 32768>>, <<curved, c.h1>>}]
      BY SMT DEF Humidity
    <2>2. c.h1 = 0 /\ c.h2 = 0 /\ c.h3 = 0 /\ c.h4 = 0 /\ c.h5 = 0 /\ c.h6 = 0
      BY SMT DEF Zeroed
    <2>3. v \in Int
      BY SMT, <1>6
    <2> HIDE DEF v
    <2>4. /\ Fits(c.h5, v) /\ Mul(c.h5, v) = 0 /\ Fits(v, c.h6) /\ Mul(v, c.h6) = 0
          /\ Fits(v, c.h3) /\ Mul(v, c.h3) = 0
      BY <2>2, <2>3, ProductIsZero
    <2>5. linear \in Int /\ first = 0 /\ second = 32768
      BY SMT, <2>2, <2>4 DEF InRange, Between
    <2> HIDE DEF linear, first, second
    <2>6. Fits(first, second) /\ Mul(first, second) = 0
      <3>1. second \in Int
        BY SMT, <2>5
      <3> QED BY <2>5, <3>1, ProductIsZero
    <2>7. gain \in Int
      BY SMT, <2>6
    <2> HIDE DEF gain
    <2>8. Fits(gain, c.h2) /\ slope = 0
      <3>1. Fits(gain, c.h2) /\ Mul(gain, c.h2) = 0
        BY <2>2, <2>7, ProductIsZero
      <3> QED BY SMT, <3>1
    <2> HIDE DEF slope
    <2>9. Fits(linear, slope) /\ x = 0
      BY <2>5, <2>8, ProductIsZero
    <2> HIDE DEF x
    <2>10. x \div 32768 = 0
      BY SMT, <2>9
    <2>11. Fits(x \div 32768, x \div 32768) /\ curved = 0
      <3>1. Fits(0, 0) /\ Square(0) = 0
        BY SMT, ProductIsZero, 0 \in Int DEF Square
      <3> QED BY SMT, <2>10, <3>1
    <2> HIDE DEF curved
    <2>12. Fits(curved, c.h1) /\ Mul(curved, c.h1) = 0
      <3>1. 0 \in Int
        BY SMT
      <3> QED BY <2>2, <2>11, <3>1, ProductIsZero
    <2>13. inRange = 0
      BY SMT, <2>9, <2>12
    <2> HIDE DEF inRange
    <2>14. AllFit(Humidity(c, raw).products)
      BY SMT, <2>1, <2>4, <2>6, <2>8, <2>9, <2>11, <2>12 DEF AllFit
    <2>15. Humidity(c, raw).value = 0
      BY SMT, <2>1, <2>13
    <2> QED BY <2>14, <2>15
  <1> QED BY <1>6, <1>7, <1>8

(***************************************************************************)
(* The measurements, and the raw values they are made of.                  *)
(***************************************************************************)
LEMMA SpreadBetween ==
  ASSUME NEW from \in Nat, NEW to \in Nat, from <= to, NEW steps \in Nat \ {0}, NEW x \in Spread(from, to, steps)
  PROVE Between(from, x, to)
  <1>1. PICK n \in 0 .. steps : x = from + (n * (to - from)) \div steps
    BY SMT DEF Spread
  <1>2. n * (to - from) \in Nat /\ n * (to - from) <= (to - from) * steps
    <2>1. \A k \in Nat : n * k \in Nat /\ n * k <= k * steps
      OBVIOUS
    <2> QED BY <2>1
  <1>3. PICK m \in Nat : m = n * (to - from)
    BY <1>2
  <1>4. PICK e \in Int : e = m \div steps
    BY <1>3
  <1>5. steps * e <= m /\ m < steps * e + steps
    BY <1>3, <1>4
  <1>6. e <= to - from
    <2>1. e > to - from => steps * e >= (to - from) * steps + steps
      OBVIOUS
    <2> QED BY <1>2, <1>3, <1>5, <2>1
  <1>7. e >= 0
    <2>1. e < 0 => steps * e + steps <= 0
      OBVIOUS
    <2> QED BY <1>3, <1>5, <2>1
  <1> QED BY SMT, <1>1, <1>3, <1>4, <1>6, <1>7 DEF Between

\* The raw values the model rises through are those of the sensor's operating range.
LEMMA RawValuesAreInRange ==
  /\ \A x \in Temps : Between(313800, x, 710000)
  /\ \A x \in Pressures : Between(300000, x, 861000)
  /\ \A x \in Hums : Between(0, x, 65535)
  <1>1. TempSteps \in Nat \ {0} /\ PressureSteps \in Nat \ {0} /\ HumSteps \in Nat \ {0}
    BY StepsAssumption
  <1> DEFINE t1 == 313800
             t2 == 710000
             p1 == 300000
             p2 == 861000
             h1 == 0
             h2 == 65535
  <1>2. t1 \in Nat /\ t2 \in Nat /\ t1 <= t2 /\ p1 \in Nat /\ p2 \in Nat /\ p1 <= p2 /\ h1 \in Nat /\ h2 \in Nat /\ h1 <= h2
    BY SMT
  <1>3. /\ Temps = Spread(t1, t2, TempSteps) \cup {519888}
        /\ Pressures = Spread(p1, p2, PressureSteps) \cup 315698 .. 315700
        /\ Hums = Spread(h1, h2, HumSteps)
    BY SMT DEF Temps, Pressures, Hums
  <1>4. Between(t1, 519888, t2)
    BY SMT DEF Between
  <1>5. \A x \in 315698 .. 315700 : Between(p1, x, p2)
    BY SMT DEF Between
  <1> HIDE DEF t1, t2, p1, p2, h1, h2
  <1>6. /\ \A x \in Temps : Between(t1, x, t2)
        /\ \A x \in Pressures : Between(p1, x, p2)
        /\ \A x \in Hums : Between(h1, x, h2)
    <2>1. \A x \in Spread(t1, t2, TempSteps) : Between(t1, x, t2)
      BY <1>1, <1>2, SpreadBetween
    <2>2. \A x \in Spread(p1, p2, PressureSteps) : Between(p1, x, p2)
      BY <1>1, <1>2, SpreadBetween
    <2>3. \A x \in Spread(h1, h2, HumSteps) : Between(h1, x, h2)
      BY <1>1, <1>2, SpreadBetween
    <2> QED BY SMT, <1>3, <1>4, <1>5, <2>1, <2>2, <2>3
  <1> QED BY <1>6 DEF t1, t2, p1, p2, h1, h2

\* The calibration is one of those, and the raw values are the sensor's.
MeasureInv ==
  /\ cal \in Calibrations
  /\ adc \in [t : Temps, p : Pressures, h : Hums]
  /\ stamp \in Stamps

LEMMA MeasureInvInit == MeasureInit => MeasureInv
  <1> SUFFICES ASSUME MeasureInit PROVE MeasureInv
    OBVIOUS
  <1>1. Temps \in SUBSET Nat /\ Pressures \in SUBSET Nat /\ Hums \in SUBSET Nat
    <2>1. \A a, x, b : Between(a, x, b) /\ a \in Nat /\ b \in Nat => x \in Nat
      BY DEF Between
    <2> DEFINE a == 313800
               b == 710000
               d == 300000
               e == 861000
               f == 65535
    <2>2. a \in Nat /\ b \in Nat /\ d \in Nat /\ e \in Nat /\ f \in Nat /\ 0 \in Nat
      BY SMT
    <2>3. /\ \A x \in Temps : Between(a, x, b)
          /\ \A x \in Pressures : Between(d, x, e)
          /\ \A x \in Hums : Between(0, x, f)
      BY RawValuesAreInRange
    <2> HIDE DEF a, b, d, e, f
    <2> QED BY <2>1, <2>2, <2>3
  <1>2. Temps # {} /\ Pressures # {} /\ Hums # {}
    <2>1. ASSUME NEW a, NEW b, NEW s \in Nat PROVE Spread(a, b, s) # {}
      <3>1. 0 \in 0 .. s
        OBVIOUS
      <3> QED BY <3>1 DEF Spread
    <2>2. PressureSteps \in Nat /\ HumSteps \in Nat
      BY StepsAssumption
    <2> QED BY SMT, <2>1, <2>2 DEF Temps, Pressures, Hums
  <1>3. Min(Temps) \in Temps /\ Min(Pressures) \in Pressures /\ Min(Hums) \in Hums
    BY <1>1, <1>2, LeastIsOne
  <1> QED BY <1>3 DEF MeasureInit, MeasureInv

LEMMA MeasureInvStep == MeasureInv /\ [MeasureNext]_measureVars => MeasureInv'
  <1> SUFFICES ASSUME MeasureInv, [MeasureNext]_measureVars PROVE MeasureInv'
    OBVIOUS
  <1>1. CASE Rises("t", Temps)
    BY <1>1 DEF Rises, MeasureInv
  <1>2. CASE Rises("p", Pressures)
    BY <1>2 DEF Rises, MeasureInv
  <1>3. CASE Rises("h", Hums)
    BY <1>3 DEF Rises, MeasureInv
  <1>4. CASE Write
    BY <1>4 DEF Write, MeasureInv
  <1>5. CASE Read
    BY <1>5 DEF Read, MeasureInv
  <1>6. CASE UNCHANGED measureVars
    BY <1>6 DEF measureVars, MeasureInv
  <1> QED BY <1>1, <1>2, <1>3, <1>4, <1>5, <1>6 DEF MeasureNext

LEMMA ValuesInRange == MeasureInv => InRange(adc) /\ (Fitted(cal) \/ Zeroed(cal))
  <1> SUFFICES ASSUME MeasureInv PROVE InRange(adc) /\ (Fitted(cal) \/ Zeroed(cal))
    OBVIOUS
  <1>1. Fitted(cal) \/ Zeroed(cal)
    BY CalibrationsAre DEF MeasureInv
  <1>2. adc.t \in Temps /\ adc.p \in Pressures /\ adc.h \in Hums
    BY DEF MeasureInv
  <1>3. InRange(adc)
    BY <1>2, RawValuesAreInRange DEF InRange
  <1> QED BY <1>1, <1>3

LEMMA NoOverflowHolds == MeasureInv => NoOverflow
  <1> SUFFICES ASSUME MeasureInv PROVE NoOverflow
    OBVIOUS
  <1>1. InRange(adc) /\ (Fitted(cal) \/ Zeroed(cal))
    BY ValuesInRange
  <1>2. /\ AllFit(Fine(cal, adc).products) /\ AllFit(Pressure(cal, adc).products)
        /\ AllFit(Humidity(cal, adc).products) /\ ~Pressure(cal, adc).wraps
    <2>1. CASE Fitted(cal)
      <3>1. AllFit(Fine(cal, adc).products)
        BY SMT, <1>1, <2>1, FineFits
      <3>2. AllFit(Pressure(cal, adc).products) /\ ~Pressure(cal, adc).wraps
        BY <1>1, <2>1, PressureFits
      <3>3. AllFit(Humidity(cal, adc).products)
        BY SMT, <1>1, <2>1, HumidityFits
      <3> QED BY <3>1, <3>2, <3>3
    <2>2. CASE Zeroed(cal)
      <3>1. /\ AllFit(Fine(cal, adc).products) /\ AllFit(Humidity(cal, adc).products)
            /\ Pressure(cal, adc) = [value |-> 0, products |-> {}, wraps |-> FALSE]
        BY <1>1, <2>2, ZeroedFits
      <3>2. Pressure(cal, adc).products = {} /\ Pressure(cal, adc).wraps = FALSE
        BY <3>1
      <3> QED BY <3>1, <3>2 DEF AllFit
    <2> QED BY <1>1, <2>1, <2>2
  <1> QED BY <1>2 DEF NoOverflow, Products, AllFit

\* For every raw value of the operating range, and the calibrations of the model, no product of
\* bme280_compensate leaves 32 bits and the unsigned difference does not wrap.
THEOREM CompensationFits == MeasureSpec => []NoOverflow
  <1>1. MeasureInv => NoOverflow
    BY NoOverflowHolds
  <1> QED BY <1>1, MeasureInvInit, MeasureInvStep, PTL DEF MeasureSpec

(***************************************************************************)
(* The CRC, a bit and a byte at a time.                                    *)
(***************************************************************************)
LEMMA RegisterIs == \A x : x \in Register <=> Between(0, x, 65535)
  <1>1. PICK n \in Int : n = 65535
    BY SMT
  <1>2. Register = 0 .. n
    BY SMT, <1>1 DEF Register
  <1>3. \A x : x \in 0 .. n <=> Between(0, x, n)
    BY SMT DEF Between
  <1>4. \A x : x \in Register <=> Between(0, x, n)
    BY <1>2, <1>3
  <1> QED BY SMT, <1>1, <1>4

\* What a recursion over a list of steps builds up: there is such a function.
Chained(f, N, first, step) == f = [n \in 0 .. N |-> IF n = 0 THEN first ELSE step[n][f[n - 1]]]

LEMMA ChainExists ==
  ASSUME NEW N \in Nat, NEW T, NEW first \in T, NEW step, \A n \in 1 .. N : step[n] \in [T -> T]
  PROVE \E f \in [0 .. N -> T] : Chained(f, N, first, step)
  <1> DEFINE P(m) == \E f \in [0 .. m -> T] : f[0] = first /\ \A n \in 1 .. m : f[n] = step[n][f[n - 1]]
             Bad == {m \in 0 .. N : ~P(m)}
  <1>1. Bad = {}
    <2> SUFFICES ASSUME Bad # {} PROVE FALSE
      OBVIOUS
    <2>1. PICK m \in Bad : \A k \in Bad : m <= k
      <3>1. Bad \in SUBSET Nat
        OBVIOUS
      <3> QED BY <3>1, LeastExists
    <2>2. m \in 0 .. N /\ ~P(m)
      BY <2>1
    <2>3. CASE m = 0
      <3> DEFINE f == [n \in 0 .. 0 |-> first]
      <3>1. f \in [0 .. 0 -> T] /\ f[0] = first /\ \A n \in 1 .. 0 : FALSE
        OBVIOUS
      <3> HIDE DEF f
      <3> QED BY <2>2, <2>3, <3>1
    <2>4. CASE m # 0
      <3>1. m - 1 \in 0 .. N /\ ~(m <= m - 1) /\ m \in 1 .. N
        BY <2>2, <2>4
      <3>2. P(m - 1)
        BY <2>1, <3>1
      <3>3. PICK f \in [0 .. m - 1 -> T] : f[0] = first /\ \A n \in 1 .. m - 1 : f[n] = step[n][f[n - 1]]
        BY <3>2
      <3> DEFINE g == [n \in 0 .. m |-> IF n = m THEN step[m][f[m - 1]] ELSE f[n]]
      <3>4. f[m - 1] \in T /\ step[m][f[m - 1]] \in T
        <4>1. m - 1 \in 0 .. m - 1
          BY <3>1
        <4> QED BY <3>1, <3>3, <4>1
      <3>5. \A n \in 0 .. m : n # m => n \in 0 .. m - 1 /\ g[n] = f[n]
        BY <3>1
      <3>6. g[m] = step[m][f[m - 1]] /\ g \in [0 .. m -> T]
        BY <3>1, <3>3, <3>4, <3>5
      <3> HIDE DEF g
      <3>7. g[0] = first
        BY <3>1, <3>3, <3>5
      <3>8. ASSUME NEW n \in 1 .. m PROVE g[n] = step[n][g[n - 1]]
        <4>1. n - 1 \in 0 .. m /\ n - 1 # m /\ n \in 0 .. m /\ (n # m => n \in 1 .. m - 1)
          BY <3>1
        <4>2. g[n - 1] = f[n - 1]
          BY <3>5, <4>1
        <4> QED BY <3>3, <3>5, <3>6, <4>1, <4>2
      <3> QED BY <2>2, <3>6, <3>7, <3>8
    <2> QED BY <2>3, <2>4
  <1>2. N \in 0 .. N
    OBVIOUS
  <1>3. P(N)
    BY <1>1, <1>2
  <1>4. PICK f \in [0 .. N -> T] : f[0] = first /\ \A n \in 1 .. N : f[n] = step[n][f[n - 1]]
    BY <1>3
  <1> DEFINE g == [n \in 0 .. N |-> IF n = 0 THEN first ELSE step[n][f[n - 1]]]
  <1>5. ASSUME NEW n \in 0 .. N PROVE g[n] = f[n]
    <2>1. n # 0 => n \in 1 .. N
      OBVIOUS
    <2> QED BY <1>4, <2>1
  <1>6. f = g
    BY <1>4, <1>5
  <1> QED BY <1>4, <1>6 DEF Chained

\* What the highest place makes with the bit.
Out(x, bit) == (x \div 32768 + bit) % 2

LEMMA CrcBitIs ==
  ASSUME NEW x \in Register, NEW b \in {0, 1}
  PROVE CrcBit(x, b) \in Register /\ CrcBit(x, b) % 2 = Out(x, b)
  <1>1. x \in Nat /\ x <= 65535
    BY SMT, RegisterIs DEF Between
  <1>2. Between(0, CrcBit(x, b), 65535) /\ CrcBit(x, b) % 2 = (x \div 32768 + b) % 2
    BY SMT, <1>1 DEF Between, CrcBit, Flip
  <1>3. CrcBit(x, b) % 2 = Out(x, b)
    BY SMT, <1>2 DEF Out
  <1>4. CrcBit(x, b) \in Register
    BY SMT, <1>2, RegisterIs
  <1> QED BY <1>3, <1>4

\* No two registers become one when the same bit comes in.
LEMMA BitKeepsApart ==
  ASSUME NEW x \in Register, NEW y \in Register, x # y, NEW b \in {0, 1}
  PROVE CrcBit(x, b) # CrcBit(y, b)
  <1>1. x \in Nat /\ x <= 65535 /\ y \in Nat /\ y <= 65535
    BY SMT, RegisterIs DEF Between
  <1> QED BY SMT, <1>1 DEF CrcBit, Flip

\* The places of the register, and one above it.
Moduli == {1, 2, 4, 8, 16, 32, 64, 128, 256, 512, 1024, 2048, 4096, 8192, 16384, 32768, 65536}

\* The registers differ in the places below this one.
Apart(x, y, place) == x % place # y % place

LEMMA FlipKeepsApart ==
  ASSUME NEW x \in Nat, NEW y \in Nat
  PROVE \A place \in Moduli, flipped \in {1, 32, 4096} :
          place # 1 /\ Apart(x, y, place) => Apart(Flip(x, flipped), Flip(y, flipped), place)
  <1> DEFINE Keeps(place, flipped) == Apart(x, y, place) => Apart(Flip(x, flipped), Flip(y, flipped), place)
  <1>1. Keeps(2, 1) /\ Keeps(4, 1) /\ Keeps(8, 1) /\ Keeps(16, 1)
    BY SMTT(30) DEF Apart, Flip
  <1>2. Keeps(32, 1) /\ Keeps(64, 1) /\ Keeps(128, 1) /\ Keeps(256, 1)
    BY SMTT(30) DEF Apart, Flip
  <1>3. Keeps(512, 1) /\ Keeps(1024, 1) /\ Keeps(2048, 1) /\ Keeps(4096, 1)
    BY SMTT(30) DEF Apart, Flip
  <1>4. Keeps(8192, 1) /\ Keeps(16384, 1) /\ Keeps(32768, 1) /\ Keeps(65536, 1)
    BY SMTT(30) DEF Apart, Flip
  <1>5. Keeps(2, 32) /\ Keeps(4, 32) /\ Keeps(8, 32) /\ Keeps(16, 32)
    BY SMTT(30) DEF Apart, Flip
  <1>6. Keeps(32, 32) /\ Keeps(64, 32) /\ Keeps(128, 32) /\ Keeps(256, 32)
    BY SMTT(30) DEF Apart, Flip
  <1>7. Keeps(512, 32) /\ Keeps(1024, 32) /\ Keeps(2048, 32) /\ Keeps(4096, 32)
    BY SMTT(30) DEF Apart, Flip
  <1>8. Keeps(8192, 32) /\ Keeps(16384, 32) /\ Keeps(32768, 32) /\ Keeps(65536, 32)
    BY SMTT(30) DEF Apart, Flip
  <1>9. Keeps(2, 4096) /\ Keeps(4, 4096) /\ Keeps(8, 4096) /\ Keeps(16, 4096)
    BY SMTT(30) DEF Apart, Flip
  <1>10. Keeps(32, 4096) /\ Keeps(64, 4096) /\ Keeps(128, 4096) /\ Keeps(256, 4096)
    BY SMTT(30) DEF Apart, Flip
  <1>11. Keeps(512, 4096) /\ Keeps(1024, 4096) /\ Keeps(2048, 4096) /\ Keeps(4096, 4096)
    BY SMTT(30) DEF Apart, Flip
  <1>12. Keeps(8192, 4096) /\ Keeps(16384, 4096) /\ Keeps(32768, 4096) /\ Keeps(65536, 4096)
    BY SMTT(30) DEF Apart, Flip
  <1> HIDE DEF Keeps
  <1>13. \A place \in Moduli, flipped \in {1, 32, 4096} : place # 1 => Keeps(place, flipped)
    BY SMT, <1>1, <1>2, <1>3, <1>4, <1>5, <1>6, <1>7, <1>8, <1>9, <1>10, <1>11, <1>12 DEF Moduli
  <1> QED BY <1>13 DEF Keeps

\* One of them is odd and the other one is not.
LEMMA OddIsApart ==
  ASSUME NEW m \in Nat, NEW n \in Nat, m % 2 # n % 2, NEW place \in Moduli, place # 65536
  PROVE Apart(m, n, 2 * place)
  <1> DEFINE Evens(k) == Apart(m, n, 2 * k)
  <1>1. Evens(1) /\ Evens(2) /\ Evens(4) /\ Evens(8)
    BY SMTT(30) DEF Apart
  <1>2. Evens(16) /\ Evens(32) /\ Evens(64) /\ Evens(128)
    BY SMTT(30) DEF Apart
  <1>3. Evens(256) /\ Evens(512) /\ Evens(1024) /\ Evens(2048)
    BY SMTT(30) DEF Apart
  <1>4. Evens(4096) /\ Evens(8192) /\ Evens(16384) /\ Evens(32768)
    BY SMTT(30) DEF Apart
  <1> HIDE DEF Evens
  <1>5. Evens(place)
    BY SMT, <1>1, <1>2, <1>3, <1>4 DEF Moduli
  <1> QED BY <1>5 DEF Evens

\* Where two registers differ, one bit later they do so within one place more, whatever the bits.
LEMMA BitSpreads ==
  ASSUME NEW x \in Register, NEW y \in Register, NEW a \in {0, 1}, NEW b \in {0, 1},
         NEW place \in Moduli, place # 65536, Apart(x, y, place)
  PROVE Apart(CrcBit(x, a), CrcBit(y, b), 2 * place)
  <1>1. x \in Nat /\ x <= 65535 /\ y \in Nat /\ y <= 65535
    BY SMT, RegisterIs DEF Between
  <1> DEFINE u == (2 * x) % 65536
             v == (2 * y) % 65536
             Shifts(k) == Apart(x, y, k) => Apart(u, v, 2 * k)
  <1>2. u \in Nat /\ v \in Nat
    BY SMT, <1>1
  <1>3. 2 * place \in Moduli /\ 2 * place # 1
    BY SMT DEF Moduli
  <1>4. Apart(u, v, 2 * place)
    <2>1. Shifts(1) /\ Shifts(2) /\ Shifts(4) /\ Shifts(8)
      BY SMTT(30), <1>1 DEF Apart
    <2>2. Shifts(16) /\ Shifts(32) /\ Shifts(64) /\ Shifts(128)
      BY SMTT(30), <1>1 DEF Apart
    <2>3. Shifts(256) /\ Shifts(512) /\ Shifts(1024) /\ Shifts(2048)
      BY SMTT(30), <1>1 DEF Apart
    <2>4. Shifts(4096) /\ Shifts(8192) /\ Shifts(16384) /\ Shifts(32768)
      BY SMTT(30), <1>1 DEF Apart
    <2> HIDE DEF Shifts
    <2>5. Shifts(place)
      BY SMT, <2>1, <2>2, <2>3, <2>4 DEF Moduli
    <2> QED BY <2>5 DEF Shifts
  <1>5. CASE CrcBit(x, a) % 2 # CrcBit(y, b) % 2
    <2>1. CrcBit(x, a) \in Nat /\ CrcBit(y, b) \in Nat
      BY SMT, CrcBitIs, RegisterIs DEF Between
    <2> QED BY <1>5, <2>1, OddIsApart
  <1>6. CASE CrcBit(x, a) % 2 = CrcBit(y, b) % 2
    <2>1. Out(x, a) = Out(y, b)
      BY <1>6, CrcBitIs
    <2>2. CASE Out(x, a) = 0
      BY SMT, <1>4, <2>1, <2>2 DEF CrcBit, Out
    <2>3. CASE Out(x, a) # 0
      <3>0. \A m \in Nat, n \in Nat : \A p \in {1, 32, 4096} :
              Apart(m, n, 2 * place) => Apart(Flip(m, p), Flip(n, p), 2 * place)
        BY <1>3, FlipKeepsApart
      <3>1. \A m \in Nat : \A p \in {1, 32, 4096} : Flip(m, p) \in Nat
        BY SMT DEF Flip
      <3>2. /\ CrcBit(x, a) = Flip(Flip(Flip(u, 1), 32), 4096)
            /\ CrcBit(y, b) = Flip(Flip(Flip(v, 1), 32), 4096)
        BY SMT, <2>1, <2>3 DEF CrcBit, Out
      <3>3. Apart(Flip(u, 1), Flip(v, 1), 2 * place)
        BY <3>0, <1>2, <1>4
      <3>4. Apart(Flip(Flip(u, 1), 32), Flip(Flip(v, 1), 32), 2 * place)
        BY <3>0, <1>2, <3>1, <3>3
      <3>5. Apart(Flip(Flip(Flip(u, 1), 32), 4096), Flip(Flip(Flip(v, 1), 32), 4096), 2 * place)
        <4> DEFINE m == Flip(Flip(u, 1), 32)
                   n == Flip(Flip(v, 1), 32)
        <4>1. m \in Nat /\ n \in Nat
          BY <1>2, <3>1
        <4> HIDE DEF m, n, u, v
        <4>2. Apart(m, n, 2 * place) => Apart(Flip(m, 4096), Flip(n, 4096), 2 * place)
          BY SMT, <3>0, <4>1
        <4> QED BY <3>4, <4>2 DEF m, n
      <3> QED BY <3>2, <3>5
    <2> QED BY <2>2, <2>3
  <1> QED BY <1>5, <1>6

\* The n-th bit of a byte, from the highest one on.
Bit(byte, n) == (byte \div Places[n]) % 2

LEMMA BitIs ==
  ASSUME NEW byte \in Bytes, NEW n \in 1 .. 8
  PROVE Bit(byte, n) \in {0, 1}
  <1>1. byte \in Nat
    BY DEF Bytes
  <1>2. n = 1 \/ n = 2 \/ n = 3 \/ n = 4 \/ n = 5 \/ n = 6 \/ n = 7 \/ n = 8
    OBVIOUS
  <1>3. Places[n] \in Nat \ {0}
    BY <1>2 DEF Places
  <1>4. \A p \in Nat \ {0} : (byte \div p) % 2 \in {0, 1}
    BY <1>1
  <1> QED BY <1>3, <1>4 DEF Bit

\* A byte goes into the register in eight bits.
BitSteps(f, byte, x) ==
  /\ f \in [0 .. 8 -> Register] /\ f[0] = x
  /\ \A n \in 1 .. 8 : f[n] = CrcBit(f[n - 1], Bit(byte, n))

LEMMA ByteSteps ==
  ASSUME NEW byte \in Bytes, NEW x \in Register
  PROVE \E f : BitSteps(f, byte, x) /\ CrcByte(byte)[x] = f[8]
  <1> DEFINE step == [n \in 1 .. 8 |-> [r \in Register |-> CrcBit(r, Bit(byte, n))]]
             Law(f) == f = [n \in 0 .. 8 |-> IF n = 0 THEN x ELSE CrcBit(f[n - 1], Bit(byte, n))]
  <1>1. \A n \in 1 .. 8 : step[n] \in [Register -> Register] /\ \A r \in Register : step[n][r] = CrcBit(r, Bit(byte, n))
    BY BitIs, CrcBitIs
  <1> HIDE DEF step
  <1>2. PICK f \in [0 .. 8 -> Register] : f = [n \in 0 .. 8 |-> IF n = 0 THEN x ELSE step[n][f[n - 1]]]
    <2>1. 8 \in Nat
      OBVIOUS
    <2>2. \A n \in 1 .. 8 : step[n] \in [Register -> Register]
      BY <1>1
    <2>3. \E f \in [0 .. 8 -> Register] : Chained(f, 8, x, step)
      BY <2>1, <2>2, ChainExists
    <2> QED BY <2>3 DEF Chained
  <1>3. \A n \in 0 .. 8 : n # 0 => n \in 1 .. 8 /\ n - 1 \in 0 .. 8
    OBVIOUS
  <1>4. Law(f)
    BY <1>1, <1>2, <1>3
  <1> DEFINE g == CHOOSE h : Law(h)
  <1>5. Law(g)
    <2> HIDE DEF Law
    <2> QED BY <1>4
  <1>6. CrcByte(byte)[x] = g[8]
    BY DEF CrcByte, Bit
  <1> HIDE DEF g
  <1>7. \A n \in 0 .. 8 : g[n] = f[n]
    <2> DEFINE Bad == {n \in 0 .. 8 : g[n] # f[n]}
    <2> SUFFICES ASSUME Bad # {} PROVE FALSE
      OBVIOUS
    <2>1. PICK n \in Bad : \A k \in Bad : n <= k
      <3>1. Bad \in SUBSET Nat
        OBVIOUS
      <3> QED BY <3>1, LeastExists
    <2>2. n # 0
      BY <1>4, <1>5, <2>1
    <2>3. g[n - 1] = f[n - 1]
      <3>1. n - 1 \in 0 .. 8 /\ ~(n <= n - 1)
        BY <2>1, <2>2
      <3> QED BY <2>1, <3>1
    <2>4. n \in 0 .. 8 /\ g[n] # f[n]
      BY <2>1
    <2>5. g[n] = CrcBit(g[n - 1], Bit(byte, n))
      BY <1>5, <2>2, <2>4
    <2>6. f[n] = CrcBit(f[n - 1], Bit(byte, n))
      BY <1>4, <2>2, <2>4
    <2> QED BY <2>3, <2>4, <2>5, <2>6
  <1>8. \A n \in 1 .. 8 : f[n] = CrcBit(f[n - 1], Bit(byte, n))
    <2> SUFFICES ASSUME NEW n \in 1 .. 8 PROVE f[n] = CrcBit(f[n - 1], Bit(byte, n))
      OBVIOUS
    <2>1. n \in 0 .. 8 /\ n # 0
      OBVIOUS
    <2> QED BY <1>4, <2>1
  <1>9. f[0] = x /\ f[8] = g[8]
    BY <1>4, <1>7
  <1> QED BY <1>2, <1>6, <1>8, <1>9 DEF BitSteps

LEMMA CrcByteIs ==
  ASSUME NEW byte \in Bytes
  PROVE CrcByte(byte) \in [Register -> Register]
  <1>1. \A x \in Register : CrcByte(byte)[x] \in Register
    <2> SUFFICES ASSUME NEW x \in Register PROVE CrcByte(byte)[x] \in Register
      OBVIOUS
    <2>1. PICK f : BitSteps(f, byte, x) /\ CrcByte(byte)[x] = f[8]
      BY ByteSteps
    <2> QED BY <2>1 DEF BitSteps
  <1>2. CrcByte(byte) = [x \in Register |-> CrcByte(byte)[x]]
    BY DEF CrcByte
  <1> QED BY <1>1, <1>2

LEMMA BitsTellBytes ==
  ASSUME NEW a \in Bytes, NEW b \in Bytes, a # b
  PROVE \E n \in 1 .. 8 : Bit(a, n) # Bit(b, n)
  <1>1. a \in Nat /\ a <= 255 /\ b \in Nat /\ b <= 255
    BY DEF Bytes
  <1> SUFFICES ASSUME \A n \in 1 .. 8 : Bit(a, n) = Bit(b, n) PROVE a = b
    OBVIOUS
  <1>2. \A n \in 1 .. 8 : Bit(a, n) = Bit(b, n)
    OBVIOUS
  <1>3. /\ (a \div 128) % 2 = (b \div 128) % 2 /\ (a \div 64) % 2 = (b \div 64) % 2
        /\ (a \div 32) % 2 = (b \div 32) % 2 /\ (a \div 16) % 2 = (b \div 16) % 2
        /\ (a \div 8) % 2 = (b \div 8) % 2 /\ (a \div 4) % 2 = (b \div 4) % 2
        /\ (a \div 2) % 2 = (b \div 2) % 2 /\ (a \div 1) % 2 = (b \div 1) % 2
    BY <1>2 DEF Bit, Places
  <1> QED BY SMT, <1>1, <1>3

\* Different bytes leave the same register different in its low byte.
LEMMA BytesSpread ==
  ASSUME NEW a \in Bytes, NEW b \in Bytes, a # b, NEW x \in Register
  PROVE Apart(CrcByte(a)[x], CrcByte(b)[x], 256)
  <1>1. PICK f : BitSteps(f, a, x) /\ CrcByte(a)[x] = f[8]
    BY ByteSteps
  <1>2. PICK g : BitSteps(g, b, x) /\ CrcByte(b)[x] = g[8]
    BY ByteSteps
  <1>3. \A n \in 0 .. 8 : f[n] \in Register /\ g[n] \in Register
    BY <1>1, <1>2 DEF BitSteps
  <1> DEFINE Equal(n) == f[n] = g[n] /\ \A k \in 1 .. n : Bit(a, k) = Bit(b, k)
  <1>4. ASSUME NEW n \in 1 .. 8, NEW place \in Moduli, place # 65536,
               Equal(n - 1) \/ Apart(f[n - 1], g[n - 1], place)
        PROVE Equal(n) \/ Apart(f[n], g[n], 2 * place)
    <2>1. n - 1 \in 0 .. 8 /\ f[n - 1] \in Register /\ g[n - 1] \in Register
      BY <1>3
    <2>2. Bit(a, n) \in {0, 1} /\ Bit(b, n) \in {0, 1}
      BY BitIs
    <2>3. f[n] = CrcBit(f[n - 1], Bit(a, n)) /\ g[n] = CrcBit(g[n - 1], Bit(b, n))
      BY <1>1, <1>2 DEF BitSteps
    <2>4. CASE Apart(f[n - 1], g[n - 1], place)
      BY <1>4, <2>1, <2>2, <2>3, <2>4, BitSpreads
    <2>5. CASE Equal(n - 1) /\ Bit(a, n) = Bit(b, n)
      <3>1. \A k \in 1 .. n : k = n \/ k \in 1 .. n - 1
        OBVIOUS
      <3> QED BY <2>3, <2>5, <3>1
    <2>6. CASE Equal(n - 1) /\ Bit(a, n) # Bit(b, n)
      <3>1. Out(f[n - 1], Bit(a, n)) # Out(g[n - 1], Bit(b, n))
        <4>1. f[n - 1] \in Nat
          BY SMT, <2>1, RegisterIs DEF Between
        <4>2. \A m \in Nat, u, v \in {0, 1} : u # v => Out(m, u) # Out(m, v)
          BY SMT DEF Out
        <4> QED BY <2>2, <2>6, <4>1, <4>2
      <3>2. f[n] % 2 # g[n] % 2
        BY <2>1, <2>2, <2>3, <3>1, CrcBitIs
      <3>3. f[n] \in Nat /\ g[n] \in Nat
        <4>1. f[n] \in Register /\ g[n] \in Register
          BY <1>3
        <4> QED BY SMT, <4>1, RegisterIs DEF Between
      <3>4. Apart(f[n], g[n], 2 * place)
        BY ONLY <3>2, <3>3, OddIsApart, place \in Moduli, place # 65536
      <3> QED BY <3>4
    <2> QED BY <1>4, <2>4, <2>5, <2>6
  <1>5. Equal(0)
    BY <1>1, <1>2 DEF BitSteps
  <1> HIDE DEF Equal
  <1>6. Equal(1) \/ Apart(f[1], g[1], 2)
    <2>1. 1 \in 1 .. 8 /\ 1 \in Moduli /\ 1 # 65536 /\ 1 - 1 = 0 /\ 2 * 1 = 2
      BY SMT DEF Moduli
    <2> QED BY <1>4, <2>1, <1>5
  <1>7. Equal(2) \/ Apart(f[2], g[2], 4)
    <2>1. 2 \in 1 .. 8 /\ 2 \in Moduli /\ 2 # 65536 /\ 2 - 1 = 1 /\ 2 * 2 = 4
      BY SMT DEF Moduli
    <2> QED BY <1>4, <2>1, <1>6
  <1>8. Equal(3) \/ Apart(f[3], g[3], 8)
    <2>1. 3 \in 1 .. 8 /\ 4 \in Moduli /\ 4 # 65536 /\ 3 - 1 = 2 /\ 2 * 4 = 8
      BY SMT DEF Moduli
    <2> QED BY <1>4, <2>1, <1>7
  <1>9. Equal(4) \/ Apart(f[4], g[4], 16)
    <2>1. 4 \in 1 .. 8 /\ 8 \in Moduli /\ 8 # 65536 /\ 4 - 1 = 3 /\ 2 * 8 = 16
      BY SMT DEF Moduli
    <2> QED BY <1>4, <2>1, <1>8
  <1>10. Equal(5) \/ Apart(f[5], g[5], 32)
    <2>1. 5 \in 1 .. 8 /\ 16 \in Moduli /\ 16 # 65536 /\ 5 - 1 = 4 /\ 2 * 16 = 32
      BY SMT DEF Moduli
    <2> QED BY <1>4, <2>1, <1>9
  <1>11. Equal(6) \/ Apart(f[6], g[6], 64)
    <2>1. 6 \in 1 .. 8 /\ 32 \in Moduli /\ 32 # 65536 /\ 6 - 1 = 5 /\ 2 * 32 = 64
      BY SMT DEF Moduli
    <2> QED BY <1>4, <2>1, <1>10
  <1>12. Equal(7) \/ Apart(f[7], g[7], 128)
    <2>1. 7 \in 1 .. 8 /\ 64 \in Moduli /\ 64 # 65536 /\ 7 - 1 = 6 /\ 2 * 64 = 128
      BY SMT DEF Moduli
    <2> QED BY <1>4, <2>1, <1>11
  <1>13. Equal(8) \/ Apart(f[8], g[8], 256)
    <2>1. 8 \in 1 .. 8 /\ 128 \in Moduli /\ 128 # 65536 /\ 8 - 1 = 7 /\ 2 * 128 = 256
      BY SMT DEF Moduli
    <2> QED BY <1>4, <2>1, <1>12
  <1>14. ~Equal(8)
    BY BitsTellBytes DEF Equal
  <1> QED BY <1>1, <1>2, <1>13, <1>14

\* A difference in the low byte survives the next byte, whatever the bytes are.
LEMMA LowByteSpreads ==
  ASSUME NEW a \in Bytes, NEW b \in Bytes, NEW x \in Register, NEW y \in Register, Apart(x, y, 256)
  PROVE CrcByte(a)[x] # CrcByte(b)[y]
  <1>1. PICK f : BitSteps(f, a, x) /\ CrcByte(a)[x] = f[8]
    BY ByteSteps
  <1>2. PICK g : BitSteps(g, b, y) /\ CrcByte(b)[y] = g[8]
    BY ByteSteps
  <1>3. ASSUME NEW n \in 1 .. 8, NEW place \in Moduli, place # 65536, Apart(f[n - 1], g[n - 1], place)
        PROVE Apart(f[n], g[n], 2 * place)
    <2>1. n - 1 \in 0 .. 8 /\ f[n - 1] \in Register /\ g[n - 1] \in Register
      BY <1>1, <1>2 DEF BitSteps
    <2>2. Bit(a, n) \in {0, 1} /\ Bit(b, n) \in {0, 1}
      BY BitIs
    <2>3. f[n] = CrcBit(f[n - 1], Bit(a, n)) /\ g[n] = CrcBit(g[n - 1], Bit(b, n))
      BY <1>1, <1>2 DEF BitSteps
    <2> QED BY <1>3, <2>1, <2>2, <2>3, BitSpreads
  <1>4. Apart(f[0], g[0], 256)
    BY <1>1, <1>2 DEF BitSteps
  <1>5. Apart(f[1], g[1], 512)
    <2>1. 1 \in 1 .. 8 /\ 256 \in Moduli /\ 256 # 65536 /\ 1 - 1 = 0 /\ 2 * 256 = 512
      BY SMT DEF Moduli
    <2> QED BY SMT, <1>3, <2>1, <1>4
  <1>6. Apart(f[2], g[2], 1024)
    <2>1. 2 \in 1 .. 8 /\ 512 \in Moduli /\ 512 # 65536 /\ 2 - 1 = 1 /\ 2 * 512 = 1024
      BY SMT DEF Moduli
    <2> QED BY SMT, <1>3, <2>1, <1>5
  <1>7. Apart(f[3], g[3], 2048)
    <2>1. 3 \in 1 .. 8 /\ 1024 \in Moduli /\ 1024 # 65536 /\ 3 - 1 = 2 /\ 2 * 1024 = 2048
      BY SMT DEF Moduli
    <2> QED BY SMT, <1>3, <2>1, <1>6
  <1>8. Apart(f[4], g[4], 4096)
    <2>1. 4 \in 1 .. 8 /\ 2048 \in Moduli /\ 2048 # 65536 /\ 4 - 1 = 3 /\ 2 * 2048 = 4096
      BY SMT DEF Moduli
    <2> QED BY SMT, <1>3, <2>1, <1>7
  <1>9. Apart(f[5], g[5], 8192)
    <2>1. 5 \in 1 .. 8 /\ 4096 \in Moduli /\ 4096 # 65536 /\ 5 - 1 = 4 /\ 2 * 4096 = 8192
      BY SMT DEF Moduli
    <2> QED BY SMT, <1>3, <2>1, <1>8
  <1>10. Apart(f[6], g[6], 16384)
    <2>1. 6 \in 1 .. 8 /\ 8192 \in Moduli /\ 8192 # 65536 /\ 6 - 1 = 5 /\ 2 * 8192 = 16384
      BY SMT DEF Moduli
    <2> QED BY SMT, <1>3, <2>1, <1>9
  <1>11. Apart(f[7], g[7], 32768)
    <2>1. 7 \in 1 .. 8 /\ 16384 \in Moduli /\ 16384 # 65536 /\ 7 - 1 = 6 /\ 2 * 16384 = 32768
      BY SMT DEF Moduli
    <2> QED BY SMT, <1>3, <2>1, <1>10
  <1>12. Apart(f[8], g[8], 65536)
    <2>1. 8 \in 1 .. 8 /\ 32768 \in Moduli /\ 32768 # 65536 /\ 8 - 1 = 7 /\ 2 * 32768 = 65536
      BY SMT DEF Moduli
    <2> QED BY SMT, <1>3, <2>1, <1>11
  <1>13. f[8] # g[8]
    BY <1>12 DEF Apart
  <1> QED BY <1>1, <1>2, <1>13

\* Different registers stay so when the same byte comes in.
LEMMA BytesKeepApart ==
  ASSUME NEW a \in Bytes, NEW x \in Register, NEW y \in Register, x # y
  PROVE CrcByte(a)[x] # CrcByte(a)[y]
  <1>1. PICK f : BitSteps(f, a, x) /\ CrcByte(a)[x] = f[8]
    BY ByteSteps
  <1>2. PICK g : BitSteps(g, a, y) /\ CrcByte(a)[y] = g[8]
    BY ByteSteps
  <1>3. ASSUME NEW n \in 1 .. 8, f[n - 1] # g[n - 1] PROVE f[n] # g[n]
    <2>1. n - 1 \in 0 .. 8 /\ f[n - 1] \in Register /\ g[n - 1] \in Register
      BY <1>1, <1>2 DEF BitSteps
    <2>2. Bit(a, n) \in {0, 1}
      BY BitIs
    <2>3. f[n] = CrcBit(f[n - 1], Bit(a, n)) /\ g[n] = CrcBit(g[n - 1], Bit(a, n))
      BY <1>1, <1>2 DEF BitSteps
    <2> QED BY <1>3, <2>1, <2>2, <2>3, BitKeepsApart
  <1>4. \A n \in 0 .. 8 : f[n] # g[n]
    <2> DEFINE Same == {n \in 0 .. 8 : f[n] = g[n]}
    <2> SUFFICES ASSUME Same # {} PROVE FALSE
      OBVIOUS
    <2>1. PICK n \in Same : \A k \in Same : n <= k
      <3>1. Same \in SUBSET Nat
        OBVIOUS
      <3> QED BY <3>1, LeastExists
    <2>2. n # 0
      BY <1>1, <1>2, <2>1 DEF BitSteps
    <2>3. n \in 1 .. 8 /\ n - 1 \in 0 .. 8 /\ ~(n <= n - 1)
      BY <2>1, <2>2
    <2>4. f[n - 1] # g[n - 1]
      BY <2>1, <2>3
    <2> QED BY <1>3, <2>1, <2>3, <2>4
  <1> QED BY <1>1, <1>2, <1>4

\* The register from byte to byte.
Registers(f, bytes) ==
  /\ f \in [0 .. Len(bytes) -> Register]
  /\ f[0] = 65535
  /\ \A n \in 1 .. Len(bytes) : f[n] = CrcByte(bytes[n])[f[n - 1]]

LEMMA CrcIs ==
  ASSUME NEW bytes \in Seq(Bytes)
  PROVE \E f : Registers(f, bytes) /\ Crc(bytes) = f[Len(bytes)]
  <1> DEFINE N == Len(bytes)
             first == 65535
             step == [n \in 1 .. N |-> CrcByte(bytes[n])]
             Law(f) == f = [n \in 0 .. N |-> IF n = 0 THEN first ELSE CrcByte(bytes[n])[f[n - 1]]]
  <1>0. N \in Nat /\ \A n \in 1 .. N : bytes[n] \in Bytes
    BY LenProperties, ElementOfSeq
  <1>1. \A n \in 1 .. N : step[n] \in [Register -> Register] /\ step[n] = CrcByte(bytes[n])
    BY <1>0, CrcByteIs
  <1> HIDE DEF step
  <1>2. PICK f \in [0 .. N -> Register] : Chained(f, N, first, step)
    <2>1. first \in Register
      <3>1. Between(0, 65535, 65535)
        BY SMT DEF Between
      <3> QED BY SMT, <3>1, RegisterIs
    <2> HIDE DEF N, first
    <2> QED BY <1>0, <1>1, <2>1, ChainExists
  <1> HIDE DEF N
  <1>3. \A n \in 0 .. N : n # 0 => n \in 1 .. N /\ n - 1 \in 0 .. N
    BY <1>0
  <1>4. Law(f)
    BY SMT, <1>1, <1>2, <1>3 DEF Chained
  <1> DEFINE g == CHOOSE h : Law(h)
  <1>5. Law(g)
    <2> HIDE DEF Law
    <2> QED BY <1>4
  <1>6. Crc(bytes) = g[N]
    BY DEF Crc, N
  <1> HIDE DEF g, first
  <1>7. \A n \in 0 .. N : g[n] = f[n]
    <2> DEFINE Bad == {n \in 0 .. N : g[n] # f[n]}
    <2> SUFFICES ASSUME Bad # {} PROVE FALSE
      OBVIOUS
    <2>1. PICK n \in Bad : \A k \in Bad : n <= k
      <3>1. Bad \in SUBSET Nat
        BY <1>0
      <3> QED BY <3>1, LeastExists
    <2>2. n # 0
      BY <1>4, <1>5, <2>1
    <2>3. g[n - 1] = f[n - 1]
      <3>1. n - 1 \in 0 .. N /\ ~(n <= n - 1)
        BY <1>0, <2>1, <2>2
      <3> QED BY <2>1, <3>1
    <2>4. n \in 0 .. N /\ g[n] # f[n]
      BY <2>1
    <2>5. g[n] = CrcByte(bytes[n])[g[n - 1]]
      BY <1>5, <2>2, <2>4
    <2>6. f[n] = CrcByte(bytes[n])[f[n - 1]]
      BY <1>4, <2>2, <2>4
    <2> QED BY <2>3, <2>4, <2>5, <2>6
  <1>8. \A n \in 1 .. N : f[n] = CrcByte(bytes[n])[f[n - 1]]
    <2> SUFFICES ASSUME NEW n \in 1 .. N PROVE f[n] = CrcByte(bytes[n])[f[n - 1]]
      OBVIOUS
    <2>1. n \in 0 .. N /\ n # 0
      BY <1>0
    <2> QED BY <1>4, <2>1
  <1>9. 0 \in 0 .. N /\ N \in 0 .. N
    BY <1>0
  <1>10. f[0] = first /\ f[N] = g[N]
    BY <1>4, <1>7, <1>9
  <1>11. Registers(f, bytes)
    BY SMT, <1>2, <1>8, <1>10 DEF Registers, N, first
  <1> QED BY <1>6, <1>10, <1>11 DEF N

\* One byte or two neighbours that differ show in the CRC.
LEMMA CrcTellsApart ==
  ASSUME NEW s \in Seq(Bytes), NEW t \in Seq(Bytes), Len(s) = Len(t), NEW n \in 1 .. Len(s),
         s[n] # t[n], \A i \in 1 .. Len(s) : i # n /\ i # n + 1 => s[i] = t[i]
  PROVE Crc(s) # Crc(t)
  <1> DEFINE N == Len(s)
  <1>1. N \in Nat /\ \A i \in 1 .. N : s[i] \in Bytes /\ t[i] \in Bytes
    BY LenProperties, ElementOfSeq
  <1>2. PICK f : Registers(f, s) /\ Crc(s) = f[N]
    BY CrcIs
  <1>3. PICK g : Registers(g, t) /\ Crc(t) = g[N]
    BY CrcIs
  <1>4. /\ \A i \in 0 .. N : f[i] \in Register /\ g[i] \in Register
        /\ f[0] = g[0]
        /\ \A i \in 1 .. N : f[i] = CrcByte(s[i])[f[i - 1]] /\ g[i] = CrcByte(t[i])[g[i - 1]]
    <2>1. /\ f \in [0 .. N -> Register] /\ f[0] = 65535
          /\ \A i \in 1 .. N : f[i] = CrcByte(s[i])[f[i - 1]]
      BY SMT, <1>2 DEF Registers
    <2>2. /\ g \in [0 .. N -> Register] /\ g[0] = 65535
          /\ \A i \in 1 .. N : g[i] = CrcByte(t[i])[g[i - 1]]
      BY SMT, <1>3 DEF Registers
    <2>3. f[0] = g[0]
      BY SMT, <2>1, <2>2
    <2>4. \A i \in 0 .. N : f[i] \in Register /\ g[i] \in Register
      BY SMT, <2>1, <2>2
    <2>5. \A i \in 1 .. N : f[i] = CrcByte(s[i])[f[i - 1]] /\ g[i] = CrcByte(t[i])[g[i - 1]]
      BY SMT, <2>1, <2>2
    <2> QED BY <2>3, <2>4, <2>5
  <1> HIDE DEF N
  <1>5. n \in 1 .. N /\ \A i \in 1 .. N : i # n /\ i # n + 1 => s[i] = t[i]
    BY DEF N
  <1>6. \A i \in 0 .. N : i < n => f[i] = g[i]
    <2> DEFINE Bad == {i \in 0 .. N : i < n /\ f[i] # g[i]}
    <2> SUFFICES ASSUME Bad # {} PROVE FALSE
      OBVIOUS
    <2>1. PICK i \in Bad : \A k \in Bad : i <= k
      <3>1. Bad \in SUBSET Nat
        BY <1>1
      <3> QED BY <3>1, LeastExists
    <2>2. i # 0
      BY <1>4, <2>1
    <2>3. i \in 1 .. N /\ i - 1 \in 0 .. N /\ ~(i <= i - 1) /\ i - 1 < n /\ i # n /\ i # n + 1
      BY <1>1, <1>5, <2>1, <2>2
    <2>4. f[i - 1] = g[i - 1]
      BY <2>1, <2>3
    <2>5. s[i] = t[i]
      BY <1>5, <2>3
    <2> QED BY <1>4, <2>1, <2>3, <2>4, <2>5
  <1>7. Apart(f[n], g[n], 256)
    <2>1. n - 1 \in 0 .. N /\ n - 1 < n
      BY <1>1, <1>5
    <2>2. f[n - 1] = g[n - 1] /\ f[n - 1] \in Register
      BY <1>4, <1>6, <2>1
    <2>3. Apart(CrcByte(s[n])[f[n - 1]], CrcByte(t[n])[f[n - 1]], 256)
      BY <1>1, <1>5, <2>2, BytesSpread
    <2>4. f[n] = CrcByte(s[n])[f[n - 1]] /\ g[n] = CrcByte(t[n])[g[n - 1]]
      BY <1>4, <1>5
    <2> QED BY <2>2, <2>3, <2>4
  <1>8. \A i \in 0 .. N : i >= n => f[i] # g[i]
    <2> DEFINE Bad == {i \in 0 .. N : i >= n /\ f[i] = g[i]}
    <2> SUFFICES ASSUME Bad # {} PROVE FALSE
      OBVIOUS
    <2>1. PICK i \in Bad : \A k \in Bad : i <= k
      <3>1. Bad \in SUBSET Nat
        BY <1>1
      <3> QED BY <3>1, LeastExists
    <2>2. i # n
      BY <1>7, <2>1 DEF Apart
    <2>3. /\ i \in 1 .. N /\ i - 1 \in 0 .. N /\ ~(i <= i - 1) /\ i - 1 >= n
          /\ i # n /\ (i = n + 1 => i - 1 = n)
      BY <1>1, <1>5, <2>1, <2>2
    <2>4. f[i] = CrcByte(s[i])[f[i - 1]] /\ g[i] = CrcByte(t[i])[g[i - 1]]
      BY <1>4, <2>3
    <2>5. f[i - 1] \in Register /\ g[i - 1] \in Register /\ s[i] \in Bytes /\ t[i] \in Bytes
      BY <1>1, <1>4, <2>3
    <2>6. CASE i = n + 1
      <3>1. Apart(f[i - 1], g[i - 1], 256)
        BY <1>7, <2>3, <2>6
      <3>2. CrcByte(s[i])[f[i - 1]] # CrcByte(t[i])[g[i - 1]]
        BY <2>5, <3>1, LowByteSpreads
      <3> QED BY <2>1, <2>4, <3>2
    <2>7. CASE i # n + 1
      <3>1. s[i] = t[i]
        BY <1>5, <2>3, <2>7
      <3>2. f[i - 1] # g[i - 1]
        BY <2>1, <2>3
      <3>3. CrcByte(s[i])[f[i - 1]] # CrcByte(s[i])[g[i - 1]]
        BY <2>5, <3>2, BytesKeepApart
      <3> QED BY <2>1, <2>4, <3>1, <3>3
    <2> QED BY <2>6, <2>7
  <1>9. N \in 0 .. N /\ N >= n
    BY <1>1, <1>5
  <1> QED BY <1>2, <1>3, <1>8, <1>9

(***************************************************************************)
(* The bytes of a slot.                                                    *)
(***************************************************************************)
Slots == [1 .. 16 -> Bytes]

LEMMA ByteIs ==
  ASSUME NEW v \in Int, NEW place \in Nat \ {0}
  PROVE Byte(v, place) \in Bytes
  <1>1. v \div place \in Int
    OBVIOUS
  <1>2. \A k \in Int : k % 256 \in 0 .. 255
    OBVIOUS
  <1> QED BY <1>1, <1>2 DEF Byte, Bytes

\* What the widths of the fields allow for.
Storable(r) ==
  r.time \in Int /\ r.temp \in Int /\ r.hum \in Int /\ r.pressure \in Int /\ r.flags \in Bytes /\ r.boot \in Bytes

LEMMA CrcInRegister ==
  ASSUME NEW bytes \in Seq(Bytes)
  PROVE Crc(bytes) \in Register
  <1>1. PICK f : Registers(f, bytes) /\ Crc(bytes) = f[Len(bytes)]
    BY CrcIs
  <1>2. f \in [0 .. Len(bytes) -> Register]
    BY SMT, <1>1 DEF Registers
  <1>3. Len(bytes) \in 0 .. Len(bytes)
    BY LenProperties
  <1> QED BY <1>1, <1>2, <1>3

LEMMA BodyIs ==
  ASSUME NEW r, Storable(r)
  PROVE Body(r) \in Seq(Bytes) /\ Len(Body(r)) = 14
  <1>1. 1 \in Nat \ {0} /\ 256 \in Nat \ {0} /\ 65536 \in Nat \ {0} /\ 16777216 \in Nat \ {0}
    BY SMT
  <1>2. \A v \in Int : Byte(v, 1) \in Bytes /\ Byte(v, 256) \in Bytes /\ Byte(v, 65536) \in Bytes /\ Byte(v, 16777216) \in Bytes
    BY SMT, <1>1, ByteIs
  <1> QED BY SMT, <1>2 DEF Body, Storable

LEMMA EncodeIs ==
  ASSUME NEW r, Storable(r)
  PROVE /\ Encode(r) \in Slots
        /\ \A i \in 1 .. 14 : Encode(r)[i] = Body(r)[i]
        /\ Encode(r)[15] = Byte(Crc(Body(r)), 1) /\ Encode(r)[16] = Byte(Crc(Body(r)), 256)
  <1> DEFINE crc == Crc(Body(r))
             last == <<Byte(crc, 1), Byte(crc, 256)>>
  <1>1. Body(r) \in Seq(Bytes) /\ Len(Body(r)) = 14
    BY BodyIs
  <1>2. crc \in Int
    BY SMT, <1>1, CrcInRegister, RegisterIs DEF Between
  <1>3. Encode(r) = Body(r) \o last
    BY DEF Encode
  <1> HIDE DEF crc
  <1>4. Byte(crc, 1) \in Bytes /\ Byte(crc, 256) \in Bytes
    BY <1>2, ByteIs
  <1>5. last \in Seq(Bytes) /\ Len(last) = 2 /\ last[1] = Byte(crc, 1) /\ last[2] = Byte(crc, 256)
    BY <1>4
  <1> HIDE DEF last
  <1>6. /\ Body(r) \o last \in Seq(Bytes) /\ Len(Body(r) \o last) = 16
        /\ \A i \in 1 .. 16 : (Body(r) \o last)[i] = IF i <= 14 THEN Body(r)[i] ELSE last[i - 14]
    <2>1. last \in Seq(Bytes)
      BY <1>5
    <2>2. /\ Body(r) \o last \in Seq(Bytes) /\ Len(Body(r) \o last) = Len(Body(r)) + Len(last)
          /\ \A i \in 1 .. Len(Body(r)) + Len(last) :
                (Body(r) \o last)[i] = IF i <= Len(Body(r)) THEN Body(r)[i] ELSE last[i - Len(Body(r))]
      BY <1>1, <2>1, ConcatProperties
    <2>3. Len(Body(r)) = 14 /\ Len(last) = 2 /\ 14 + 2 = 16
      BY <1>1, <1>5
    <2> QED BY <2>2, <2>3
  <1>7. Encode(r) \in Slots
    <2>1. Encode(r) \in [1 .. Len(Encode(r)) -> Bytes]
      BY <1>3, <1>6, LenProperties
    <2> QED BY <1>3, <1>6, <2>1 DEF Slots
  <1> DEFINE whole == Body(r) \o last
             body == Body(r)
  <1>8. \A i \in 1 .. 16 : whole[i] = IF i <= 14 THEN body[i] ELSE last[i - 14]
    BY <1>6
  <1>9. Encode(r) = whole
    BY <1>3
  <1> HIDE DEF whole, body
  <1>10. Encode(r)[15] = last[1] /\ Encode(r)[16] = last[2]
    BY <1>8, <1>9
  <1>11. \A i \in 1 .. 14 : Encode(r)[i] = Body(r)[i]
    <2>1. \A i \in 1 .. 14 : whole[i] = body[i]
      BY <1>8
    <2> QED BY <1>9, <2>1 DEF body
  <1>12. Encode(r)[15] = Byte(crc, 1) /\ Encode(r)[16] = Byte(crc, 256)
    BY <1>5, <1>10
  <1> QED BY <1>7, <1>11, <1>12 DEF crc

LEMMA FrontIs ==
  ASSUME NEW bytes \in Slots
  PROVE /\ SubSeq(bytes, 1, 14) \in Seq(Bytes) /\ Len(SubSeq(bytes, 1, 14)) = 14
        /\ \A i \in 1 .. 14 : SubSeq(bytes, 1, 14)[i] = bytes[i]
  <1>1. \A i \in 1 .. 14 : bytes[i] \in Bytes
    BY DEF Slots
  <1>2. 1 \in Int /\ 14 \in Int /\ 1 <= 14 /\ 14 - 1 + 1 = 14
    OBVIOUS
  <1>3. /\ SubSeq(bytes, 1, 14) \in Seq(Bytes)
        /\ Len(SubSeq(bytes, 1, 14)) = IF 1 <= 14 THEN 14 - 1 + 1 ELSE 0
        /\ \A i \in 1 .. 14 - 1 + 1 : SubSeq(bytes, 1, 14)[i] = bytes[1 + i - 1]
    BY <1>1, <1>2, SubSeqProperties
  <1>4. \A i \in 1 .. 14 : 1 + i - 1 = i
    OBVIOUS
  <1>5. \A i \in 1 .. 14 : SubSeq(bytes, 1, 14)[i] = bytes[i]
    BY <1>2, <1>3, <1>4
  <1>6. Len(SubSeq(bytes, 1, 14)) = 14
    BY <1>2, <1>3
  <1> QED BY <1>3, <1>5, <1>6

LEMMA SameFront ==
  ASSUME NEW bytes \in Slots, NEW r, Storable(r), \A i \in 1 .. 14 : bytes[i] = Body(r)[i]
  PROVE SubSeq(bytes, 1, 14) = Body(r)
  <1>1. /\ SubSeq(bytes, 1, 14) \in Seq(Bytes) /\ Len(SubSeq(bytes, 1, 14)) = 14
        /\ \A i \in 1 .. 14 : SubSeq(bytes, 1, 14)[i] = bytes[i]
    BY FrontIs
  <1>2. Body(r) \in Seq(Bytes) /\ Len(Body(r)) = 14
    BY BodyIs
  <1> QED BY <1>1, <1>2, SeqEqual

LEMMA CrcComesBack ==
  ASSUME NEW r, Storable(r)
  PROVE U16(Encode(r), 15) = Crc(Body(r))
  <1>1. Crc(Body(r)) \in Nat /\ Crc(Body(r)) <= 65535
    BY SMT, BodyIs, CrcInRegister, RegisterIs DEF Between
  <1>2. \A c \in Nat : c <= 65535 => Byte(c, 1) + 256 * Byte(c, 256) = c
    BY SMT DEF Byte
  <1>3. /\ U16(Encode(r), 15) = Encode(r)[15] + 256 * Encode(r)[16]
    BY DEF U16
  <1>4. Encode(r)[15] = Byte(Crc(Body(r)), 1) /\ Encode(r)[16] = Byte(Crc(Body(r)), 256)
    BY EncodeIs
  <1> QED BY SMT, <1>1, <1>2, <1>3, <1>4

\* What the fields of a record have room for.
Percent(x) == Between(0, x, 10000)
Field16(x) == Between(-32768, x, 32767)

LEMMA ReadingIs ==
  ASSUME MeasureInv
  PROVE /\ Field16(Reading(cal, adc).temp) /\ Pascals(Reading(cal, adc).pressure)
        /\ Percent(Reading(cal, adc).hum)
  <1>1. InRange(adc) /\ (Fitted(cal) \/ Zeroed(cal))
    BY ValuesInRange
  <1>2. /\ Reading(cal, adc).temp = TempCenti(cal, adc)
        /\ Reading(cal, adc).pressure = Pressure(cal, adc).value
        /\ Reading(cal, adc).hum = Humidity(cal, adc).value
    BY DEF Reading
  <1>3. \A f \in Int : -207966 <= f /\ f <= 435533 => Field16((f * 5 + 128) \div 256)
    BY SMT DEF Field16, Between
  <1>4. Field16(TempCenti(cal, adc))
    <2>1. CASE Fitted(cal)
      <3>1. Between(-207966, Fine(cal, adc).value, 435533)
        BY SMT, <1>1, <2>1, FineFits
      <3>2. TempCenti(cal, adc) = (Fine(cal, adc).value * 5 + 128) \div 256
        BY SMT DEF TempCenti
      <3> QED BY SMT, <1>3, <3>1, <3>2 DEF Between
    <2>2. CASE Zeroed(cal)
      <3>1. Fine(cal, adc).value = 0
        BY <1>1, <2>2, ZeroedFits
      <3>2. TempCenti(cal, adc) = (Fine(cal, adc).value * 5 + 128) \div 256
        BY SMT DEF TempCenti
      <3> QED BY SMT, <1>3, <3>1, <3>2
    <2> QED BY <1>1, <2>1, <2>2
  <1>5. Pascals(Pressure(cal, adc).value)
    <2>1. CASE Fitted(cal)
      BY <1>1, <2>1, PressureFits
    <2>2. CASE Zeroed(cal)
      <3>1. Pressure(cal, adc) = [value |-> 0, products |-> {}, wraps |-> FALSE]
        BY <1>1, <2>2, ZeroedFits
      <3>2. Pressure(cal, adc).value = 0
        BY <3>1
      <3> QED BY SMT, <3>2 DEF Pascals, Between
    <2> QED BY <1>1, <2>1, <2>2
  <1>6. Percent(Humidity(cal, adc).value)
    <2>1. CASE Fitted(cal)
      BY SMT, <1>1, <2>1, HumidityFits DEF Percent
    <2>2. CASE Zeroed(cal)
      <3>1. Humidity(cal, adc).value = 0
        BY <1>1, <2>2, ZeroedFits
      <3> QED BY SMT, <3>1 DEF Percent, Between
    <2> QED BY <1>1, <2>1, <2>2
  <1> QED BY <1>2, <1>4, <1>5, <1>6

\* The clamps leave such a reading alone.
LEMMA ClampsKeep ==
  /\ \A x : Field16(x) => ClampI16(x) = x
  /\ \A x : Percent(x) => ClampU16(x) = x
  <1>1. ASSUME NEW x, Field16(x) PROVE ClampI16(x) = x
    <2>1. x \in Int /\ -32768 <= x /\ x <= 32767
      BY SMT, <1>1 DEF Field16, Between
    <2> DEFINE high == 32767
               low == -32768
    <2>2. high \in Int /\ low \in Int /\ low <= x /\ x <= high
      BY SMT, <2>1
    <2>3. ClampI16(x) = Max({low, Min({high, x})})
      BY SMT DEF ClampI16
    <2> HIDE DEF high, low
    <2>4. Min({high, x}) = x
      BY <2>1, <2>2, MinIs
    <2>5. Max({low, x}) = x
      BY <2>1, <2>2, MaxIs
    <2> QED BY <2>3, <2>4, <2>5
  <1>2. ASSUME NEW x, Percent(x) PROVE ClampU16(x) = x
    <2> DEFINE high == 65535
    <2>2. x \in Int /\ high \in Int /\ x <= high
      BY SMT, <1>2 DEF Percent, Between
    <2>3. ClampU16(x) = Min({high, x})
      BY SMT DEF ClampU16
    <2> HIDE DEF high
    <2>4. Min({high, x}) = x
      BY <2>2, MinIs
    <2> QED BY <2>3, <2>4
  <1> QED BY <1>1, <1>2

Stamped(s) == Between(0, s.time, MaxInt) /\ s.flags \in {0, 1} /\ s.boot \in Bytes

LEMMA RecordIs ==
  ASSUME MeasureInv
  PROVE LET r == Record(cal, adc, stamp)
            now == Reading(cal, adc)
        IN /\ r = [time |-> stamp.time, temp |-> now.temp, hum |-> now.hum, pressure |-> now.pressure,
                   flags |-> stamp.flags, boot |-> stamp.boot]
           /\ Storable(r) /\ Stamped(stamp)
  <1> DEFINE r == Record(cal, adc, stamp)
             now == Reading(cal, adc)
  <1>1. Field16(now.temp) /\ Pascals(now.pressure) /\ Percent(now.hum)
    BY ReadingIs
  <1>2. ClampI16(now.temp) = now.temp /\ ClampU16(now.hum) = now.hum
    BY <1>1, ClampsKeep
  <1>3. r = [time |-> stamp.time, temp |-> ClampI16(now.temp), hum |-> ClampU16(now.hum),
             pressure |-> now.pressure, flags |-> stamp.flags, boot |-> stamp.boot]
    BY DEF Record
  <1> HIDE DEF r, now
  <1>4. r = [time |-> stamp.time, temp |-> now.temp, hum |-> now.hum, pressure |-> now.pressure,
             flags |-> stamp.flags, boot |-> stamp.boot]
    BY <1>2, <1>3
  <1>5. Stamped(stamp)
    BY SMT DEF MeasureInv, Stamps, Stamped, Between, MaxInt, Bytes
  <1>6. stamp.time \in Int /\ now.temp \in Int /\ now.hum \in Int /\ now.pressure \in Int
    BY SMT, <1>1, <1>5 DEF Field16, Pascals, Percent, Stamped, Between
  <1>7. stamp.flags \in Bytes /\ stamp.boot \in Bytes
    <2>1. 0 \in Bytes /\ 1 \in Bytes
      BY SMT DEF Bytes
    <2>2. stamp.flags \in {0, 1} /\ stamp.boot \in Bytes
      BY SMT, <1>5 DEF Stamped
    <2> QED BY <2>1, <2>2
  <1>8. Storable(r)
    BY <1>4, <1>6, <1>7 DEF Storable
  <1> QED BY <1>4, <1>5, <1>8 DEF r, now

\* A value in its bytes, and back.
LEMMA FourBytes ==
  ASSUME NEW v, Between(0, v, MaxInt)
  PROVE Byte(v, 1) + 256 * Byte(v, 256) + 65536 * (Byte(v, 65536) + 256 * Byte(v, 16777216)) = v
  BY SMT DEF Byte, Between, MaxInt

LEMMA TwoBytes ==
  ASSUME NEW v, Field16(v)
  PROVE Signed(Byte(v, 1) + 256 * Byte(v, 256), 65536) = v
  BY SMT DEF Byte, Between, Field16, Signed

LEMMA ComesBack ==
  ASSUME NEW r, Storable(r), Between(0, r.time, MaxInt), Field16(r.temp), Percent(r.hum), Pascals(r.pressure)
  PROVE Decode(Encode(r)) = [time |-> r.time, temp |-> r.temp, hum |-> r.hum, pressure |-> r.pressure,
                             flags |-> r.flags, boot |-> r.boot]
  <1> DEFINE bytes == Encode(r)
             body == Body(r)
  <1>1. /\ bytes \in Slots /\ \A i \in 1 .. 14 : bytes[i] = body[i]
    BY EncodeIs
  <1>2. SubSeq(bytes, 1, 14) = body
    BY <1>1, SameFront
  <1>3. U16(bytes, 15) = Crc(body)
    BY CrcComesBack
  <1>4. /\ body[1] = Byte(r.time, 1) /\ body[2] = Byte(r.time, 256)
        /\ body[3] = Byte(r.time, 65536) /\ body[4] = Byte(r.time, 16777216)
        /\ body[5] = Byte(r.temp, 1) /\ body[6] = Byte(r.temp, 256)
        /\ body[7] = Byte(r.hum, 1) /\ body[8] = Byte(r.hum, 256)
        /\ body[9] = Byte(r.pressure, 1) /\ body[10] = Byte(r.pressure, 256)
        /\ body[11] = Byte(r.pressure, 65536) /\ body[12] = Byte(r.pressure, 16777216)
        /\ body[13] = r.flags /\ body[14] = r.boot
    BY SMT DEF Body
  <1> HIDE DEF bytes, body
  <1>5. \A i \in 1 .. 14 : i \in 1 .. 16
    OBVIOUS
  <1>6. ~IsEmpty(bytes)
    <2>1. Byte(r.pressure, 16777216) = 0
      BY SMT DEF Pascals, Between, Byte
    <2>2. bytes[12] = 0 /\ 12 \in DOMAIN bytes
      BY SMT, <1>1, <1>4, <2>1 DEF Slots
    <2> QED BY <2>2 DEF IsEmpty
  <1>7. Decode(bytes) = [time |-> U16(bytes, 1) + 65536 * U16(bytes, 3), temp |-> S16(bytes, 5),
                         hum |-> U16(bytes, 7), pressure |-> U16(bytes, 9) + 65536 * U16(bytes, 11),
                         flags |-> bytes[13], boot |-> bytes[14]]
    <2> DEFINE read == [time |-> U16(bytes, 1) + 65536 * U16(bytes, 3), temp |-> S16(bytes, 5),
                        hum |-> U16(bytes, 7), pressure |-> U16(bytes, 9) + 65536 * U16(bytes, 11),
                        flags |-> bytes[13], boot |-> bytes[14]]
    <2>1. Decode(bytes) = IF IsEmpty(bytes) \/ U16(bytes, 15) # Crc(SubSeq(bytes, 1, 14)) THEN None ELSE read
      BY SMT DEF Decode
    <2>2. read = [time |-> U16(bytes, 1) + 65536 * U16(bytes, 3), temp |-> S16(bytes, 5),
                  hum |-> U16(bytes, 7), pressure |-> U16(bytes, 9) + 65536 * U16(bytes, 11),
                  flags |-> bytes[13], boot |-> bytes[14]]
      BY SMT
    <2> HIDE DEF read
    <2>3. Decode(bytes) = read
      BY <1>2, <1>3, <1>6, <2>1
    <2> QED BY SMT, <2>2, <2>3
  <1>8. U16(bytes, 1) + 65536 * U16(bytes, 3) = r.time
    <2>1. /\ bytes[1] = Byte(r.time, 1) /\ bytes[2] = Byte(r.time, 256)
          /\ bytes[3] = Byte(r.time, 65536) /\ bytes[4] = Byte(r.time, 16777216)
      BY SMT, <1>1, <1>4
    <2>2. U16(bytes, 1) = bytes[1] + 256 * bytes[2] /\ U16(bytes, 3) = bytes[3] + 256 * bytes[4]
      BY DEF U16
    <2> QED BY SMT, <2>1, <2>2, FourBytes
  <1>9. S16(bytes, 5) = r.temp
    <2>1. bytes[5] = Byte(r.temp, 1) /\ bytes[6] = Byte(r.temp, 256)
      BY SMT, <1>1, <1>4
    <2>2. U16(bytes, 5) = bytes[5] + 256 * bytes[6]
      BY DEF U16
    <2> QED BY SMT, <2>1, <2>2, TwoBytes DEF S16
  <1>10. U16(bytes, 7) = r.hum
    <2>1. bytes[7] = Byte(r.hum, 1) /\ bytes[8] = Byte(r.hum, 256)
      BY SMT, <1>1, <1>4
    <2>2. U16(bytes, 7) = bytes[7] + 256 * bytes[8]
      BY DEF U16
    <2>3. Byte(r.hum, 1) + 256 * Byte(r.hum, 256) = r.hum
      BY SMT DEF Byte, Between, Percent
    <2> QED BY <2>1, <2>2, <2>3
  <1>11. U16(bytes, 9) + 65536 * U16(bytes, 11) = r.pressure
    <2>1. /\ bytes[9] = Byte(r.pressure, 1) /\ bytes[10] = Byte(r.pressure, 256)
          /\ bytes[11] = Byte(r.pressure, 65536) /\ bytes[12] = Byte(r.pressure, 16777216)
      BY SMT, <1>1, <1>4
    <2>2. U16(bytes, 9) = bytes[9] + 256 * bytes[10] /\ U16(bytes, 11) = bytes[11] + 256 * bytes[12]
      BY DEF U16
    <2>3. Between(0, r.pressure, MaxInt)
      BY SMT DEF Pascals, Between, MaxInt
    <2> QED BY SMT, <2>1, <2>2, <2>3, FourBytes
  <1>12. bytes[13] = r.flags /\ bytes[14] = r.boot
    BY SMT, <1>1, <1>4
  <1>13. Decode(bytes) = [time |-> r.time, temp |-> r.temp, hum |-> r.hum, pressure |-> r.pressure,
                          flags |-> r.flags, boot |-> r.boot]
    BY <1>7, <1>8, <1>9, <1>10, <1>11, <1>12
  <1> QED BY <1>13 DEF bytes

\* The reading is what was measured.
LEMMA ReaderGetsIt == MeasureInv => ReaderGetsTheReading
  <1> SUFFICES ASSUME MeasureInv, slot = Encode(Record(cal, adc, stamp)), pc = "written"
               PROVE LET read == Decode(slot)
                         r == Reading(cal, adc)
                     IN /\ read = [time |-> stamp.time, temp |-> r.temp, hum |-> r.hum, pressure |-> r.pressure,
                                   flags |-> stamp.flags, boot |-> stamp.boot]
                        /\ r.hum <= 10000
    BY SMT DEF ReaderGetsTheReading
  <1> DEFINE now == Reading(cal, adc)
             r == Record(cal, adc, stamp)
  <1>1. /\ r = [time |-> stamp.time, temp |-> now.temp, hum |-> now.hum, pressure |-> now.pressure,
                flags |-> stamp.flags, boot |-> stamp.boot]
        /\ Storable(r) /\ Stamped(stamp)
    BY RecordIs
  <1>2. Field16(now.temp) /\ Pascals(now.pressure) /\ Percent(now.hum)
    BY ReadingIs
  <1>3. slot = Encode(r)
    OBVIOUS
  <1> HIDE DEF now, r
  <1>4. /\ r.time = stamp.time /\ r.temp = now.temp /\ r.hum = now.hum /\ r.pressure = now.pressure
        /\ r.flags = stamp.flags /\ r.boot = stamp.boot
    BY <1>1
  <1>5. Between(0, r.time, MaxInt)
    BY SMT, <1>1, <1>4 DEF Stamped
  <1>6. Decode(Encode(r)) = [time |-> r.time, temp |-> r.temp, hum |-> r.hum, pressure |-> r.pressure,
                             flags |-> r.flags, boot |-> r.boot]
    BY <1>1, <1>2, <1>4, <1>5, ComesBack
  <1>7. now.hum <= 10000
    BY SMT, <1>2 DEF Percent, Between
  <1> QED BY <1>3, <1>4, <1>6, <1>7 DEF now

\* What log_record_decode gives of an undamaged record is what was measured: the clamps of
\* sampler_tick and the widths of the fields change nothing.
THEOREM ReadingReaches == MeasureSpec => []ReaderGetsTheReading
  <1>1. MeasureInv => ReaderGetsTheReading
    BY ReaderGetsIt
  <1> QED BY <1>1, MeasureInvInit, MeasureInvStep, PTL DEF MeasureSpec

(***************************************************************************)
(* Damage.                                                                 *)
(***************************************************************************)
SlotTyped == slot \in Slots

LEMMA CutIs ==
  ASSUME NEW bytes \in Slots, NEW n \in 0 .. 16, NEW half \in BOOLEAN
  PROVE Cut(bytes, n, half) \in Slots
  <1>1. \A b \in Bytes : (b \div 16) * 16 + 15 \in Bytes
    BY DEF Bytes
  <1>2. 255 \in Bytes
    BY DEF Bytes
  <1>3. \A i \in 1 .. 16 : bytes[i] \in Bytes /\ (bytes[i] \div 16) * 16 + 15 \in Bytes
    BY <1>1 DEF Slots
  <1> QED BY SMT, <1>2, <1>3 DEF Cut, Slots

LEMMA WornIs ==
  ASSUME NEW bytes \in Slots, NEW n \in 1 .. 16, NEW worn \in Worn(bytes, n)
  PROVE worn \in Slots
  <1>1. PICK v \in {0, (bytes[n] + 1) % 256, 255 - bytes[n]} : worn = [bytes EXCEPT ![n] = v]
    BY SMT DEF Worn
  <1>2. bytes[n] \in Bytes
    BY DEF Slots
  <1>3. v \in Bytes
    BY SMT, <1>2 DEF Bytes
  <1> QED BY <1>1, <1>3 DEF Slots

LEMMA SlotTypedInit == MeasureInit => SlotTyped
  <1>1. Erased \in Slots
    BY DEF Erased, Slots, Bytes
  <1> QED BY <1>1 DEF MeasureInit, SlotTyped

LEMMA SlotTypedNext == MeasureInv /\ SlotTyped /\ [MeasureNext]_measureVars => SlotTyped'
  <1> SUFFICES ASSUME MeasureInv, SlotTyped, [MeasureNext]_measureVars PROVE SlotTyped'
    OBVIOUS
  <1>1. CASE Rises("t", Temps) \/ Rises("p", Pressures) \/ Rises("h", Hums) \/ UNCHANGED measureVars
    BY <1>1 DEF Rises, SlotTyped, measureVars
  <1>2. CASE Write
    <2>1. Encode(Record(cal, adc, stamp)) \in Slots
      BY RecordIs, EncodeIs
    <2> DEFINE bytes == Encode(Record(cal, adc, stamp))
    <2>2. CASE \E n \in 0 .. 16, half \in BOOLEAN : slot' = Cut(bytes, n, half)
      <3> HIDE DEF bytes
      <3> QED BY <2>1, <2>2, CutIs DEF SlotTyped, bytes
    <2>3. CASE \E n \in 1 .. 16 : slot' \in Worn(bytes, n)
      BY <2>1, <2>3, WornIs DEF SlotTyped
    <2> QED BY <1>2, <2>2, <2>3 DEF Write
  <1>3. CASE Read
    <2>1. Erased \in Slots
      BY DEF Erased, Slots, Bytes
    <2> QED BY <1>3, <2>1 DEF Read, SlotTyped
  <1> QED BY <1>1, <1>2, <1>3 DEF MeasureNext

\* The highest of some numbers below a bound.
LEMMA GreatestIsOne ==
  ASSUME NEW N \in Nat, NEW S \in SUBSET (0 .. N), S # {}
  PROVE Max(S) \in S /\ \A i \in S : i <= Max(S)
  <1> DEFINE T == {N - i : i \in S}
  <1>1. T \in SUBSET Nat /\ T # {}
    <2>1. \A i \in S : N - i \in Nat
      OBVIOUS
    <2> QED BY <2>1
  <1>2. PICK t \in T : \A k \in T : t <= k
    BY <1>1, LeastExists
  <1>3. PICK m \in S : t = N - m
    BY <1>2
  <1>4. \A i \in S : i <= m
    <2> SUFFICES ASSUME NEW i \in S PROVE i <= m
      OBVIOUS
    <2>1. N - i \in T
      OBVIOUS
    <2>2. t <= N - i
      BY <1>2, <2>1
    <2> QED BY <1>3, <2>2
  <1>5. Max(S) = m
    BY <1>4, MaxIs
  <1> QED BY <1>4, <1>5

LEMMA DamageShows ==
  ASSUME NEW bytes \in Slots, NEW r, Storable(r), NEW n \in 1 .. 16, bytes[n] # Encode(r)[n],
         \A i \in 1 .. 16 : bytes[i] # Encode(r)[i] => i = n \/ i = n + 1,
         n = 14 => bytes[15] = Encode(r)[15]
  PROVE Decode(bytes) = None
  <1> DEFINE whole == Encode(r)
             body == Body(r)
             front == SubSeq(bytes, 1, 14)
  <1>1. /\ whole \in Slots /\ \A i \in 1 .. 14 : whole[i] = body[i]
    BY EncodeIs
  <1>2. U16(whole, 15) = Crc(body)
    BY CrcComesBack
  <1>3. front \in Seq(Bytes) /\ Len(front) = 14 /\ \A i \in 1 .. 14 : front[i] = bytes[i]
    BY FrontIs
  <1>4. body \in Seq(Bytes) /\ Len(body) = 14
    BY BodyIs
  <1>5. bytes[n] # whole[n] /\ (n = 14 => bytes[15] = whole[15])
        /\ \A i \in 1 .. 16 : bytes[i] # whole[i] => i = n \/ i = n + 1
    OBVIOUS
  <1>6. U16(bytes, 15) = bytes[15] + 256 * bytes[16] /\ U16(whole, 15) = whole[15] + 256 * whole[16]
    BY DEF U16
  <1>7. Decode(bytes) = None \/ U16(bytes, 15) = Crc(front)
    BY SMT DEF Decode
  <1>8. n >= 15 => front = body
    <2> SUFFICES ASSUME n >= 15 PROVE front = body
      OBVIOUS
    <2>1. \A i \in 1 .. 14 : bytes[i] = Body(r)[i]
      BY <1>1, <1>5
    <2> QED BY <2>1, SameFront
  <1> HIDE DEF whole, body, front
  <1>9. CASE n <= 14
    <2>1. bytes[15] = whole[15] /\ bytes[16] = whole[16]
      BY <1>5, <1>9
    <2>2. U16(bytes, 15) = Crc(body)
      BY <1>2, <1>6, <2>1
    <2>3. n \in 1 .. Len(front) /\ Len(front) = Len(body)
      BY <1>3, <1>4, <1>9
    <2>4. front[n] # body[n]
      BY <1>1, <1>3, <1>5, <1>9
    <2>5. \A i \in 1 .. Len(front) : i # n /\ i # n + 1 => front[i] = body[i]
      BY <1>1, <1>3, <1>5
    <2>6. Crc(front) # Crc(body)
      BY <1>3, <1>4, <2>3, <2>4, <2>5, CrcTellsApart
    <2> QED BY <1>7, <2>2, <2>6
  <1>10. CASE n >= 15
    <2>1. /\ bytes[15] \in 0 .. 255 /\ bytes[16] \in 0 .. 255
          /\ whole[15] \in 0 .. 255 /\ whole[16] \in 0 .. 255
      BY <1>1 DEF Slots, Bytes
    <2>2. bytes[15] # whole[15] \/ bytes[16] # whole[16]
      BY <1>5, <1>10
    <2>3. U16(bytes, 15) # U16(whole, 15)
      <3>1. PICK a \in 0 .. 255, b \in 0 .. 255 : a = bytes[15] /\ b = bytes[16]
        BY <2>1
      <3>2. PICK c \in 0 .. 255, d \in 0 .. 255 : c = whole[15] /\ d = whole[16]
        BY <2>1
      <3>3. a # c \/ b # d
        BY <2>2, <3>1, <3>2
      <3>4. a + 256 * b # c + 256 * d
        BY <3>3
      <3> QED BY <1>6, <3>1, <3>2, <3>4
    <2> QED BY <1>2, <1>7, <1>8, <1>10, <2>3
  <1> QED BY <1>9, <1>10

LEMMA DamageIsSeenAlways == MeasureInv /\ SlotTyped => DamageIsSeen
  <1> DEFINE bytes == Encode(Record(cal, adc, stamp))
             damaged == {n \in 1 .. 16 : slot[n] # bytes[n]}
  <1> SUFFICES ASSUME MeasureInv, SlotTyped, damaged # {}, Max(damaged) - Min(damaged) <= 1, damaged # {14, 15}
               PROVE Decode(slot) = None
    BY DEF DamageIsSeen
  <1>1. Storable(Record(cal, adc, stamp))
    BY RecordIs
  <1>2. slot \in Slots
    BY DEF SlotTyped
  <1>3. damaged # {} /\ Max(damaged) - Min(damaged) <= 1 /\ damaged # {14, 15}
    OBVIOUS
  <1>4. damaged \in SUBSET (1 .. 16) /\ \A n \in 1 .. 16 : n \in damaged <=> slot[n] # bytes[n]
    OBVIOUS
  <1> HIDE DEF damaged
  <1>5. PICK n \in damaged : \A i \in damaged : n <= i
    <2>1. damaged \in SUBSET Nat
      BY <1>4
    <2> QED BY <1>3, <2>1, LeastExists
  <1>6. Min(damaged) = n
    <2>1. damaged \in SUBSET Int
      BY <1>4
    <2> QED BY <1>5, <2>1, MinIs
  <1>7. Max(damaged) \in damaged /\ \A i \in damaged : i <= Max(damaged)
    <2>1. damaged \in SUBSET (0 .. 16) /\ 16 \in Nat
      BY <1>4
    <2> QED BY <1>3, <2>1, GreatestIsOne
  <1>8. \A i \in damaged : i = n \/ i = n + 1
    <2>1. PICK m \in damaged : Max(damaged) = m
      BY <1>7
    <2>2. m - n <= 1 /\ \A i \in damaged : n <= i /\ i <= m
      BY <1>3, <1>5, <1>6, <1>7, <2>1
    <2>3. \A i \in damaged : i \in Int
      BY <1>4
    <2> QED BY <2>2, <2>3
  <1>9. n = 14 => 15 \notin damaged
    <2> SUFFICES ASSUME n = 14, 15 \in damaged PROVE FALSE
      OBVIOUS
    <2>1. \A i : i \in damaged <=> i = 14 \/ i = 15
      <3>1. 14 \in damaged /\ 15 \in damaged
        BY <1>5
      <3>2. 14 + 1 = 15
        OBVIOUS
      <3> QED BY <1>8, <3>1, <3>2
    <2>2. damaged = {14, 15}
      BY <2>1
    <2> QED BY <1>3, <2>2
  <1>10. /\ n \in 1 .. 16 /\ slot[n] # bytes[n]
         /\ \A i \in 1 .. 16 : slot[i] # bytes[i] => i = n \/ i = n + 1
         /\ n = 14 => slot[15] = bytes[15]
    BY <1>4, <1>5, <1>8, <1>9
  <1> QED BY <1>1, <1>2, <1>10, DamageShows

\* One damaged byte, or two neighbours but for the last of the body with the first of the CRC:
\* log_record_decode refuses the slot.
THEOREM DamageShowsAlways == MeasureSpec => []DamageIsSeen
  <1>1. MeasureInv /\ SlotTyped => DamageIsSeen
    BY DamageIsSeenAlways
  <1> QED BY <1>1, MeasureInvInit, MeasureInvStep, SlotTypedInit, SlotTypedNext, PTL DEF MeasureSpec

(***************************************************************************)
(* A higher raw value.                                                     *)
(***************************************************************************)
\* t_fine from the two shifted raw values, for the coefficients t2 and t3.
FineOf(coarse, offset) ==
  (coarse * 26435) \div 2048 + (((offset * offset) \div 4096) * (-1000)) \div 16384

LEMMA FineIs ==
  ASSUME NEW c, Fitted(c), NEW raw, InRange(raw)
  PROVE Fine(c, raw).value = FineOf(raw.t \div 8 - 55008, raw.t \div 16 - 27504)
  <1> DEFINE coarse == raw.t \div 8 - 2 * c.t1
             offset == raw.t \div 16 - c.t1
             bent == Square(offset) \div 4096
  <1>1. Fine(c, raw).value = Mul(coarse, c.t2) \div 2048 + Mul(bent, c.t3) \div 16384
    BY SMT DEF Fine
  <1>2. coarse = raw.t \div 8 - 55008 /\ offset = raw.t \div 16 - 27504 /\ c.t2 = 26435 /\ c.t3 = -1000
    BY SMT DEF Fitted
  <1>3. Within(coarse, 33742) /\ Within(offset, 16871)
    BY SMT, <1>2 DEF InRange, Within, Between
  <1> HIDE DEF coarse, offset
  <1>4. Square(offset) = offset * offset /\ Between(0, offset * offset, 284630641)
    BY SMT, <1>3, SquareFits DEF MaxInt, Between
  <1>5. Within(bent, 69489) /\ bent = (offset * offset) \div 4096
    BY SMT, <1>4 DEF Between, Within
  <1> HIDE DEF bent
  <1>6. Mul(coarse, c.t2) = coarse * 26435
    <2>1. Within(26435, 26435)
      BY SMT DEF Within
    <2> QED BY SMT, <1>2, <1>3, <2>1, ProductFits DEF MaxInt
  <1>7. Mul(bent, c.t3) = bent * (-1000)
    <2>1. Within(-1000, 1000)
      BY SMT DEF Within
    <2> QED BY SMT, <1>2, <1>5, <2>1, ProductFits DEF MaxInt
  <1>8. Fine(c, raw).value = (coarse * 26435) \div 2048 + (bent * (-1000)) \div 16384
    BY SMT, <1>1, <1>6, <1>7
  <1> QED BY SMT, <1>2, <1>5, <1>8 DEF FineOf

\* How far apart two squares are.
LEMMA SquaresRise ==
  ASSUME NEW a \in Int, NEW b \in Int, NEW bound \in Nat, Within(a, bound), Within(b, bound), a <= b
  PROVE Within(b * b - a * a, (b - a) * (2 * bound))
  <1>1. a + b <= 2 * bound /\ -(2 * bound) <= a + b
    BY SMT DEF Within
  <1>2. b * b - a * a = (b - a) * (a + b)
    BY SMT
  <1>3. \A k \in Nat, s \in Int : s <= 2 * bound /\ -(2 * bound) <= s =>
          k * s <= k * (2 * bound) /\ -(k * (2 * bound)) <= k * s
    BY SMT
  <1>4. b - a \in Nat
    BY SMT
  <1>5. /\ (b - a) * (a + b) <= (b - a) * (2 * bound)
        /\ -((b - a) * (2 * bound)) <= (b - a) * (a + b)
    BY SMT, <1>1, <1>3, <1>4
  <1> QED BY SMT, <1>2, <1>5 DEF Within

LEMMA FineRises ==
  ASSUME NEW c, Fitted(c), NEW raw, InRange(raw), NEW next, InRange(next), raw.t <= next.t
  PROVE Fine(c, raw).value <= Fine(c, next).value
  <1> DEFINE low == raw.t
             high == next.t
  <1>1. low \in Int /\ high \in Int /\ low <= high /\ 313800 <= low /\ high <= 710000
    BY SMT DEF InRange, Between
  <1> HIDE DEF low, high
  <1>2. PICK i \in Int : i = low \div 8 - 55008
    BY SMT, <1>1
  <1>3. PICK j \in Int : j = high \div 8 - 55008
    BY SMT, <1>1
  <1>4. PICK m \in Int : m = low \div 16 - 27504
    BY SMT, <1>1
  <1>5. PICK n \in Int : n = high \div 16 - 27504
    BY SMT, <1>1
  <1>6. /\ Within(m, 16871) /\ Within(n, 16871) /\ m <= n /\ i <= j
        /\ 2 * m <= i /\ i <= 2 * m + 1 /\ 2 * n <= j /\ j <= 2 * n + 1
    BY SMT, <1>1, <1>2, <1>3, <1>4, <1>5 DEF Within
  <1>7. Within(n * n - m * m, (n - m) * 33742)
    <2>1. 16871 \in Nat /\ 2 * 16871 = 33742
      BY SMT
    <2> QED BY SMT, <1>6, <2>1, SquaresRise
  <1>8. PICK u \in Int : u = m * m
    BY SMT
  <1>9. PICK v \in Int : v = n * n
    BY SMT
  <1>10. v - u <= (n - m) * 33742 /\ (n = m => u = v)
    BY SMT, <1>7, <1>8, <1>9 DEF Within
  <1>11. (i * 26435) \div 2048 + ((u \div 4096) * (-1000)) \div 16384
           <= (j * 26435) \div 2048 + ((v \div 4096) * (-1000)) \div 16384
    <2>1. CASE n = m
      BY SMT, <1>6, <1>10, <2>1
    <2>2. CASE n >= m + 1
      BY SMT, <1>6, <1>10, <2>2
    <2> QED BY SMT, <1>6, <2>1, <2>2
  <1>12. Fine(c, raw).value = FineOf(i, m) /\ Fine(c, next).value = FineOf(j, n)
    BY SMT, <1>2, <1>3, <1>4, <1>5, FineIs DEF low, high
  <1> QED BY SMT, <1>8, <1>9, <1>11, <1>12 DEF FineOf

\* The two branches of Halved in one: the division rounds down either 6250 q, or 3125 q and doubles.
LEMMA Share ==
  ASSUME NEW q \in Nat, NEW v \in Nat \ {0}, NEW k \in Nat
  PROVE LET e == (q \div v) * k + ((q % v) * k) \div v
        IN e \in Int /\ v * e <= q * k /\ q * k < v * e + v
  <1>1. PICK d \in Int : d = q \div v
    BY SMT
  <1>2. PICK r \in Int : r = q % v
    BY SMT
  <1>3. q = v * d + r
    BY SMT, <1>1, <1>2
  <1>4. PICK s \in Int : s = r * k
    BY SMT
  <1>5. PICK t \in Int : t = s \div v
    BY SMT, <1>4
  <1>6. v * t <= s /\ s < v * t + v
    BY SMT, <1>5
  <1>7. q * k = v * (d * k) + s /\ v * (d * k + t) = v * (d * k) + v * t
    BY SMT, <1>3, <1>4
  <1>8. v * (d * k + t) <= q * k /\ q * k < v * (d * k + t) + v
    BY SMT, <1>6, <1>7
  <1>9. (q \div v) * k + ((q % v) * k) \div v = d * k + t
    BY SMT, <1>1, <1>2, <1>4, <1>5
  <1>10. d * k + t \in Int
    BY SMT
  <1> QED BY <1>8, <1>9, <1>10

HalvedNear(q, v, h) ==
  /\ h \in Int /\ v * h <= q * 6250
  /\ (q * 6250 < v * h + v \/ (q * 6250 < v * h + 2 * v /\ h % 2 = 0))

LEMMA HalvedBounds ==
  ASSUME NEW q \in Nat, NEW v \in Nat \ {0}
  PROVE HalvedNear(q, v, Halved(q, v))
  <1> DEFINE e(k) == (q \div v) * k + ((q % v) * k) \div v
             h == Halved(q, v)
  <1>1. \A k \in Nat : e(k) \in Int /\ v * e(k) <= q * k /\ q * k < v * e(k) + v
    <2> SUFFICES ASSUME NEW k \in Nat PROVE e(k) \in Int /\ v * e(k) <= q * k /\ q * k < v * e(k) + v
      OBVIOUS
    <2> QED BY Share
  <1>2. h = IF q <= 687194 THEN e(6250) ELSE 2 * e(3125)
    BY SMT DEF Halved
  <1> HIDE DEF e, h
  <1>3. CASE q <= 687194
    <2>1. h = e(6250)
      BY SMT, <1>2, <1>3
    <2> QED BY SMT, <1>1, <2>1 DEF h, HalvedNear
  <1>4. CASE ~(q <= 687194)
    <2>1. PICK m \in Int : m = e(3125)
      BY SMT, <1>1
    <2>2. v * m <= q * 3125 /\ q * 3125 < v * m + v
      BY SMT, <1>1, <2>1
    <2>3. h = 2 * m
      BY SMT, <1>2, <1>4, <2>1
    <2>4. v * (2 * m) = 2 * (v * m) /\ q * 6250 = 2 * (q * 3125) /\ (2 * m) % 2 = 0 /\ 2 * m \in Int
      BY SMT
    <2>5. v * (2 * m) <= q * 6250 /\ q * 6250 < v * (2 * m) + 2 * v
      BY SMT, <2>2, <2>4
    <2> QED BY SMT, <2>3, <2>4, <2>5 DEF h, HalvedNear
  <1> QED BY SMT, <1>3, <1>4

\* A smaller q gives no greater quotient, but for one where the greater q is doubled last.
LEMMA HalvedFalls ==
  ASSUME NEW q \in Nat, NEW less \in Nat, less <= q, NEW v \in Nat \ {0}
  PROVE \/ Halved(less, v) <= Halved(q, v)
        \/ Halved(less, v) = Halved(q, v) + 1 /\ Halved(q, v) % 2 = 0
  <1>0. HalvedNear(less, v, Halved(less, v)) /\ HalvedNear(q, v, Halved(q, v))
    BY HalvedBounds
  <1>1. PICK a \in Int : a = Halved(less, v) /\ v * a <= less * 6250
    BY SMT, <1>0 DEF HalvedNear
  <1>2. PICK b \in Int : /\ b = Halved(q, v)
                         /\ (q * 6250 < v * b + v \/ (q * 6250 < v * b + 2 * v /\ b % 2 = 0))
    BY SMT, <1>0 DEF HalvedNear
  <1>3. less * 6250 <= q * 6250
    BY SMT
  <1>4. a >= b + 1 => v * a >= v * b + v
    BY SMT
  <1>5. a >= b + 2 => v * a >= v * b + 2 * v
    BY SMT
  <1>6. a <= b \/ (a = b + 1 /\ b % 2 = 0)
    BY SMT, <1>1, <1>2, <1>3, <1>4, <1>5
  <1> QED BY SMT, <1>1, <1>2, <1>6

LEMMA CorrectedFalls ==
  ASSUME NEW p \in Nat, NEW less \in Nat, less <= p \/ (less = p + 1 /\ p % 2 = 0)
  PROVE Corrected(less) <= Corrected(p) + 1
  <1>1. CASE less <= p
    <2>1. PICK i \in Nat : i = less \div 8
      BY SMT
    <2>2. PICK j \in Nat : j = p \div 8
      BY SMT
    <2>3. i <= j
      BY SMT, <1>1, <2>1, <2>2
    <2>4. i * i \in Nat /\ j * j \in Nat /\ i * i <= j * j
      BY SMT, <2>3
    <2>5. PICK s \in Nat : s = i * i
      BY SMT, <2>4
    <2>6. PICK t \in Nat : t = j * j
      BY SMT, <2>4
    <2>7. s <= t
      BY SMT, <2>4, <2>5, <2>6
    <2>8. PICK x \in Int : x = ((s \div 8192) * 6000) \div 4096
      BY SMT
    <2>9. PICK y \in Int : y = ((t \div 8192) * 6000) \div 4096
      BY SMT
    <2>10. x <= y
      BY SMT, <2>7, <2>8, <2>9
    <2>11. less + (x + ((less \div 4) * (-14600)) \div 8192 + 15500) \div 16
             <= p + (y + ((p \div 4) * (-14600)) \div 8192 + 15500) \div 16 + 1
      BY SMT, <1>1, <2>10
    <2> QED BY SMT, <2>1, <2>2, <2>5, <2>6, <2>8, <2>9, <2>11 DEF Corrected
  <1>2. CASE less = p + 1 /\ p % 2 = 0
    <2>1. less \div 8 = p \div 8 /\ less \div 4 = p \div 4
      BY SMT, <1>2
    <2> DEFINE correction(i, k) == (((i * i) \div 8192) * 6000) \div 4096 + (k * (-14600)) \div 8192 + 15500
    <2>2. /\ Corrected(less) = less + correction(less \div 8, less \div 4) \div 16
          /\ Corrected(p) = p + correction(p \div 8, p \div 4) \div 16
      BY SMT DEF Corrected
    <2>3. PICK m \in Int : m = correction(p \div 8, p \div 4) \div 16
      BY SMT
    <2> HIDE DEF correction
    <2>4. Corrected(less) = less + m /\ Corrected(p) = p + m
      BY <2>1, <2>2, <2>3
    <2> QED BY SMT, <1>2, <2>4
  <1> QED BY <1>1, <1>2

LEMMA PressureFalls ==
  ASSUME NEW c, Fitted(c), NEW raw, InRange(raw), NEW next, InRange(next), raw.t = next.t, raw.p <= next.p
  PROVE Pressure(c, next).value <= Pressure(c, raw).value + 1
  <1>1. Fine(c, next).value = Fine(c, raw).value
    BY SMT DEF Fine
  <1> DEFINE f == Fine(c, raw).value
             ahead == OffsetOf(c, f) \div 4096
             v == DivisorOf(c, f)
  <1>2. /\ 1048576 - raw.p - ahead \in Nat /\ v \in Nat \ {0}
        /\ Between(18750, Halved(1048576 - raw.p - ahead, v), 137500)
        /\ Pressure(c, raw).value = Corrected(Halved(1048576 - raw.p - ahead, v))
        /\ ahead \in Int
    <2>1. PressureIs(c, raw)
      BY PressureFits
    <2> QED BY SMT, <2>1 DEF PressureIs
  <1>3. /\ 1048576 - next.p - ahead \in Nat
        /\ Between(18750, Halved(1048576 - next.p - ahead, v), 137500)
        /\ Pressure(c, next).value = Corrected(Halved(1048576 - next.p - ahead, v))
    <2>1. PressureIs(c, next)
      BY PressureFits
    <2> QED BY SMT, <1>1, <2>1 DEF PressureIs
  <1> HIDE DEF v, ahead, f
  <1>4. PICK q \in Nat : q = 1048576 - raw.p - ahead
    BY SMT, <1>2
  <1>5. PICK less \in Nat : less = 1048576 - next.p - ahead
    BY SMT, <1>3
  <1>6. less <= q
    <2>1. raw.p \in Int /\ next.p \in Int
      BY SMT DEF InRange, Between
    <2> QED BY SMT, <1>2, <1>4, <1>5, <2>1
  <1>7. \/ Halved(less, v) <= Halved(q, v)
        \/ Halved(less, v) = Halved(q, v) + 1 /\ Halved(q, v) % 2 = 0
    <2>1. v \in Nat \ {0}
      BY SMT, <1>2
    <2> QED BY <1>6, <2>1, HalvedFalls
  <1>8. Halved(less, v) \in Nat /\ Halved(q, v) \in Nat
    BY SMT, <1>2, <1>3, <1>4, <1>5 DEF Between
  <1>9. Corrected(Halved(less, v)) <= Corrected(Halved(q, v)) + 1
    BY <1>7, <1>8, CorrectedFalls
  <1> QED BY SMT, <1>2, <1>3, <1>4, <1>5, <1>9

LEMMA LimitedRises ==
  ASSUME NEW y \in Int, NEW higher \in Int, y <= higher
  PROVE Limited(y) <= Limited(higher)
  <1>1. PICK a \in Int : a = (IF y < 0 THEN 0 ELSE IF y > 419430400 THEN 419430400 ELSE y)
    BY SMT
  <1>2. PICK b \in Int : b = (IF higher < 0 THEN 0 ELSE IF higher > 419430400 THEN 419430400 ELSE higher)
    BY SMT
  <1>3. a <= b
    BY SMT, <1>1, <1>2
  <1>4. Limited(y) = ((a \div 4096) * 100 + 512) \div 1024
    BY SMT, <1>1 DEF Limited
  <1>5. Limited(higher) = ((b \div 4096) * 100 + 512) \div 1024
    BY SMT, <1>2 DEF Limited
  <1> QED BY SMT, <1>3, <1>4, <1>5

\* The square is too flat to turn it round, for arguments that are not close to each other.
LEMMA BentRises ==
  ASSUME NEW x, Within(x, 1308130505), NEW higher, Within(higher, 1308130505),
         x = higher \/ x + 38000 <= higher
  PROVE Bent(x) \in Int /\ Bent(higher) \in Int /\ Bent(x) <= Bent(higher)
  <1>1. x \in Int /\ higher \in Int /\ x <= higher
    BY SMT DEF Within
  <1>2. PICK d \in Int : d = x \div 32768
    BY SMT, <1>1
  <1>3. PICK e \in Int : e = higher \div 32768
    BY SMT, <1>1
  <1>4. Within(d, 39921) /\ Within(e, 39921) /\ d <= e /\ 32768 * (e - d) <= higher - x + 32768
    BY SMT, <1>1, <1>2, <1>3 DEF Within
  <1>5. Within(e * e - d * d, (e - d) * 79842)
    <2>1. 39921 \in Nat /\ 2 * 39921 = 79842
      BY SMT
    <2> QED BY SMT, <1>4, <2>1, SquaresRise
  <1>6. PICK s \in Int : s = d * d
    BY SMT
  <1>7. PICK t \in Int : t = e * e
    BY SMT
  <1>8. t - s <= (e - d) * 79842
    BY SMT, <1>5, <1>6, <1>7 DEF Within
  <1>9. Bent(x) = x - ((s \div 128) * 75) \div 16 /\ Bent(higher) = higher - ((t \div 128) * 75) \div 16
    BY SMT, <1>2, <1>3, <1>6, <1>7 DEF Bent
  <1>10. CASE x = higher
    BY SMT, <1>1, <1>9, <1>10
  <1>11. CASE x + 38000 <= higher
    <2>1. (t \div 128) * 75 - (s \div 128) * 75 <= (e - d) * 46783 + 75
      BY SMT, <1>4, <1>8
    <2>2. ((t \div 128) * 75) \div 16 - ((s \div 128) * 75) \div 16 <= (e - d) * 2924 + 6
      BY SMT, <1>4, <2>1
    <2>3. (e - d) * 2924 + 6 <= higher - x
      BY SMT, <1>1, <1>4, <1>11
    <2> QED BY SMT, <1>1, <1>9, <2>2, <2>3
  <1> QED BY <1>10, <1>11

LEMMA HumidityRises ==
  ASSUME NEW c, Fitted(c), NEW raw, InRange(raw), NEW next, InRange(next), raw.t = next.t, raw.h <= next.h
  PROVE Humidity(c, raw).value <= Humidity(c, next).value
  <1>1. Fine(c, next).value = Fine(c, raw).value
    BY SMT DEF Fine
  <1> DEFINE f == Fine(c, raw).value
             low == LinearOf(c, f, raw.h)
             high == LinearOf(c, f, next.h)
             slope == SlopeOf(c, f)
  <1>2. /\ Within(low, 23683) /\ Between(38000, slope, 55235) /\ Mul(c.h5, f - 76800) \in Int
        /\ Humidity(c, raw).value = Limited(Bent(low * slope))
    <2>1. HumidityIs(c, raw)
      BY HumidityFits
    <2> QED BY SMT, <2>1 DEF HumidityIs
  <1>3. Within(high, 23683) /\ Humidity(c, next).value = Limited(Bent(high * slope))
    <2>1. HumidityIs(c, next)
      BY HumidityFits
    <2> QED BY SMT, <1>1, <2>1 DEF HumidityIs
  <1>4. low <= high
    <2>1. raw.h \in Int /\ next.h \in Int
      BY SMT DEF InRange, Between
    <2> QED BY SMT, <1>2, <2>1 DEF LinearOf
  <1> HIDE DEF low, high, slope
  <1>5. /\ Within(low * slope, 1308130505) /\ Within(high * slope, 1308130505)
        /\ (low * slope = high * slope \/ low * slope + 38000 <= high * slope)
    <2>1. Within(slope, 55235)
      BY SMT, <1>2 DEF Between, Within
    <2>2. Within(low * slope, 23683 * 55235) /\ Within(high * slope, 23683 * 55235)
      BY SMT, <1>2, <1>3, <2>1, ProductFits DEF MaxInt
    <2>3. low \in Int /\ high \in Int /\ slope \in Int /\ 38000 <= slope
      BY SMT, <1>2, <1>3 DEF Within, Between
    <2>4. PICK k \in Nat : high = low + k
      BY SMT, <1>4, <2>3
    <2>5. high * slope = low * slope + k * slope
      BY SMT, <2>3, <2>4
    <2>6. k = 0 \/ k * slope >= slope
      BY SMT, <2>3
    <2>7. k * slope = 0 \/ 38000 <= k * slope
      BY SMT, <2>3, <2>6
    <2>8. low * slope \in Int /\ k * slope \in Int
      BY SMT, <2>3
    <2> QED BY SMT, <2>2, <2>5, <2>7, <2>8
  <1>6. Bent(low * slope) \in Int /\ Bent(high * slope) \in Int /\ Bent(low * slope) <= Bent(high * slope)
    BY SMT, <1>5, BentRises
  <1>7. Limited(Bent(low * slope)) <= Limited(Bent(high * slope))
    BY <1>6, LimitedRises
  <1> QED BY SMT, <1>2, <1>3, <1>7

LEMMA FittedFollows ==
  ASSUME NEW c, Fitted(c), NEW raw, InRange(raw), NEW next, InRange(next)
  PROVE /\ raw.t <= next.t => Reading(c, raw).temp <= Reading(c, next).temp
        /\ raw.t = next.t /\ raw.p <= next.p => Reading(c, next).pressure <= Reading(c, raw).pressure + 1
        /\ raw.t = next.t /\ raw.h <= next.h => Reading(c, raw).hum <= Reading(c, next).hum
  <1>1. /\ Reading(c, raw).temp = TempCenti(c, raw) /\ Reading(c, next).temp = TempCenti(c, next)
        /\ Reading(c, raw).pressure = Pressure(c, raw).value /\ Reading(c, next).pressure = Pressure(c, next).value
        /\ Reading(c, raw).hum = Humidity(c, raw).value /\ Reading(c, next).hum = Humidity(c, next).value
    BY DEF Reading
  <1>2. ASSUME raw.t <= next.t PROVE TempCenti(c, raw) <= TempCenti(c, next)
    <2>1. Fine(c, raw).value <= Fine(c, next).value
      BY <1>2, FineRises
    <2>2. Fine(c, raw).value \in Int /\ Fine(c, next).value \in Int
      BY SMT, FineFits DEF Between
    <2> QED BY SMT, <2>1, <2>2 DEF TempCenti
  <1> QED BY <1>1, <1>2, PressureFalls, HumidityRises

LEMMA ZeroedFollows ==
  ASSUME NEW c, Zeroed(c), NEW raw, InRange(raw)
  PROVE Reading(c, raw) = [temp |-> 0, pressure |-> 0, hum |-> 0]
  <1>1. /\ Fine(c, raw).value = 0 /\ Pressure(c, raw) = [value |-> 0, products |-> {}, wraps |-> FALSE]
        /\ Humidity(c, raw).value = 0
    BY ZeroedFits
  <1>2. TempCenti(c, raw) = 0
    BY SMT, <1>1 DEF TempCenti
  <1>3. Pressure(c, raw).value = 0
    BY <1>1
  <1> QED BY <1>1, <1>2, <1>3 DEF Reading

LEMMA FollowsStep ==
  MeasureInv /\ MeasureInv' /\ [MeasureNext]_measureVars =>
    [LET before == Reading(cal, adc)
         after == Reading(cal', adc')
     IN /\ adc'.t > adc.t => after.temp >= before.temp
        /\ adc'.p > adc.p => after.pressure <= before.pressure + 1
        /\ adc'.h > adc.h => after.hum >= before.hum]_adc
  <1> DEFINE before == Reading(cal, adc)
             after == Reading(cal', adc')
  <1> SUFFICES ASSUME MeasureInv, MeasureInv', [MeasureNext]_measureVars, adc' # adc
               PROVE /\ adc'.t > adc.t => after.temp >= before.temp
                     /\ adc'.p > adc.p => after.pressure <= before.pressure + 1
                     /\ adc'.h > adc.h => after.hum >= before.hum
    OBVIOUS
  <1>1. InRange(adc) /\ (Fitted(cal) \/ Zeroed(cal))
    BY ValuesInRange
  <1>2. InRange(adc')
    <2>1. adc'.t \in Temps /\ adc'.p \in Pressures /\ adc'.h \in Hums
      BY DEF MeasureInv
    <2> QED BY <2>1, RawValuesAreInRange DEF InRange
  <1>3. /\ cal' = cal
        /\ \/ adc'.p = adc.p /\ adc'.h = adc.h
           \/ adc'.t = adc.t /\ adc'.h = adc.h
           \/ adc'.t = adc.t /\ adc'.p = adc.p
    <2>1. adc \in [t : Temps, p : Pressures, h : Hums]
      BY DEF MeasureInv
    <2>2. CASE Rises("t", Temps)
      <3>1. PICK v \in Temps : adc' = [adc EXCEPT !["t"] = v]
        BY <2>2 DEF Rises
      <3>2. adc'.p = adc.p /\ adc'.h = adc.h
        BY <2>1, <3>1
      <3> QED BY <2>2, <3>2 DEF Rises
    <2>3. CASE Rises("p", Pressures)
      <3>1. PICK v \in Pressures : adc' = [adc EXCEPT !["p"] = v]
        BY <2>3 DEF Rises
      <3>2. adc'.t = adc.t /\ adc'.h = adc.h
        BY <2>1, <3>1
      <3> QED BY <2>3, <3>2 DEF Rises
    <2>4. CASE Rises("h", Hums)
      <3>1. PICK v \in Hums : adc' = [adc EXCEPT !["h"] = v]
        BY <2>4 DEF Rises
      <3>2. adc'.t = adc.t /\ adc'.p = adc.p
        BY <2>1, <3>1
      <3> QED BY <2>4, <3>2 DEF Rises
    <2>5. ~Write /\ ~Read /\ ~UNCHANGED measureVars
      BY DEF Write, Read, measureVars
    <2> QED BY <2>2, <2>3, <2>4, <2>5 DEF MeasureNext
  <1>4. /\ adc.t \in Int /\ adc'.t \in Int /\ adc.p \in Int /\ adc'.p \in Int /\ adc.h \in Int /\ adc'.h \in Int
    BY SMT, <1>1, <1>2 DEF InRange, Between
  <1>5. Field16(before.temp) /\ Pascals(before.pressure) /\ Percent(before.hum)
    BY ReadingIs
  <1>6. CASE Fitted(cal)
    <2>1. after = Reading(cal, adc')
      BY <1>3
    <2>2. /\ adc.t <= adc'.t => before.temp <= after.temp
          /\ adc.t = adc'.t /\ adc.p <= adc'.p => after.pressure <= before.pressure + 1
          /\ adc.t = adc'.t /\ adc.h <= adc'.h => before.hum <= after.hum
      BY <1>1, <1>2, <1>6, <2>1, FittedFollows
    <2> HIDE DEF before, after
    <2> QED BY SMT, <1>3, <1>4, <2>2
  <1>7. CASE Zeroed(cal)
    <2>1. before = [temp |-> 0, pressure |-> 0, hum |-> 0] /\ after = [temp |-> 0, pressure |-> 0, hum |-> 0]
      BY <1>1, <1>2, <1>3, <1>7, ZeroedFollows
    <2> HIDE DEF before, after
    <2> QED BY SMT, <2>1
  <1> QED BY <1>1, <1>6, <1>7

\* As a raw value goes up through the operating range, the temperature does not fall, the pressure
\* does not rise but for the one pascal, and the humidity does not fall.
THEOREM ReadingsFollow == MeasureSpec => Follows
  <1>1. MeasureInv /\ MeasureInv' /\ [MeasureNext]_measureVars =>
          [LET before == Reading(cal, adc)
               after == Reading(cal', adc')
           IN /\ adc'.t > adc.t => after.temp >= before.temp
              /\ adc'.p > adc.p => after.pressure <= before.pressure + 1
              /\ adc'.h > adc.h => after.hum >= before.hum]_adc
    BY FollowsStep
  <1> QED BY <1>1, MeasureInvInit, MeasureInvStep, PTL DEF MeasureSpec, Follows
================================================================================
