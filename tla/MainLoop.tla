------------------------------- MODULE MainLoop -------------------------------
(***************************************************************************)
(* The two tasks that use the sensor: app_main (app-main.c), which boots   *)
(* and then loops over sampler_tick (sampler.c) and the requests that come *)
(* over USB, and the httpd task with the requests of the web page (web.c). *)
(* Both take the device lock; both call bme280_read (bme280.c), step by    *)
(* step here, on a sensor that can be pulled and plugged in again.         *)
(*                                                                         *)
(* The sensor is external: a forced measurement sets the measuring bit     *)
(* until it is done, which may take for ever; its results stay until those *)
(* of the next; a sensor that lost its power has forgotten its settings;   *)
(* without a sensor MISO floats, and a read returns all zeros or all ones. *)
(***************************************************************************)
EXTENDS UsbLine

CONSTANTS
  Chunk,         \* sizeof buf: bytes taken from USB at a time
  MaxPolls,      \* MEASURE_POLL_MAX
  MaxPieces,     \* bound: the most pieces of a reply, each given to usb_write
  MaxInterval    \* bound: the longest sampling interval considered

ASSUME LoopBounds ==
  Chunk \in Nat \ {0} /\ MaxPolls \in Nat /\ MaxPieces \in Nat \ {0} /\ MaxInterval \in Nat \ {0}

VARIABLES
  main,          \* what the main loop is about to do
  room,          \* bytes of the chunk that are still to be looked at
  pieces,        \* pieces of the reply that are still to be written
  web,           \* what the httpd task is about to do, "off" before web_start
  lock,          \* g_device_lock: the task that holds it, or "free"
  elapsed,       \* uptime_s - g_last_sample_s, counted up to MaxInterval
  interval,      \* g_interval_s
  sensorOk,      \* g_sensor_ok
  fitted,        \* g_sensor_ptr # NULL: bme280_init succeeded at boot
  call,          \* the call of bme280_read each task is in
  sensor         \* the sensor

loopVars == <<main, room, pieces>>
vars == <<lineVars, loopVars, web, lock, elapsed, interval, sensorOk, fitted, call, sensor>>

Task == {"main", "web"}
NoCall == [step |-> "none", polls |-> 0, got |-> "none", calm |-> TRUE]
NewCall == [NoCall EXCEPT !.step = "id"]

\* The first tick samples at once.
Init ==
  /\ LineInit
  /\ main = "reset" /\ room = 0 /\ pieces = 0 /\ web = "off" /\ lock = "free"
  /\ elapsed = MaxInterval /\ interval \in 1 .. MaxInterval
  /\ fitted = FALSE /\ sensorOk = FALSE
  /\ call = [t \in Task |-> NoCall]
  /\ \E wired, set \in BOOLEAN :
       sensor = [wired |-> wired, set |-> set, measures |-> "none", data |-> "old"]

(***************************************************************************)
(* Boot: bme280_init, one bus access at a time, and the rest of app_main.  *)
(***************************************************************************)
InitSteps == {"reset", "chip_id", "calib", "hum", "config", "sleep"}
InitNext == [reset |-> "chip_id", chip_id |-> "calib", calib |-> "hum", hum |-> "config",
             config |-> "sleep", sleep |-> "partition"]

\* The sensor starts anew; only the chip id tells whether it is there. What the calibration
\* registers hold is the business of Measurement.
InitSensor ==
  /\ main \in InitSteps
  /\ main = "chip_id" => sensor.wired
  /\ main' = InitNext[main]
  /\ fitted' = (main = "sleep")
  /\ sensor' = CASE main = "reset" /\ sensor.wired ->
                        [sensor EXCEPT !.set = FALSE, !.measures = "none", !.data = "old"]
                [] main = "hum" /\ sensor.wired -> [sensor EXCEPT !.set = TRUE]
                [] OTHER -> sensor

\* The bus cannot be set up or an access fails on it, or another chip or none answers.
InitFails ==
  /\ main \in InitSteps
  /\ main' = "partition"
  /\ UNCHANGED <<fitted, sensor>>

\* app_main gives up without the partition of the log.
NoPartition ==
  /\ main = "partition"
  /\ main' = "halted"
  /\ UNCHANGED <<web, sensorOk>>

\* The web server starts or does not; the device works without it.
Start ==
  /\ main = "partition"
  /\ main' = "read" /\ sensorOk' = fitted
  /\ web' \in {"idle", "off"}

Boot ==
  /\ \/ (InitSensor \/ InitFails) /\ UNCHANGED <<web, sensorOk>>
     \/ (NoPartition \/ Start) /\ UNCHANGED <<fitted, sensor>>
  /\ UNCHANGED <<lineVars, room, pieces, lock, elapsed, interval, call>>

(***************************************************************************)
(* bme280_read, one bus access at a time.                                  *)
(***************************************************************************)
Goes(t, step) == call' = [call EXCEPT ![t].step = step]
Returns(t, how, got) == call' = [call EXCEPT ![t].step = how, ![t].got = got]

\* The results of t's last measurement are old once it asks for another.
Aged(t) == IF sensor.data = t THEN "old" ELSE sensor.data

\* Any access may fail on the bus.
BusFails(t) ==
  /\ call[t].step \in {"id", "force", "poll", "data"}
  /\ Returns(t, "error", "none")
  /\ UNCHANGED <<lineVars, loopVars, web, lock, elapsed, interval, sensorOk, fitted, sensor>>

ReadId(t) ==
  /\ call[t].step = "id"
  /\ IF sensor.wired THEN Goes(t, "force") ELSE Returns(t, "error", "none")
  /\ UNCHANGED sensor

ForceMeasurement(t) ==
  /\ call[t].step = "force"
  /\ Goes(t, "poll")
  /\ IF sensor.wired
       THEN sensor' = [sensor EXCEPT !.measures = t, !.data = Aged(t)]
       ELSE sensor' = [sensor EXCEPT !.data = Aged(t)]

\* Mutated form of Poll: the polls are not counted.
PollForEver(t) ==
  /\ call[t].step = "poll"
  /\ UNCHANGED sensor
  /\ \/ /\ ~sensor.wired \/ sensor.measures = "none"
        /\ Goes(t, "data")
     \/ /\ ~sensor.wired \/ sensor.measures # "none"
        /\ UNCHANGED call

\* A read of the measuring bit; the one after MaxPolls that found it set gives up.
Poll(t) ==
  /\ call[t].step = "poll"
  /\ UNCHANGED sensor
  /\ \/ /\ ~sensor.wired \/ sensor.measures = "none"
        /\ Goes(t, "data")
     \/ /\ ~sensor.wired \/ sensor.measures # "none"
        /\ IF call[t].polls = MaxPolls
             THEN Returns(t, "error", "none")
             ELSE call' = [call EXCEPT ![t].polls = @ + 1]

ReadData(t) ==
  /\ call[t].step = "data"
  /\ Returns(t, "ok", IF sensor.wired THEN sensor.data ELSE "floating")
  /\ UNCHANGED sensor

Driver(t) ==
  /\ ReadId(t) \/ ForceMeasurement(t) \/ Poll(t) \/ ReadData(t)
  /\ UNCHANGED <<lineVars, loopVars, web, lock, elapsed, interval, sensorOk, fitted>>

(***************************************************************************)
(* The main loop.                                                          *)
(***************************************************************************)
\* Up to Chunk bytes, none after 100 ms without any.
ReadChunk ==
  /\ main = "read"
  /\ room' \in 0 .. Chunk
  /\ main' = "chars"
  /\ UNCHANGED lineVars

TakeCharacter ==
  /\ main = "chars" /\ room > 0
  /\ room' = room - 1
  /\ Character
  /\ UNCHANGED main

TakeLineEnd ==
  /\ main = "chars" /\ room > 0
  /\ room' = room - 1
  /\ EndOfLine
  /\ main' = IF handled' = <<>> THEN "chars" ELSE "line"

EndChunk ==
  /\ main = "chars" /\ room = 0
  /\ main' = "tick"
  /\ UNCHANGED <<room, lineVars>>

Reads ==
  /\ ReadChunk \/ TakeCharacter \/ TakeLineEnd \/ EndChunk
  /\ UNCHANGED <<pieces, web, lock, elapsed, interval, sensorOk, fitted, call, sensor>>

MainLocks ==
  /\ main \in {"line", "tick"} /\ lock = "free"
  /\ lock' = "main"
  /\ main' = IF main = "line" THEN "handle" ELSE "due"
  /\ UNCHANGED <<lineVars, room, pieces, web, elapsed, interval, sensorOk, fitted, call, sensor>>

\* The handler's reply, of one piece or more, is next.
Reply == main' = "reply" /\ pieces' \in 1 .. MaxPieces

\* protocol_handle_line: read_now without a sensor fails at once.
HandleReadNow ==
  /\ main = "handle"
  /\ IF fitted
       THEN main' = "reading" /\ call' = [call EXCEPT !["main"] = NewCall] /\ UNCHANGED pieces
       ELSE Reply /\ UNCHANGED call
  /\ UNCHANGED <<lineVars, room, web, lock, elapsed, interval, sensorOk, fitted, sensor>>

AnswerReadNow ==
  /\ main = "reading" /\ call["main"].step \in {"ok", "error"}
  /\ Reply
  /\ call' = [call EXCEPT !["main"] = NoCall]
  /\ UNCHANGED <<lineVars, room, web, lock, elapsed, interval, sensorOk, fitted, sensor>>

HandleSetInterval ==
  /\ main = "handle"
  /\ interval' \in 1 .. MaxInterval
  /\ Reply
  /\ UNCHANGED <<lineVars, room, web, lock, elapsed, sensorOk, fitted, call, sensor>>

\* Every other request, a refused one, and every line that is none.
HandleOther ==
  /\ main = "handle"
  /\ Reply
  /\ UNCHANGED <<lineVars, room, web, lock, elapsed, interval, sensorOk, fitted, call, sensor>>

\* Mutated form of WritePiece: usb_write waits for room, and nothing makes the host read.
PieceWaits ==
  /\ main = "reply" /\ pieces > 0
  /\ UNCHANGED vars

\* usb_write puts its piece into the TX buffer, or drops it after a second without room; the
\* handler goes on to the next either way. SerialSession has what becomes of the reply.
WritePiece ==
  /\ main = "reply" /\ pieces > 0
  /\ pieces' = pieces - 1
  /\ UNCHANGED <<lineVars, main, room, web, lock, elapsed, interval, sensorOk, fitted, call,
                 sensor>>

LineDone ==
  /\ main = "reply" /\ pieces = 0
  /\ lock' = "free" /\ main' = "chars" /\ handled' = <<>>
  /\ UNCHANGED <<typed, line, overflow, room, pieces, web, elapsed, interval, sensorOk, fitted,
                 call, sensor>>

TickDone == lock' = "free" /\ main' = "read"

NotDue ==
  /\ main = "due" /\ elapsed < interval
  /\ TickDone
  /\ UNCHANGED <<lineVars, room, pieces, web, elapsed, interval, sensorOk, fitted, call, sensor>>

NoSensor ==
  /\ main = "due" /\ elapsed >= interval /\ ~fitted
  /\ elapsed' = 0 /\ sensorOk' = FALSE
  /\ TickDone
  /\ UNCHANGED <<lineVars, room, pieces, web, interval, fitted, call, sensor>>

StartSample ==
  /\ main = "due" /\ elapsed >= interval /\ fitted
  /\ elapsed' = 0
  /\ main' = "sample" /\ call' = [call EXCEPT !["main"] = NewCall]
  /\ UNCHANGED <<lineVars, room, pieces, web, lock, interval, sensorOk, fitted, sensor>>

\* The record goes to the log (LogStore), or sensor_ok tells that there is none.
FinishSample ==
  /\ main = "sample" /\ call["main"].step \in {"ok", "error"}
  /\ sensorOk' = (call["main"].step = "ok")
  /\ call' = [call EXCEPT !["main"] = NoCall]
  /\ TickDone
  /\ UNCHANGED <<lineVars, room, pieces, web, elapsed, interval, fitted, sensor>>

MainStep ==
  \/ Boot \/ Reads
  \/ HandleReadNow \/ HandleSetInterval \/ HandleOther \/ AnswerReadNow
  \/ WritePiece \/ LineDone
  \/ NotDue \/ NoSensor \/ StartSample \/ FinishSample

(***************************************************************************)
(* The httpd task. A request the bridge does not allow is refused without  *)
(* the lock; of those it allows only read_now is of interest here.         *)
(***************************************************************************)
WebRequest ==
  /\ web = "idle"
  /\ web' \in {"read_now", "other"}
  /\ UNCHANGED <<lineVars, loopVars, lock, elapsed, interval, sensorOk, fitted, call, sensor>>

\* Mutated form of WebLocks: read_now goes without the lock.
WebReadsUnlocked ==
  /\ \/ web = "read_now" /\ web' = "reading" /\ UNCHANGED lock
     \/ web = "other" /\ lock = "free" /\ lock' = "web" /\ web' = "handle"
  /\ call' = IF web' = "reading" THEN [call EXCEPT !["web"] = NewCall] ELSE call
  /\ UNCHANGED <<lineVars, loopVars, elapsed, interval, sensorOk, fitted, sensor>>

WebLocks ==
  /\ web \in {"read_now", "other"} /\ lock = "free"
  /\ lock' = "web"
  /\ web' = IF web = "read_now" /\ fitted THEN "reading" ELSE "handle"
  /\ call' = IF web' = "reading" THEN [call EXCEPT !["web"] = NewCall] ELSE call
  /\ UNCHANGED <<lineVars, loopVars, elapsed, interval, sensorOk, fitted, sensor>>

\* The reply went to a buffer: the lock is given back before it is sent.
WebAnswers ==
  /\ web = "handle" \/ (web = "reading" /\ call["web"].step \in {"ok", "error"})
  /\ lock' = "free" /\ web' = "idle"
  /\ call' = [call EXCEPT !["web"] = NoCall]
  /\ UNCHANGED <<lineVars, loopVars, elapsed, interval, sensorOk, fitted, sensor>>

(***************************************************************************)
(* The sensor and the time.                                                *)
(***************************************************************************)
Measured ==
  /\ sensor.measures # "none"
  /\ sensor' = [sensor EXCEPT !.data = sensor.measures, !.measures = "none"]
  /\ UNCHANGED <<lineVars, loopVars, web, lock, elapsed, interval, sensorOk, fitted, call>>

\* The calls that are under way are not calm any more.
Disturb == call' = [t \in Task |-> [call[t] EXCEPT !.calm = call[t].step = "none"]]

\* The wires come off, and the supply with them or not.
Pull ==
  /\ sensor.wired
  /\ \/ sensor' = [sensor EXCEPT !.wired = FALSE]
     \/ sensor' = [wired |-> FALSE, set |-> FALSE, measures |-> "none", data |-> "old"]
  /\ Disturb
  /\ UNCHANGED <<lineVars, loopVars, web, lock, elapsed, interval, sensorOk, fitted>>

Plug ==
  /\ ~sensor.wired
  /\ sensor' = [sensor EXCEPT !.wired = TRUE]
  /\ Disturb
  /\ UNCHANGED <<lineVars, loopVars, web, lock, elapsed, interval, sensorOk, fitted>>

Pass ==
  /\ elapsed < MaxInterval
  /\ elapsed' = elapsed + 1
  /\ UNCHANGED <<lineVars, loopVars, web, lock, interval, sensorOk, fitted, call, sensor>>

Next ==
  \/ MainStep \/ MainLocks \/ \E t \in Task : Driver(t) \/ BusFails(t)
  \/ WebRequest \/ WebLocks \/ WebAnswers
  \/ Measured \/ Pull \/ Plug \/ Pass

\* The tasks run, time passes, and neither task is overtaken at the lock for ever. Nothing makes
\* the sensor finish, the bus fail, the host speak, or the page ask.
Fairness ==
  /\ WF_vars(MainStep) /\ SF_vars(MainLocks) /\ \A t \in Task : WF_vars(Driver(t))
  /\ SF_vars(WebLocks) /\ WF_vars(WebAnswers)
  /\ WF_vars(Pass)

Spec == Init /\ [][Next]_vars /\ Fairness

(***************************************************************************)
(* Properties                                                              *)
(***************************************************************************)
TypeOK ==
  /\ LineTypeOK
  /\ main \in InitSteps \cup {"partition", "halted", "read", "chars", "line", "handle", "reading",
                             "reply", "tick", "due", "sample"}
  /\ room \in 0 .. Chunk /\ pieces \in 0 .. MaxPieces
  /\ web \in {"off", "idle", "read_now", "other", "handle", "reading"}
  /\ lock \in Task \cup {"free"}
  /\ elapsed \in 0 .. MaxInterval /\ interval \in 1 .. MaxInterval
  /\ sensorOk \in BOOLEAN /\ fitted \in BOOLEAN
  /\ call \in [Task -> [step : {"none", "id", "force", "poll", "data", "ok", "error"},
                        polls : 0 .. MaxPolls,
                        got : Task \cup {"none", "old", "floating"},
                        calm : BOOLEAN]]
  /\ sensor \in [wired : BOOLEAN, set : BOOLEAN, measures : Task \cup {"none"},
                 data : Task \cup {"old"}]

\* A reading that bme280_read returns is of the measurement that this very call forced, not of the
\* other task's or of an earlier one, when the sensor stayed where it was meanwhile (bme280.c:40).
OwnReading ==
  \A t \in Task : call[t].step = "ok" /\ call[t].calm => call[t].got = t

\* Once app_main has found its partition it goes on sampling, whatever the host sends or leaves
\* unread, the page asks and the sensor does: a measurement that never ends is given up
\* (bme280.c:48), a reply nobody reads too (app-main.c:87), every return gives the lock back.
SamplesGoOn == []<>(main = "due" /\ elapsed >= interval) \/ <>(main = "halted")

\* A request of the web page that waits for the device lock is answered (web.c:54).
WebAnswered == web \in {"read_now", "other"} ~> web = "idle"

\* "A disconnected sensor leaves MISO floating (0x00/0xFF); the chip id check turns that into an
\* error instead of a garbage reading" (bme280.c:34).
NoGarbage == \A t \in Task : call[t].step = "ok" => call[t].got # "floating"

\* A reading is of a sensor that bme280_init set up, humidity included (bme280.c:26).
SetUpSensor == \A t \in Task : call[t].step = "ok" => sensor.set
===============================================================================
