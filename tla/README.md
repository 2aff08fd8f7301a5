# Verification of the BME280 logger

The repository is a small measuring device and its tools: an ESP32-S3 samples a
BME280 sensor, keeps the measurements in a ring log in flash, answers one-line
JSON requests over USB and HTTP, and keeps a WiFi connection; a Go command line
tool and a web page read the history.  This directory holds TLA+ modules of the
parts where order, failure and restart matter, TLC runs over small instances,
and TLAPS proofs.  `PROJECT.json` lists components, runs, mutants, the source
lines every definition stands for, findings, hazards and theorems.

## Inventory

| component | state it keeps | operations | talks to | hard behaviour |
|---|---|---|---|---|
| log store (`components/log_store`) | flash slots; `head`, `tail` in RAM | init, append, read, count, clear | sampler, protocol, flash | power cut or error at any flash call; recovery from the flash alone; wrap-around |
| clock (`main/clock.c`), SNTP, `records.go` | `g_source`, system time, `boot_id` | set_time, on_sntp_sync, clock_timestamp; `ResolveTime` on the host | sampler, protocol, SNTP task, tool | SNTP does not take the device lock; several reads of `g_source` per sample; reboots |
| WiFi manager (`main/wifi.c`) | `g_state`, `g_want_connect`, `g_retries`, `g_reconnect_now`, timer | event handlers, retry timer, `wifi_set_credentials` | driver, event task, timer task, protocol | three tasks without a lock; events that tell of the past; calls that fail |
| `get_log` and its readers | offset, total, records so far | `cmd_get_log`; `FetchLog`, `cmdLog`, `loadChart` | log store, USB, HTTP | log changes between pages that are addressed from its oldest record |
| settings (`main/settings.c`) | NVS keys; `g_interval_s` twice | set_interval, set_wifi, init | NVS, sampler, WiFi | power cut or refusal between NVS calls; erased partition |
| main loop and USB line assembly (`app-main.c`) | `line`, `len`, `overflow`; device lock | boot; per character; per line; per tick | protocol, sampler, web | line at the buffer's limit; a host that stops reading with the lock held |
| serial session (`transport.go`, `client.go`, `usb_write`) | buffers on both sides | Open, Request, ReadLine, usb_write | tool, device | replies without numbers, given-up requests, boot log on the line, full TX buffer |
| protocol dispatch (`protocol.c`) | none of its own | one handler per command | all of the above | limits and defaults of parameters; two askers |
| JSON reading (`json-mini.c`) | none | find_value, get_string, get_uint, has_key | protocol | searches the text instead of parsing it |
| sampler (`sampler.c`), BME280 driver | schedule, `sensor_ok`, `store_ok` | tick; init, read | log store, clock, SPI | bounded polling, a sensor that comes and goes |
| BME280 compensation (`bme280-compensate.c`) | calibration | parse_calib, compensate | driver | 32-bit products, a branch in the middle of the range |
| record codec (`log-record.c`) | none | encode, decode, CRC | log store | a slot that was cut off or is worn |
| web server and bridge (`web.c`, `web-bridge.c`) | response buffer, overflow flag | api_handler, build_request | protocol, device lock | second user of the device lock; a buffer that outlives its request; text rewritten and parsed again |
| SPI, LED, formatting, argument parsing | none or a last value | | | I/O and text only |

What makes each correct: the log loses nothing but the oldest sector of a full
log and reads in order; a record's flag tells which clock its time is from, and
the host places it right; the station with credentials always has another try
and a forgotten network stays forgotten; a reader gets records once, in order,
and misses only what it must; what was answered with ok is in force and outlives
a restart; the protocol gets exactly the lines that were sent and does what
they say; a tool or a page gets the replies to its own requests; a reader sees
what the sensor measured.

## Modules

| module | models | kind |
|---|---|---|
| `LogStore` | log-store.c, the boot sequence of app_main, the flash | detailed |
| `RingLog` | what the log store promises | abstract |
| `LogStoreInv` | the inductive invariant `Recoverable` | invariant |
| `MCLogStore` | refinement `LogStore` => `RingLog` | TLC |
| `LogStoreProofs` | types, capacity, order and durability of `LogStore`, and the refinement | proofs |
| `PagedRead` | get_log, FetchLog, cmdLog, loadChart over `RingLog` | composed |
| `PagedReadProofs` | the order of what is read, and what is missed | proofs |
| `Timekeeping` | clock.c, sampler arguments, set_time, SNTP, boot_id, ResolveTime | detailed |
| `TimekeepingProofs` | stamps, flags and the host's estimates | proofs |
| `Wifi`, `MCWifi` | wifi.c and its driver | detailed, TLC |
| `WifiProofs` | the safety properties of `Wifi` | proofs |
| `Settings` | settings.c, op_set_interval_s, NVS | detailed |
| `SettingsProofs` | what is stored and in force is what was answered | proofs |
| `UsbLine` | line assembly of app_main | detailed |
| `MainLoop` | boot and loop of app_main, sampler.c, bme280.c, the httpd task and the device lock | composed with `UsbLine` |
| `SerialSession` | transport.go, client.go, usb_write | detailed |
| `SerialSessionProofs` | requests and replies flow in order, and clean sessions match | proofs |
| `JsonMini` | json-mini.c, and the objects that requests are | operators |
| `Requests` | protocol.c, web-bridge.c, web.c | composed with `JsonMini` |
| `RequestsProofs` | a text means its object, and the page gets its own whole reply | proofs |
| `Compensation` | bme280-compensate.c | operators |
| `Measurement` | the way of a measurement: sampler.c's clamps, log-record.c, a slot's bytes | composed with `Compensation` |
| `DeviceProofs` | `MainLoop`: whole lines, own readings, one task in the driver; `Measurement`: no overflow, the direction of the readings, the record and its CRC | proofs |

`PagedRead` composes with the log store through `RingLog`: its device steps are
RingLog's steps, and the run `logstore_base` shows that the log store takes no
others (as far as readers can see).

### LogStore

A slot number is kept as <<sector, slot>>; `Succ` and `Dist` are the arithmetic
modulo the ring.  `flash[s][i]` is blank, the number of a record, or damaged
(not blank, fails its CRC).  A flash call is one step: `Reclaim`, `EraseAhead`
and `Write` follow `AppendStart`; `ClearSector` is one erase of
`log_store_clear`; the `Boot...` actions are the outcomes of `log_store_init`,
with app_main's clear of a corrupt log (as at the first boot on a partition that
held something else).  `AppendFails`, `ClearFails` and
`BootFails` are the error returns, `PowerCut` stops any call: an erase that is
cut off has blanked any slots and damaged any others, a write leaves the slot
as it was, damaged, or whole.  `head` and `tail` keep their values while the
power is off: the recovery overwrites them, and the properties can compare.

`Faults` chooses what may happen; `HealthyFaults` = power cuts and failing calls
outside `log_store_clear`.

### Timekeeping

One action per look at `g_source` or the system time.  C does not order the
arguments of `sampler_tick`, so `ReadFlag` is free to come before or after
`ChooseClock`/`ReadClock`.  `owner` is the device lock.  A timestamp is kept with
the clock it came from, and `taken` is the true time, which the host does not
know.  The sampling interval is left out: a sample may be taken at any second.
`Reboot` is `settings_init`: NVS may have been erased (it was full or of another
version), its boot_id may be unreadable, and the new one may be refused
unnoticed, while the log partition keeps its records.  `slips` are the boots
whose boot_id the next one did not find; ids also come round (`BootIds`, 256 in
the code).  `found` is what a set_time saw at its test of `g_source`.

### Wifi

A step ends where the next statement calls the driver or the timer, or tests or
overwrites a variable that another task writes; assignments between two such
places are one step.  The driver is
external; the reading assumed is that `esp_wifi_connect` on an associating or
associated station leaves it as it is and reports nothing, that every attempt
ends in an event, and that disconnecting a station without link reports nothing.
`world` fixes, per behaviour, which commands occur, which calls may fail, and
whether commands wait for the last one's effects (`calm`).

Some calls come to nothing and nobody tries again; the code is like that, so the
properties say exactly which.  `Remember` notes them beside each step: `mishap`
is the last call that came to nothing, until something is tried anew
(`TriesAnew`), and is one of

- `StartRefused`, `ConfigRefused`: `esp_wifi_start` or `esp_wifi_set_config` is
  refused (wifi.c:168, 159); the retry timer has been stopped before the latter;
- `ReconnectRefused`: the connect that follows a self-caused disconnect is
  refused and its result not looked at (wifi.c:75);
- `DropMissed`: was_connected is stale, the link has dropped and its event has
  been handled before the mark was set, so that the disconnect reports nothing
  (wifi.c:143, 174-175).  The mark is then `loose`;
- `JoinMissed`: a connect is called on a station that is up, by a set_wifi whose
  was_connected is stale (wifi.c:183), the timer or the event task.

`late` says that a connect or retry that had passed its test of
`g_want_connect` was still to end when the last forget ended.

`get_status` runs in the protocol's task while the event task changes what it
reads: `wifi_get_ip` looks at `g_state`, copies `g_ip` and looks at `g_state`
again, one action each.  `ip` is whether `g_ip` holds an address; the handler of
IP_EVENT_STA_GOT_IP writes it before it sets the state.  The race on the
characters of the address (a copy taken while `snprintf` writes it), the length
of the back-off, the SNTP start (`start_sntp_once`) and an `esp_wifi_init` that
fails are left out.

### PagedRead

A request is one step (the device lock).  `kept` are the records a reader asked
for that have been in the log since; `rolls` and `unread` count what may excuse
a missing one.  `Covered` has the shorter pages of a flash read that failed.
`Records` takes the records of a page slot by slot, as `get_log` does, which
passes over a slot that does not decode.  The readers ask for pages no longer
than the device's limit (`PagesAreWhole`; both are 500): a shorter page than
asked would let a reader go on behind records it has not got.

### Settings

Each NVS call is a step; `staged` are writes not yet known to be in the flash,
of which a power cut keeps a prefix.  `mayInterval` and `mayPair` are what may
be stored as far as replies tell.  A boot that finds the NVS partition full or
of another version erases it (`ESP_ERR_NVS_NO_FREE_PAGES`); what may be stored
is then the default.  `halfSet` are the networks whose set_wifi may be half done.

### UsbLine, MainLoop

`UsbLine` has one action per character; a character is its place in its line.
`MainLoop` EXTENDS it with the chunks the characters come in, the requests that
the lines are, `sampler_tick`, and the httpd task.  Both tasks take `lock`, and
both call `bme280_read`, which is one action per bus access (`Driver(t)`), so
that the sensor can finish, be pulled or be plugged in between any two.  The
10 ms delays are the places where that happens; the reading assumed of the
sensor is at the head of the module.  `elapsed` is `uptime_s - g_last_sample_s`;
the wrap of the 32-bit uptime (136 years) is left out.  Boot is `bme280_init`
access by access (`InitSteps`), with the sensor pulled at any time, then
`Start`, or `NoPartition`, after which app_main has returned ("halted").

A reply is written in up to `MaxPieces` pieces under the lock.  A piece that
finds no room in the TX buffer is dropped after a second, so `WritePiece` is one
step whether the host reads or not; `SerialSession` has what is then missing.
`store_ok`, the record and its stamp are in `LogStore` and `Timekeeping`, the
choice of the LED colour is left out.

### SerialSession

`SerialSession` writes a reply in two pieces, which is enough to truncate one,
glue one to another or put a boot-log fragment in front of it; `patient` clients
wait until no reply can come any more.

### JsonMini, Requests

`JsonMini` reads a line as a sequence of tokens: the characters that the search
looks at, and words and numerals, each whole, with a length where a limit
counts.  `FindValue` and the readers are the code's; `Named`, `StringOf` and
`NumberOf` are what the object that the line was written from has.  `Asks` is
the dispatch of `protocol_handle_line` over either, so `Parsed` is what the code
makes of a line and `Meant` what the object says.

`Requests` runs the handlers for two askers under the device lock.  The USB host
sends every command with arguments at their limits, with another member before
or after it that could mislead the search (`Decoys`) and with or without spaces;
broken lines are sent too, and nothing is promised of them.  The page sends a
query; `Buildable`, the object `Built` from it and its text `Line` are
`web_bridge_build_request`.  The 403 and 400 answers change nothing and are left
out.  A reply is a sequence of pieces, which `buffer_write` takes one by one:
`Taken` is one call, and `Buffered` those of a reply.

Keys that contain a quotation mark are not among the decoys: `{"\"cmd":...}`
writes `"cmd"` into the text and is found.  No client sends such keys.  With the
real sizes a page of 500 records (at most 45 characters each, and a head) is
shorter than the 24576 bytes of the response buffer, so that 500 cannot occur;
the instance has a smaller buffer.  A number beyond 32 bits in `offset` or
`limit` is not refused, the default is taken: `Asks` has that for both sides.

### Compensation, Measurement

`Compensation` has the integer formulas with every intermediate product kept
beside the value, because a product that leaves 32 bits is undefined in C.
`Measurement` moves the raw values up one at a time, makes the record that
`sampler_tick` would make, encodes it, and writes it whole, cut off after any
half byte, or with one byte wrong.  That is where `LogStore`'s three kinds of
slot (blank, record, damaged) come from.

`NoOverflow` is about the operating range (-40 to 85 degrees, 300 to 1200 hPa)
and the calibrations of the instance.  Outside it, at the ends of the ADC's
range, which a floating bus delivers (see `NoGarbage`), products do overflow.
Where the pressure formula changes its branch (2p = 2^32, q = 687194) the other
order of rounding costs one pascal, which `Follows` allows.  `DamageIsSeen` is
about one wrong byte, or two neighbours.  It leaves out one pair, the last byte
before the CRC with the CRC's low byte: the CRC would tell any 16 bits in a row,
but its own low byte is stored first, so that these two bytes are not the 16
bits in a row that the CRC's division sees.  A write that is cut off with more
bytes missing is told by 16 bits of CRC, so that one in 65536 passes: that is
left to chance, and `LogStore` takes the CRC for exact.  Time stamps from 2^31 on (2038) are not in the instance:
TLC's integers have 32 bits.

## Runs

| run | shows | bounds, and why they are enough |
|---|---|---|
| `logstore_base` | type, order, `Recoverable`, acknowledged records readable, loss only when full, faithful recovery, refinement of RingLog | 4 sectors of 2 slots, 11 records: the ring wraps once with every fault at every place, slot 0 and a later slot differ, and a sector apart from head, next and tail exists |
| `logstore_faults` | capacity, and reclaim of a dirty sector, under every fault | 3 sectors of 2 slots, 9 records |
| `timekeeping` | `OneMismatchPerBoot`, `OnlySntpOvertakes`, `StampedFromSetClock`, `EstimatesAreRight`, `NtpIsFinal` | three boots, two boot ids that may be lost, refused or come round; two seconds and two records: in each second samples, set_times and synchronisations in any order |
| `wifi` | see below | 3 commands, 3 waiting events, failing after 3 retries; three worlds |
| `paged_read` | `InOrderOnce`, `MissesOnlyRolled` | 3+1 sectors of 2 slots, pages of 3, two rolls during a read |
| `settings` | `KnownInterval`, `KnownNetwork`, `AnsweredIsInForce` | 3 commands, any number of cuts and erased partitions |
| `main_loop` | `OwnReading`, `ExactlyTheLines`, `SamplesGoOn`, `WebAnswered` | any number of characters, requests and pulls; buffer of 3, so that a line can fit, be one too long and be longer; chunks of 2, so that lines cross them; 2 polls; replies of 1 and 2 pieces; intervals of 1 and 2 |
| `serial` | `CleanSessionMatches`, `NoReplyTwice`, `Answered` | 3 requests, TX buffer of 3 pieces, a reset |
| `requests` | `TextMeansObject`, `PageGetsWhatItAsks`, `PageOnlyReads`, `BodyIsReply` | every command with each of its arguments below, at and above its limit, 5 decoys on either side; queries of up to 3 parameters, so that one can be given twice beside a cmd; 4 records and a limit of 3 in chunks of 2, so that a page has a whole and a part chunk; a buffer of 7, into which some replies fit exactly and some do not |
| `measurement` | `NoOverflow`, `Follows`, `ReaderGetsTheReading`, `DamageIsSeen` | 10 x 12 x 6 raw values over the operating range, both sides of the pressure branch included; 3 calibrations; a cut after each half byte |
| `logstore_torn_clear` | violation of `Chronological` | 5 sectors of 1 slot |
| `sensor_garbage` | violation of `NoGarbage` | |

`wifi` checks its safety properties in every world, the wild one included, in
which any call fails and any task overtakes any other: `ConnectedIsReal` (what
get_status says is so while nothing moves during the command),
`ForgottenStaysDown`, `AlwaysAnotherTry`, `ForgottenIsOff` and `MarkIsSpent`.
The last three except `mishap`, `late` and `loose`; without the exceptions
(`NotStranded`, `SaysOff`, `MarkIsAnswered`) they do not hold, see the table
below.  Only `Reconnects` is about the worlds where no set_wifi overtakes the
event task and none of its calls fails (`Undisturbed`).

`settings` does not promise that a network is only ever stored with its own
password: a set_wifi that is cut off or refused between its two writes leaves
the new ssid with the password of before, or with none.  `KnownNetwork` says
that nothing else does, a forget least of all.

`timekeeping`: a lost boot_id does let the host place an old boot's records by
the new boot's uptime.  `EstimatesAreRight` says when (`MayShareId`), and that
the records of the boot the host is connected to are placed right in any case.

Each module has a type invariant `TypeOK`, which documents the types.  The run
`logstore_base` checks that of `LogStore`; the others hold on their instances too,
and are left out of their runs.  `CapacityBound` holds in `logstore_base`
too.

Every property of a passing run has a mutant: a definition changed the way a
bug would change the code, for which the run must report the property violated.

Deadlock is switched off for `wifi` only: a connected station whose link does
not drop, or one that is off, has nothing left to do once the commands are used
up.  In the other models some environment step is always possible, or the bound
is reached through a step that remains.

## Fairness

- `Wifi`: weak fairness of the event task, the timer task and the task that runs
  set_wifi (FreeRTOS schedules ready tasks) and of the end of an attempt; strong
  fairness of a join that succeeds and of a connect that is accepted: an access
  point that is asked again and again answers some time, or no retry policy
  could ever succeed.
- `MainLoop`: weak fairness of both tasks and of time; strong fairness of taking
  the device lock, which FreeRTOS gives to a waiting task when it is free: the
  main loop blocks up to 100 ms in each read of the USB driver and httpd in
  select between two requests, so neither takes it again before the other runs.
  Nothing makes a measurement end, and nothing makes the host read, so
  `SamplesGoOn` and `WebAnswered` rest on the bounded poll and on `usb_write`
  giving a piece up after a second.
- `SerialSession`: weak fairness of the device's loop, the USB transfer and a
  client that reads.  Giving up, closing and resetting are never forced.

## Proofs

Nothing is assumed but the named assumptions on the constants, which TLC
evaluates in the runs; where a theorem needs more, its statement says so.

`LogStoreProofs`, for every number of sectors from three, every sector size,
every bound on records and every fault:

- `TypeCorrect`: head, tail and all slots keep their types.
- `CapacityIsBounded`: the head never laps the tail.
- `ReclaimMakesRoom`: the record that enters the first slot of a sector is read
  from then on, whatever a failing write or erase had left there.

All rest on `CapInv`: type, the gap between head and tail while the head is
inside a sector (`Gap`), and what the flash call under way rests on
(`CallState`).  `CapacityBound` alone is not inductive: from a head at the start
of a sector with the tail right ahead, only `EraseAhead` makes the room the
write needs.  `ReclaimMakesRoom` adds `FreshStart`: a write to a first slot meets
a blank one, because `AppendStart` has seen it blank or `Reclaim` has erased it.  `Recoverable` is of no use
there: a failing write that leaves bits behind breaks it.  The recovery needs that a run of erased sectors has a start
(`RunExists`), which is a minimum over distances (`LeastExists`, from
well-foundedness).

Under the same bounds, assuming `HealthyFaults`:

- `AlwaysRecoverable`: whatever flash call is interrupted, the flash keeps the
  layout from which `log_store_init` finds head and tail.
- `OrderIsKept`: `log_store_read` returns records in the order they were taken.

The order alone is not inductive: after a power cut the head and tail are
computed from the flash, so the invariant has to say what the flash looks like.
`Recoverable` (`LogStoreInv`) does: sectors from the tail up to the head are
full and those beyond blank (`InnerFull`, `OuterBlank`), the head's sector is
filled up to the head, or one further when a write was cut (`HeadSplits`), and
the sector ahead may be half erased only while the head's sector is blank
(`AtStart`, `NextReady`).  `EmptyAtZero` covers the recovery that restarts at
sector 0.  Each flash call keeps it (`RecWrite`, `RecEraseAhead`,
`RecClearSector`), so does each torn one (`RecTornErase`, `RecTornWrite`), and
the recovery computes the head and tail it describes (`RecoversInSector`,
`RecoversAtStart`, `RecoversTornTail`).  A partition never erased before
(`Foreign`) has no layout; app_main clears it.

From the same invariant, again assuming `HealthyFaults`:

- `LosesOnlyWhenFull`: only the roll of a full log takes records away.  Each step
  either leaves the set of live slots or takes the oldest sector's (`RollsIf`).
- `AcknowledgedIsRead`: an append that returned 0 has put its record in the log.
- `RecoveryBringsNothingBack`: the head and tail that a recovery computes enclose
  the slots that were live when the power went, and at most the slot of the
  append that was cut off (`BootFinds`).  That slot holds this very record or
  none, which is one more invariant (`HeadRecord`).

From the same two invariants:

- `RefinesRingLog`: each step of the log store is a step of `RingLog` or changes
  nothing of it.  A slot is an entry and an entry a slot (`Position`,
  `PositionIs`: quotient and remainder by the sector size), so a slot that is
  taken appends an entry (`ContentsGrow`), a tail that moves on drops a
  sector's (`ContentsRoll`) and a torn erase makes holes (`ContentsTear`).  What
  is proved of or checked over `RingLog`, as in `PagedRead`, so holds of the log
  store.

`TimekeepingProofs`, for any number of boots, boot ids and seconds:

- `StampsAreOfSetClocks` from `SetBefore`: whatever test of `g_source` a task has
  behind it, the clock it then uses was set before.
- `SntpAloneOvertakes` and `OneIsOvertaken` from `LateInv`: the device lock keeps
  sampler and set_time apart (`Excluded`), what either has seen of `g_source` is
  still so unless SNTP came since (`Seen`), and after that no later record of the
  boot can differ (`Overtaken`).
- `NtpStays` from what a set_time has found: between its test and its reply it
  overwrites the clock only if that was not NTP's.
- `HostPlacesRight` from `PlaceInv`, which says of the records of each boot that
  they have its id and when it began, and of two boots with the same id that
  `MayShareId` holds of them.  Nothing is assumed of NVS.

`DeviceProofs`, about `MainLoop`, for any buffer, number of polls, pieces and
interval:

- `LinesAreExact` from `LineInv`: `line` holds the characters of the line being
  typed as long as they fit, and `overflow` says that they did not.
- `ReadingIsOwn` and `OneInTheDriver` from `CallInv`: the task in the driver holds
  the lock (`Locked`), and a call past its first status byte that says "idle"
  reads what it forced itself or a sensor that was exchanged since (`Owned`).

`DeviceProofs`, about `Measurement`, for any number of steps through the
operating range (so for every raw value in it), with the calibrations of the
model:

- `CompensationFits` (`NoOverflow`) follows the three formulas line by line.  Each
  intermediate value gets an interval (`Within`, `Between`) from those before it
  (`FineFits`, `PressureFits`, `HumidityFits`), and a product fits because the
  product of the bounds does (`ProductFits`).  The bounds leave little room: the
  bound on the largest product of the pressure is above four fifths of 2^31.  A sensor without
  coefficients is a case of its own (`ZeroedFits`).
- `ReadingsFollow` (`Follows`): t_fine rises because its linear part outweighs
  the square (`SquaresRise`, `FineRises`), the humidity likewise (`BentRises`).
  Both branches of the pressure formula lie below the same quotient, one by less
  than 1, the other, which doubles last, by less than 2 and even (`HalvedBounds`).
  So the one that doubles is less by 1 at most (`HalvedFalls`), and then only
  where the correction is the same for both (`CorrectedFalls`).
- `ReadingReaches` (`ReaderGetsTheReading`): by the same intervals a reading fits
  the fields of the record (`ReadingIs`), the clamps do not change it
  (`ClampsKeep`), and its bytes give it back (`ComesBack`).
- `DamageShowsAlways` (`DamageIsSeen`) follows two registers, one fed what was
  written and one what is read.  Where two bytes differ, the registers come to
  differ in their low 8 bits (`BytesSpread`), one more byte moves the difference
  up into 16 at most (`BitSpreads`, `LowByteSpreads`), so that it cannot cancel
  it, and equal bytes never do (`BytesKeepApart`).  It rests on `SlotTyped`
  besides the invariant `MeasureInv`, which says of calibration, raw values and
  stamp what they are.

`WifiProofs`, for queues of any length, any number of commands and every world
(the theorems are about `Spec`, so they hold for the fair specification too):

- `ForgottenIsDown` from `DownInv`, which relates where set_wifi stands to
  `g_want_connect` and to the driver: it runs only if it was started.
- `ConnectedHasItsLink` from `LinkInv` (a got_ip that no "disconnected" follows in
  the queue means that the link is up), `RealInv` and `StatusInv` (what
  get_status has copied so far).
- `MarkIsTaken` from `MarkInv`: while `g_reconnect_now` is set, its disconnect is
  to come, the "disconnected" it is meant for is in the queue or in hand, or it is
  `loose`.
- `ForgetEndsOff` from `ForgetInv`: without credentials nothing is under way that
  tries to join, unless it is `late`.  That the state is not "connected" either
  follows from `RealInv` and `DownInv`.
- `NeverStranded` from `TryInv`: a station with credentials is `Alive` (it is
  starting, joining or joined, or has its loss in the queue or in hand, or its
  retry waiting) or has a `mishap`.  Alone this is not inductive: a set_wifi whose
  mark is taken before it disconnects has to be alive already (`Trying`), and a
  timer that finds the state "connected" relies on `RealInv`.

`SettingsProofs`, for any intervals, networks and number of commands:

- `IntervalIsKnown`, `NetworkIsKnown` and `AnswerHolds` from `KnownInv`: each
  prefix of the uncommitted writes, put into the store, gives what the replies
  allow (`Covered`), what a command under way has written so far is in the last
  of them (`UnderWay`), and the intervals in use are allowed ones (`InForce`).
  `Apply` says of each key which write is the last, so that one write more
  changes one key (`ApplyOne`).  `HalfInv` adds that a pair of an ssid and a
  password not its own is allowed only for a network in `halfSet`.

`PagedReadProofs`, for logs, sectors, pages, chunks and wishes of any size:

- `PagesInOrder` from `OrderInv`: the log's records ascend (`LogInOrder`) and what
  a reader has is older than all that its next pages will show (`GotIsOlder`).
  Pages are addressed from the oldest record, so the second part is what a roll
  threatens: it moves records to lower places, so over the offset to where no
  page looks any more, and never back (`MovedInOrder`).
- `RollsBoundMisses` from `PagedInv`, which adds `FewPassed`: what a reader will
  never be shown although it stays in the log (`Passed`) stands before its next
  offset, and of these there are at most a sector's slots for each roll, plus the
  slots of failing reads.  Each roll moves a sector's slots over the offset
  (`GrowsBy`); a page takes from `Passed` nothing and adds only what the flash
  kept back.
- `RecordsAre`, on which both rest, says what the slot-by-slot `Records` gives:
  every record of the slots, and those in their order.  It is an induction by
  the least slot at which it would fail (`LeastExists`), since the library's
  induction theorems cannot be instantiated.

`SerialSessionProofs`, for any number of requests, runs of the tool, resets and
any size of the TX buffer:

- `FlowsInOrder` from `Flow`: with a number for each piece (`Rank`; a reply's
  opening before its end, and both before the next reply), what was accepted, the
  tool's input, the TX buffer, the request in hand and those to come ascend
  (`Ascending`, `Precedes`), whatever fragments stand between them.
- `RepliesTakenOnce` is a step of the same invariant.
- `CleanSessionsMatch` from `SessionInv`, which adds `CleanFlow`: in a run that
  began with nothing outstanding, nothing is on its way while the tool is idle,
  and only the asked request's reply while it waits.  The match alone is not
  inductive: a reply is in order long before it is read.

`RequestsProofs`, for all sizes, limits and lengths of queries:

- `ParsedIsMeant`: for any object with plain names, any strings, quotes and
  backslashes in them included, and any spaces, what the protocol makes of the
  text is what the object says.  `MembersStand` says where each member is in the
  text.  A quoted key followed by a colon can then only be a name
  (`PlacesAreNames`): inside a string a quote is written behind a backslash, so
  the key would have to end at the string's own closing quote, which a comma or
  the closing brace follows.  The first such place is the first member of the
  name (`Finds`), and from there the value is read as it was written
  (`Unescapes`, from a string's last character backwards).
- `TextMeansItsObject`, for every whole line the model's host sends, follows: all
  its objects are of that kind (`RequestObjects`, `LinesAgree`).
- `PageGetsIt`: the object the bridge builds has of each parameter the query's
  last value, which is the first member of the query read backwards
  (`PageParsedIsMeant`), and no other members.
- `WholeBody`: a buffer that is empty at the start holds the reply whole or has
  overflowed, and it has overflowed if and only if the reply is too long
  (`BufferedIs`); the invariant `RequestsInv` says that it is empty at the start
  (`Asking`), because api_handler resets it before it takes the lock.
- `PagesRead`: what `Allowed` lets through reads only, or is set_time.

Model-checked only:

- `TypeOK` of `Requests`, which speaks of strings and their lengths, of which
  the provers know nothing;
- liveness and ENABLED (`Reconnects`, `SamplesGoOn`, `WebAnswered`, `Answered`),
  out of the prover's reach.

No module uses RECURSIVE: `Records`, `Size`, `Buffered` and the readers of
`JsonMini` are recursive functions.

## Where code and documents disagree

With a run: `PROJECT.json`, "findings".  The others below were found with the
same modules; each is a definition of the module that TLC reports violated when
it is added to the module's configuration.

| module, property | constants changed | what happens |
|---|---|---|
| `Timekeeping`, `NtpAuthoritative` | none | `clock_set_time` tests `g_source` and acts later; SNTP in between is overwritten (clock.c:10) |
| `Timekeeping`, `PlacesItsBootOnly` | none | a boot_id that NVS refused, lost or never gave is used again, as is one that has come round: the host places the records of the earlier boot by the later one's uptime (settings.c:17, 27, 29, docs/protocol.md:196) |
| `Timekeeping`, `FlagMatchesStamp` | none | SNTP sets the clock between the sampler's two looks at it: a record has a time of one clock and the flag of the other (app-main.c:166, log-record.h:10) |
| `Wifi`, `StatusAgrees` | none | get_status looks at `g_state` twice with `g_ip` between: "connected" without an address, or an address without "connected" (wifi.c:203, docs/protocol.md:100) |
| `PagedRead`, `ReadsEveryRecord` | `Readers = {"all"}`, `Wanted = 2`, `ReadFails = FALSE`, `MaxRecords = 9` | the log rolls between two pages: records that were and are in the log are skipped (client.go:129, against client.go:120) |
| `Wifi`, `SaysOff` | none | the event task tests `g_want_connect`, set_wifi("") stops the driver, the connect fails and schedule_retry says "connecting"; the timer then does nothing (wifi.c:66, docs/protocol.md:99) |
| `Wifi`, `NotStranded` | world with `fails = {}` | `was_connected` is stale after the NVS write (wifi.c:143): a station that is up is asked to connect and stays "connecting" (under the driver reading above), or one whose drop has been handled is asked to disconnect after its retry timer was stopped, and no event comes |
| `Wifi`, `NotStranded` | `fails = {"start"}` | `esp_wifi_start` is refused in set_wifi: the state stays "connecting" and nobody tries again (wifi.c:168) |
| `Wifi`, `NotStranded` | `fails = {"config"}` | set_wifi stops the retry timer, then `esp_wifi_set_config` is refused: the retries of the network before have ended (wifi.c:158-163) |
| `Wifi`, `NotStranded` | calm world, `fails = {"connect"}` | the connect after a self-caused disconnect is the only one whose result is ignored (wifi.c:75) |
| `Wifi`, `MarkIsAnswered` | none | set_wifi overtakes a drop: the mark of wifi.c:174 is set after the event it is for, and the next drop is answered by an immediate connect instead of a retry (wifi.c:71, 143) |
| `PagedRead`, `OnlyLast` | none | a sample between get_status and get_log makes `log --last N` print one more (cli.go:273) |
| `Settings`, `ReportedIsKept` | none | a refused interval is reported by get_status and not used (settings.c:38) |
| `SerialSession`, `MatchingReply` | none | the late reply to a given-up request is taken by the next run's first (client.go:70) |
| `SerialSession`, `WholeReplies` | none | usb_write drops the rest of a piece after a second without room (app-main.c:87) |
| `MainLoop`, `SetUpSensor` | none | a sensor that lost its power and is plugged in again passes the chip id check and is read with humidity measurement off (bme280.c:38) |
| `MainLoop`, `UpToMaxLine` | none | a line of exactly PROTOCOL_MAX_LINE characters is dropped (app-main.c:159) |

## Not modelled

- SPI bus and LED driver: pure I/O; the LED shows values other modules have.
  `store_ok` is shown by get_status and the LED and decides nothing.
- The wording and layout of replies, tables and CSV, argument parsing, the
  drawing of the page: no state.
- The wrap of `uptime_s` after 136 years; time stamps from 2^31 on.
- Host tests and fakes: read as a statement of intent.
- In `Wifi`: see its section.

## Plan

1. Done: `LogStore`, `RingLog`, `PagedRead`, `Timekeeping`, `Wifi`, `Settings`,
   `UsbLine`, `SerialSession`, `MainLoop` with its boot and its replies,
   `Requests`, `Measurement`.
2. Done: the theorems of the log store with its refinement, `Timekeeping`,
   `Settings`, `MainLoop`, `Wifi`, `PagedRead`, `SerialSession`, `Requests` and
   `Measurement`.
   Left: calibrations other than the model's, by ranges of their coefficients.
3. `store_ok` and the LED state; the wrap of uptime.
