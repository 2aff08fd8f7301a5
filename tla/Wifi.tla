--------------------------------- MODULE Wifi ---------------------------------
(***************************************************************************)
(* The WiFi connection manager (firmware/main/wifi.c) and the driver below *)
(* it.                                                                     *)
(*                                                                         *)
(* Three tasks share its variables without a lock: whoever runs a set_wifi *)
(* command (wifi_set_credentials), the event task (on_wifi_event,          *)
(* on_ip_event) and the timer task (retry_timer_cb).  The driver reports   *)
(* through the event queue, so an event tells of a link that may have      *)
(* changed since.  A handler or command is cut into steps before each call *)
(* of the driver or timer, and wherever a variable it has tested or is     *)
(* about to overwrite is one that another task writes; assignments that    *)
(* follow one another between two such places are one step (Forget,        *)
(* Connecting, ScheduleRetry).  A get_status command, which excludes a     *)
(* set_wifi by the device lock, looks at the variables as it finds them.   *)
(*                                                                         *)
(* The length of the back-off is left out: an armed timer fires some time. *)
(* The last three variables only record what happened, for the properties. *)
(***************************************************************************)
EXTENDS Integers, Sequences

CONSTANTS
  FailedAfter,   \* FAILED_AFTER_RETRIES; retries are counted no further
  MaxEvents,     \* bound: events waiting for the event task
  MaxCalls,      \* bound: set_wifi commands in a behaviour
  Worlds         \* the circumstances considered, each a set of behaviours

ASSUME WifiBounds == FailedAfter \in Nat \ {0} /\ MaxEvents \in Nat \ {0} /\ MaxCalls \in Nat

\* commands: the set_wifi commands that occur; fails: the driver calls that may
\* fail; calm: set_wifi runs only while nothing else is going on.
World == [commands : SUBSET {"set", "forget"},
          fails : SUBSET {"connect", "disconnect", "start", "config"},
          calm : BOOLEAN]

ASSUME WorldsAssumption == Worlds \subseteq World

VARIABLES
  state,          \* g_state
  ip,             \* g_ip is an address, not empty
  started,        \* g_started
  want,           \* g_want_connect
  retries,        \* g_retries
  reconnectNow,   \* g_reconnect_now
  armed,          \* the retry timer is running
  callback,       \* retry_timer_cb has passed its test and is about to connect
  events,         \* the event queue
  handler,        \* what the event task has decided to do about an event
  setter,         \* where wifi_set_credentials is
  wasConnected,   \* its was_connected
  calls,          \* set_wifi commands so far
  link,           \* the driver: "stopped", "down", "joining" or "up"
  world,          \* the circumstances of this behaviour
  status,         \* the get_status command: what it has seen, and if anything moved meanwhile
  mishap,         \* the last call that came to nothing, if nothing has been tried since
  loose,          \* g_reconnect_now was left with no event to take it
  late            \* a connect or retry was under way when the last forget ended

task == <<armed, callback, events, handler>>
call == <<setter, wasConnected, calls, world>>
memory == <<mishap, loose, late>>
vars == <<state, ip, started, want, retries, reconnectNow, task, call, link, status, memory>>

\* esp_netif, the handlers and the timer are set up; credentials may be stored.
\* A configuration or a start that fails leaves WiFi off.
Init ==
  /\ \/ /\ want = TRUE /\ state = "connecting" /\ started = TRUE
        /\ link = "down" /\ events = <<"start">>
     \/ /\ want = FALSE /\ state = "off" /\ started = FALSE
        /\ link = "stopped" /\ events = <<>>
  /\ retries = 0 /\ reconnectNow = FALSE
  /\ armed = FALSE /\ callback = FALSE /\ handler = "none"
  /\ setter = "idle" /\ wasConnected = FALSE /\ calls = 0
  /\ ip = FALSE
  /\ status = [step |-> "none", ip |-> FALSE, name |-> "off", calm |-> FALSE]
  /\ world \in Worlds
  /\ mishap = "none" /\ loose = FALSE /\ late = FALSE

Idle == events = <<>> /\ handler = "none" /\ ~armed /\ ~callback /\ link # "joining"

\* In a calm run nothing else moves while a set_wifi command is executed.
MayMove == world.calm => setter = "idle"

(***************************************************************************)
(* The driver.                                                             *)
(***************************************************************************)
Post(event) == events' = Append(events, event)
Room == Len(events) < MaxEvents

JoinSucceeds ==
  /\ MayMove /\ Room /\ link = "joining"
  /\ link' = "up" /\ Post("got_ip")
  /\ UNCHANGED <<state, ip, started, want, retries, reconnectNow, armed, callback, handler, call>>

JoinFails ==
  /\ MayMove /\ Room /\ link = "joining"
  /\ link' = "down" /\ Post("disconnected")
  /\ UNCHANGED <<state, ip, started, want, retries, reconnectNow, armed, callback, handler, call>>

LinkDrops ==
  /\ MayMove /\ Room /\ link = "up"
  /\ link' = "down" /\ Post("disconnected")
  /\ UNCHANGED <<state, ip, started, want, retries, reconnectNow, armed, callback, handler, call>>

\* esp_wifi_connect: an associated or associating station is left as it is.
ConnectOk == link # "stopped" /\ link' = IF link = "down" THEN "joining" ELSE link
ConnectError == (link = "stopped" \/ "connect" \in world.fails) /\ UNCHANGED link

\* esp_wifi_disconnect: without a link there is nothing to report.
DisconnectOk ==
  /\ link # "stopped"
  /\ IF link = "down" THEN UNCHANGED <<link, events>>
     ELSE Room /\ link' = "down" /\ Post("disconnected")
DisconnectError == "disconnect" \in world.fails /\ UNCHANGED <<link, events>>

(***************************************************************************)
(* The event task and the timer task.                                      *)
(***************************************************************************)
ScheduleRetry ==
  /\ retries' = IF retries < FailedAfter THEN retries + 1 ELSE retries
  /\ state' = IF retries + 1 >= FailedAfter THEN "failed" ELSE "connecting"
  /\ armed' = TRUE

ConnectOrRetry ==
  \/ ConnectOk /\ UNCHANGED <<retries, state, armed>>
  \/ ConnectError /\ ScheduleRetry

TimerFires ==
  /\ MayMove /\ armed /\ ~callback
  /\ armed' = FALSE
  /\ callback' = (want /\ state # "connected")
  /\ UNCHANGED <<state, ip, started, want, retries, reconnectNow, events, handler, call, link>>

TimerConnects ==
  /\ MayMove /\ callback
  /\ callback' = FALSE
  /\ ConnectOrRetry
  /\ UNCHANGED <<ip, started, want, reconnectNow, events, handler, call>>

OnStart ==
  /\ MayMove /\ handler = "none" /\ events # <<>> /\ Head(events) = "start"
  /\ events' = Tail(events)
  /\ IF want THEN state' = "connecting" /\ handler' = "connect"
             ELSE UNCHANGED <<state, handler>>
  /\ UNCHANGED <<ip, started, want, retries, reconnectNow, armed, callback, call, link>>

StartConnects ==
  /\ MayMove /\ handler = "connect"
  /\ handler' = "none"
  /\ ConnectOrRetry
  /\ UNCHANGED <<ip, started, want, reconnectNow, callback, events, call>>

\* Mutated form of OnDisconnected: it retries without credentials as well.
OnDisconnectedAnyway ==
  /\ MayMove /\ handler = "none" /\ events # <<>> /\ Head(events) = "disconnected"
  /\ events' = Tail(events) /\ ip' = FALSE
  /\ handler' = IF reconnectNow THEN "reconnect" ELSE "retry"
  /\ UNCHANGED <<state, started, want, retries, reconnectNow, armed, callback, call, link>>

OnDisconnected ==
  /\ MayMove /\ handler = "none" /\ events # <<>> /\ Head(events) = "disconnected"
  /\ events' = Tail(events) /\ ip' = FALSE
  /\ handler' = CASE ~want -> "off"
                  [] want /\ reconnectNow -> "reconnect"
                  [] OTHER -> "retry"
  /\ UNCHANGED <<state, started, want, retries, reconnectNow, armed, callback, call, link>>

DisconnectedOff ==
  /\ MayMove /\ handler = "off"
  /\ handler' = "none"
  /\ state' = "off"
  /\ UNCHANGED <<ip, started, want, retries, reconnectNow, armed, callback, events, call, link>>

\* Mutated form of DisconnectedReconnects: the mark stays.
ReconnectsKeepMark ==
  /\ MayMove /\ handler = "reconnect"
  /\ handler' = "none"
  /\ retries' = 0 /\ state' = "connecting"
  /\ ConnectOk \/ ConnectError
  /\ UNCHANGED <<ip, started, want, reconnectNow, armed, callback, events, call>>

\* The result of this esp_wifi_connect is not looked at.
DisconnectedReconnects ==
  /\ MayMove /\ handler = "reconnect"
  /\ handler' = "none"
  /\ reconnectNow' = FALSE /\ retries' = 0 /\ state' = "connecting"
  /\ ConnectOk \/ ConnectError
  /\ UNCHANGED <<ip, started, want, armed, callback, events, call>>

\* Mutated form of DisconnectedRetries: the station gives up once it has failed.
GivesUp ==
  /\ MayMove /\ handler = "retry"
  /\ handler' = "none"
  /\ IF state = "failed" THEN UNCHANGED <<retries, state, armed>> ELSE ScheduleRetry
  /\ UNCHANGED <<ip, started, want, reconnectNow, callback, events, call, link>>

DisconnectedRetries ==
  /\ MayMove /\ handler = "retry"
  /\ handler' = "none"
  /\ ScheduleRetry
  /\ UNCHANGED <<ip, started, want, reconnectNow, callback, events, call, link>>

OnGotIp ==
  /\ MayMove /\ handler = "none" /\ events # <<>> /\ Head(events) = "got_ip"
  /\ events' = Tail(events)
  /\ ip' = TRUE
  /\ handler' = "got_ip"
  /\ UNCHANGED <<state, started, want, retries, reconnectNow, armed, callback, call, link>>

GotIpConnected ==
  /\ MayMove /\ handler = "got_ip"
  /\ handler' = "none"
  /\ retries' = 0 /\ state' = "connected"
  /\ UNCHANGED <<ip, started, want, reconnectNow, armed, callback, events, call, link>>

(***************************************************************************)
(* wifi_set_credentials                                                    *)
(***************************************************************************)
SetCredentials ==
  /\ setter = "idle" /\ calls < MaxCalls /\ status.step \in {"none", "replied"}
  /\ world.calm => Idle
  /\ calls' = calls + 1
  /\ wasConnected' = (state = "connected")
  /\ \/ "forget" \in world.commands /\ setter' = "forget"
     \/ "set" \in world.commands /\ setter' = "stop_timer"
     \/ setter' = "idle"   \* the NVS write failed
  /\ UNCHANGED <<state, ip, started, want, retries, reconnectNow, task, link, world>>

\* An empty ssid: forget the network.
Forget ==
  /\ setter = "forget"
  /\ want' = FALSE /\ reconnectNow' = FALSE /\ retries' = 0
  /\ setter' = "forget_timer"
  /\ UNCHANGED <<state, ip, started, task, wasConnected, calls, world, link>>

ForgetTimer ==
  /\ setter = "forget_timer"
  /\ armed' = FALSE
  /\ setter' = "stop_driver"
  /\ UNCHANGED <<state, ip, started, want, retries, reconnectNow, callback, events, handler,
                 wasConnected, calls, world, link>>

\* Mutated form of StopDriver: the station is disconnected but not stopped.
OnlyDisconnect ==
  /\ setter = "stop_driver"
  /\ IF started THEN DisconnectOk ELSE UNCHANGED <<events, link>>
  /\ setter' = "clear_ip"
  /\ UNCHANGED <<state, ip, started, want, retries, reconnectNow, armed, callback, handler,
                 wasConnected, calls, world>>

\* esp_wifi_disconnect and esp_wifi_stop
StopDriver ==
  /\ setter = "stop_driver"
  /\ IF started
       THEN /\ link' = "stopped"
            /\ IF link \in {"joining", "up"} THEN Room /\ Post("disconnected") ELSE UNCHANGED events
            /\ started' = FALSE
       ELSE UNCHANGED <<ip, started, events, link>>
  /\ setter' = "clear_ip"
  /\ UNCHANGED <<state, ip, want, retries, reconnectNow, armed, callback, handler, wasConnected,
                 calls, world>>

ClearIp ==
  /\ setter = "clear_ip"
  /\ ip' = FALSE
  /\ setter' = "off"
  /\ UNCHANGED <<state, started, want, retries, reconnectNow, task, wasConnected, calls, world,
                 link>>

GoOff ==
  /\ setter = "off"
  /\ state' = "off"
  /\ setter' = "idle"
  /\ UNCHANGED <<ip, started, want, retries, reconnectNow, task, wasConnected, calls, world, link>>

\* New credentials.
StopTimer ==
  /\ setter = "stop_timer"
  /\ armed' = FALSE
  /\ setter' = "config"
  /\ UNCHANGED <<state, ip, started, want, retries, reconnectNow, callback, events, handler,
                 wasConnected, calls, world, link>>

Configure ==
  /\ setter = "config"
  /\ \/ setter' = "connecting"
     \/ "config" \in world.fails /\ setter' = "idle"
  /\ UNCHANGED <<state, ip, started, want, retries, reconnectNow, task, wasConnected, calls,
                 world, link>>

\* Mutated form of Connecting: a connected station is not disconnected first.
ConnectsWhileUp ==
  /\ setter = "connecting"
  /\ retries' = 0 /\ want' = TRUE /\ state' = "connecting"
  /\ setter' = IF started THEN "connect" ELSE "start"
  /\ UNCHANGED <<ip, started, reconnectNow, task, wasConnected, calls, world, link>>

Connecting ==
  /\ setter = "connecting"
  /\ retries' = 0 /\ want' = TRUE /\ state' = "connecting"
  /\ setter' = CASE ~started -> "start"
                 [] started /\ wasConnected -> "mark"
                 [] OTHER -> "connect"
  /\ UNCHANGED <<ip, started, reconnectNow, task, wasConnected, calls, world, link>>

StartDriver ==
  /\ setter = "start"
  /\ \/ Room /\ link' = "down" /\ started' = TRUE /\ Post("start")
     \/ "start" \in world.fails /\ UNCHANGED <<link, started, events>>
  /\ setter' = "idle"
  /\ UNCHANGED <<state, ip, want, retries, reconnectNow, armed, callback, handler, wasConnected,
                 calls, world>>

MarkReconnect ==
  /\ setter = "mark"
  /\ reconnectNow' = TRUE
  /\ setter' = "disconnect"
  /\ UNCHANGED <<state, ip, started, want, retries, task, wasConnected, calls, world, link>>

Disconnect ==
  /\ setter = "disconnect"
  /\ \/ DisconnectOk /\ UNCHANGED <<state, retries, reconnectNow, armed>>
     \/ DisconnectError /\ reconnectNow' = FALSE /\ ScheduleRetry
  /\ setter' = "idle"
  /\ UNCHANGED <<ip, started, want, callback, handler, wasConnected, calls, world>>

Connect ==
  /\ setter = "connect"
  /\ ConnectOrRetry
  /\ setter' = "idle"
  /\ UNCHANGED <<ip, started, want, reconnectNow, callback, events, handler, wasConnected, calls,
                 world>>

(***************************************************************************)
(* get_status: wifi_ip, which looks at g_state and then copies g_ip, and   *)
(* after it wifi_state_name.                                               *)
(***************************************************************************)
StatusStart(step) ==
  /\ setter = "idle" /\ status.step \in {"none", "replied"}
  /\ status' = [step |-> step, ip |-> FALSE, name |-> "off",
                calm |-> events = <<>> /\ handler = "none"]

\* Mutated form of StatusTests: wifi_ip does not look at the state.
StatusAlways == StatusStart("copy")

StatusTests == StatusStart(IF state = "connected" THEN "copy" ELSE "name")

StatusCopies ==
  /\ status.step = "copy"
  /\ status' = [status EXCEPT !.ip = ip, !.step = "name"]

StatusReplies ==
  /\ status.step = "name"
  /\ status' = [status EXCEPT !.name = state, !.step = "replied"]

Status ==
  /\ StatusTests \/ StatusCopies \/ StatusReplies
  /\ UNCHANGED <<state, ip, started, want, retries, reconnectNow, task, call, link, memory>>

EventTask ==
  \/ OnStart \/ StartConnects \/ OnGotIp \/ GotIpConnected
  \/ OnDisconnected \/ DisconnectedOff \/ DisconnectedReconnects \/ DisconnectedRetries

TimerTask == TimerFires \/ TimerConnects

Setter ==
  \/ Forget \/ ForgetTimer \/ StopDriver \/ ClearIp \/ GoOff
  \/ StopTimer \/ Configure \/ Connecting
  \/ StartDriver \/ MarkReconnect \/ Disconnect \/ Connect

\* A step of anyone else takes the calm from a get_status.
Disturb == status' = [status EXCEPT !.calm = FALSE]

(***************************************************************************)
(* What the steps are remembered by.                                       *)
(***************************************************************************)
Pending(event) == event \in {events[n] : n \in 1 .. Len(events)}

\* esp_wifi_start and esp_wifi_set_config are refused; nobody tries again.
StartRefused == setter = "start" /\ setter' = "idle" /\ ~started'
ConfigRefused == setter = "config" /\ setter' = "idle"

\* The connect of on_wifi_event whose result is not looked at brings no attempt.
ReconnectRefused == handler = "reconnect" /\ handler' = "none" /\ link' \notin {"joining", "up"}

\* The link to disconnect has dropped before, and its event has been taken before the mark.
DropMissed ==
  /\ setter = "disconnect" /\ setter' = "idle" /\ reconnectNow'
  /\ link = "down" /\ ~Pending("disconnected") /\ handler # "reconnect"

\* A connect is called although the link is up; a set_wifi does so only if the link came up
\* after its look at g_state.
JoinMissed ==
  /\ link = "up"
  /\ \/ setter = "connect" /\ setter' = "idle" /\ ~wasConnected
     \/ callback /\ ~callback'
     \/ handler \in {"connect", "reconnect"} /\ handler' = "none"

\* Something is on its way again.
TriesAnew ==
  \/ setter = "idle" /\ setter' # "idle"
  \/ Len(events') > Len(events)
  \/ ~armed /\ armed'
  \/ link # "joining" /\ link' = "joining"

Remember ==
  /\ mishap' = CASE TriesAnew -> "none"
                 [] ~TriesAnew /\ StartRefused -> "start"
                 [] ~TriesAnew /\ ConfigRefused -> "config"
                 [] ~TriesAnew /\ ReconnectRefused -> "reconnect"
                 [] ~TriesAnew /\ DropMissed -> "drop missed"
                 [] ~TriesAnew /\ JoinMissed -> "join missed"
                 [] OTHER -> mishap
  /\ loose' = (reconnectNow' /\ (loose \/ DropMissed))
  /\ late' = IF setter = "off" /\ setter' = "idle"
               THEN callback \/ handler \in {"connect", "reconnect", "retry"}
               ELSE late

Noted == Disturb /\ Remember

Next ==
  \/ /\ \/ EventTask \/ TimerTask \/ Setter \/ SetCredentials
        \/ JoinSucceeds \/ JoinFails \/ LinkDrops
     /\ Noted
  \/ Status

Spec == Init /\ [][Next]_vars

\* FreeRTOS runs the tasks; the driver ends an attempt one way or the other; a
\* connect that is called again and again is accepted some time, and an access
\* point that is tried again and again lets the station in.
Fairness ==
  /\ WF_vars(EventTask /\ Noted) /\ WF_vars(TimerTask /\ Noted) /\ WF_vars(Setter /\ Noted)
  /\ WF_vars((JoinSucceeds \/ JoinFails) /\ Noted) /\ SF_vars(JoinSucceeds /\ Noted)
  /\ SF_vars(TimerConnects /\ ConnectOk /\ Noted)
  /\ WF_vars((StatusCopies \/ StatusReplies) /\ UNCHANGED <<state, ip, started, want, retries,
                                                reconnectNow, task, call, link, memory>>)

FairSpec == Spec /\ Fairness

(***************************************************************************)
(* Properties                                                              *)
(***************************************************************************)
TypeOK ==
  /\ state \in {"off", "connecting", "connected", "failed"} /\ ip \in BOOLEAN
  /\ started \in BOOLEAN /\ want \in BOOLEAN /\ reconnectNow \in BOOLEAN
  /\ retries \in 0 .. FailedAfter
  /\ armed \in BOOLEAN /\ callback \in BOOLEAN
  /\ events \in Seq({"start", "disconnected", "got_ip"}) /\ Len(events) <= MaxEvents
  /\ handler \in {"none", "connect", "off", "reconnect", "retry", "got_ip"}
  /\ setter \in {"idle", "forget", "forget_timer", "stop_driver", "clear_ip", "off", "stop_timer",
                 "config", "connecting", "start", "mark", "disconnect", "connect"}
  /\ wasConnected \in BOOLEAN /\ calls \in 0 .. MaxCalls
  /\ link \in {"stopped", "down", "joining", "up"}
  /\ world \in Worlds
  /\ status \in [step : {"none", "copy", "name", "replied"}, ip : BOOLEAN,
                 name : {"off", "connecting", "connected", "failed"}, calm : BOOLEAN]
  /\ mishap \in {"none", "start", "config", "reconnect", "drop missed", "join missed"}
  /\ loose \in BOOLEAN /\ late \in BOOLEAN

\* get_status says "connected" only of a station that has its link, and shows an address with
\* it and only with it ("ip", docs/protocol.md), once the event task has caught up with the
\* driver, whoever has called what and when; nothing moves during the command.
ConnectedIsReal ==
  status.step = "replied" /\ status.calm =>
    /\ status.name = "connected" => link = "up"
    /\ status.ip = (status.name = "connected")

\* So it does whatever moves: "the address when connected, else empty" (docs/protocol.md).
StatusAgrees == status.step = "replied" => status.ip = (status.name = "connected")

\* `wifi --clear` really forgets the network: no retry that was under way brings
\* the link back, nor keeps trying.
ForgottenStaysDown == setter = "idle" /\ ~want => link = "stopped"

\* With credentials and nothing left to happen the station is connected ("retries go on", web
\* design).
NotStranded == setter = "idle" /\ want /\ Idle => state = "connected" /\ link = "up"

\* An event, a timer or an attempt always gets it there, whatever fails and whoever overtakes
\* whom, unless the last thing tried was one of five that nobody follows up: a refused
\* esp_wifi_start (wifi.c:168), a refused esp_wifi_set_config after the retry timer was stopped
\* (wifi.c:159), the refused connect of a self-caused drop (wifi.c:75), a disconnect that came
\* after the drop (wifi.c:175), or a connect while the link was up.
AlwaysAnotherTry == NotStranded \/ mishap # "none"

\* Without credentials and with nothing left to happen, wifi_state says "off" (docs/protocol.md,
\* get_status).
SaysOff == setter = "idle" /\ ~want /\ Idle => state = "off"

\* It does so after each forget, unless a connect or retry had passed its test of g_want_connect
\* before the network was forgotten and was still to end after that (wifi.c:49, 66, 71-79).
ForgottenIsOff == SaysOff \/ late

\* The mark of a self-caused disconnect is there only for an event that is on its way or being
\* handled: none lies about for a later drop to stumble over.
MarkIsAnswered ==
  reconnectNow /\ setter = "idle" => Pending("disconnected") \/ handler = "reconnect"

\* So it is, unless the disconnect came after the link had dropped and that drop had been handled
\* (was_connected, wifi.c:143, 174).
MarkIsSpent == MarkIsAnswered \/ loose

\* No set_wifi overtakes the event task, and no call it makes is refused.
Undisturbed == "set" \notin world.commands \/ (world.calm /\ world.fails = {})

\* However often joining fails and the link drops, a station with credentials
\* gets connected again.
Reconnects == (Undisturbed /\ want) ~> (state = "connected" \/ ~want)
================================================================================
