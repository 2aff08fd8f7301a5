------------------------------- MODULE WifiProofs -------------------------------
(***************************************************************************)
(* For queues of any length, any number of commands and any circumstances: *)
(* what a forgotten network leaves behind, what get_status may say, where  *)
(* the mark of a self-caused disconnect goes, and which calls end a        *)
(* station's trying.                                                       *)
(***************************************************************************)
EXTENDS Wifi, SequenceTheorems, TLAPS

(***************************************************************************)
(* The event queue.                                                        *)
(***************************************************************************)
Event == {"start", "disconnected", "got_ip"}

\* No "disconnected" after the n-th of the events s.
NoneAfter(s, n) == \A m \in 1 .. Len(s) : m > n => s[m] # "disconnected"

LEMMA EmptyQueue == <<>> \in Seq(Event) /\ Len(<<>>) = 0
  OBVIOUS

LEMMA AppendSeq ==
  ASSUME NEW s \in Seq(Event), NEW e \in Event
  PROVE  /\ Append(s, e) \in Seq(Event) /\ Len(Append(s, e)) = Len(s) + 1
         /\ \A n \in 1 .. Len(s) : Append(s, e)[n] = s[n]
         /\ Append(s, e)[Len(s) + 1] = e
  OBVIOUS

LEMMA TailSeq ==
  ASSUME NEW s \in Seq(Event), s # <<>>
  PROVE  /\ Tail(s) \in Seq(Event) /\ Len(Tail(s)) = Len(s) - 1 /\ Len(s) \in Nat \ {0}
         /\ \A n \in 1 .. Len(Tail(s)) : Tail(s)[n] = s[n + 1]
         /\ Head(s) = s[1]
  OBVIOUS

LEMMA DisconnectLast ==
  ASSUME NEW s \in Seq(Event), NEW n \in Int, n <= Len(s)
  PROVE  ~NoneAfter(Append(s, "disconnected"), n)
  BY AppendSeq DEF NoneAfter, Event

LEMMA OtherLast ==
  ASSUME NEW s \in Seq(Event), NEW e \in Event, NEW n \in Int, NoneAfter(Append(s, e), n)
  PROVE  NoneAfter(s, n)
  BY AppendSeq DEF NoneAfter

LEMMA TailNone ==
  ASSUME NEW s \in Seq(Event), s # <<>>, NEW n \in Nat, NoneAfter(Tail(s), n)
  PROVE  NoneAfter(s, n + 1)
  <1> SUFFICES ASSUME NEW m \in 1 .. Len(s), m > n + 1 PROVE s[m] # "disconnected"
    BY DEF NoneAfter
  <1>1. m - 1 \in 1 .. Len(Tail(s)) /\ m - 1 > n  BY TailSeq
  <1>2. Tail(s)[m - 1] = s[m]  BY <1>1, TailSeq
  <1> QED  BY <1>1, <1>2 DEF NoneAfter

(***************************************************************************)
(* A forgotten network.                                                    *)
(***************************************************************************)
\* The driver runs exactly if g_started says so, and without credentials only until set_wifi
\* has stopped it.
DownInv ==
  /\ link \in {"stopped", "down", "joining", "up"}
  /\ link = "stopped" <=> ~started
  /\ ~want /\ setter \notin {"forget_timer", "stop_driver"} => ~started
  /\ setter = "start" => ~started
  /\ setter \in {"start", "mark", "disconnect", "connect"} => want
  /\ setter \in {"forget_timer", "stop_driver", "clear_ip", "off"} => ~want

LEMMA DownInit == Init => DownInv
  BY DEF Init, DownInv

LEMMA DownStep == DownInv /\ [Next]_vars => DownInv'
  <1> SUFFICES ASSUME DownInv, [Next]_vars PROVE DownInv'  OBVIOUS
  <1> USE DEF DownInv, vars, task, call
  <1>1. CASE UNCHANGED vars \/ Status  BY <1>1 DEF Status
  <1>2. CASE EventTask
    BY <1>2 DEF EventTask, OnStart, StartConnects, OnGotIp, GotIpConnected, OnDisconnected,
                DisconnectedOff, DisconnectedReconnects, DisconnectedRetries, ConnectOrRetry,
                ConnectOk, ConnectError
  <1>3. CASE TimerTask
    BY <1>3 DEF TimerTask, TimerFires, TimerConnects, ConnectOrRetry, ConnectOk, ConnectError
  <1>4. CASE JoinSucceeds \/ JoinFails \/ LinkDrops
    BY <1>4 DEF JoinSucceeds, JoinFails, LinkDrops
  <1>5. CASE SetCredentials  BY <1>5 DEF SetCredentials
  <1>6. CASE Forget  BY <1>6, Zenon DEF Forget
  <1>15. CASE MarkReconnect  BY <1>15 DEF MarkReconnect
  <1>7. CASE StopDriver  BY <1>7 DEF StopDriver
  <1>8. CASE Connecting  BY <1>8 DEF Connecting
  <1>9. CASE StartDriver  BY <1>9 DEF StartDriver
  <1>10. CASE Disconnect  BY <1>10 DEF Disconnect, DisconnectOk, DisconnectError
  <1>11. CASE Connect  BY <1>11 DEF Connect, ConnectOrRetry, ConnectOk, ConnectError
  <1>12. CASE ForgetTimer \/ ClearIp  BY <1>12 DEF ForgetTimer, ClearIp
  <1>13. CASE GoOff  BY <1>13 DEF GoOff
  <1>14. CASE StopTimer \/ Configure  BY <1>14 DEF StopTimer, Configure
  <1> QED
    BY <1>1, <1>2, <1>3, <1>4, <1>5, <1>6, <1>7, <1>8, <1>9, <1>10, <1>11, <1>12, <1>13, <1>14, <1>15
    DEF Next, Setter

\* Whatever retry, event or failing call is under way when the network is forgotten, none brings
\* the link back (wifi.c:151).
THEOREM ForgottenIsDown == Spec => []ForgottenStaysDown
  <1>1. Init => DownInv  BY DownInit
  <1>2. DownInv /\ [Next]_vars => DownInv'  BY DownStep
  <1>3. DownInv => ForgottenStaysDown  BY DEF DownInv, ForgottenStaysDown
  <1> QED  BY <1>1, <1>2, <1>3, PTL DEF Spec

(***************************************************************************)
(* A connected station.                                                    *)
(***************************************************************************)
Fresh == NoneAfter(events, 0)
Linked == link = "up" /\ ip = TRUE

\* Each link that ends leaves a "disconnected" in the queue, behind the "got_ip" it had.
LinkInv ==
  /\ events \in Seq(Event)
  /\ \A n \in 1 .. Len(events) : events[n] = "got_ip" /\ NoneAfter(events, n) => link = "up"

\* What the event task has taken from the queue is true until the next "disconnected".
RealInv ==
  /\ Fresh /\ handler = "got_ip" => Linked
  /\ Fresh /\ state = "connected" /\ handler \notin {"off", "reconnect", "retry"} => Linked
  /\ setter = "clear_ip" => link = "stopped"

\* A step of the driver's queue: nothing is posted, an event is posted or the first is taken.
Quiet == events' = events /\ (link' = link \/ link # "up")
Posts(e) == events' = Append(events, e)
Takes == events # <<>> /\ events' = Tail(events) /\ link' = link

LEMMA QueueMoves ==
  ASSUME DownInv, [Next]_vars
  PROVE  \/ Quiet
         \/ Posts("disconnected")
         \/ Posts("got_ip") /\ link' = "up"
         \/ Posts("start") /\ link = "stopped"
         \/ Takes /\ (OnStart \/ OnGotIp \/ OnDisconnected)
  <1> USE DEF DownInv, vars, task, call, Quiet, Posts, Takes, Post
  <1>1. CASE UNCHANGED vars \/ Status  BY <1>1 DEF Status
  <1>2. CASE JoinSucceeds \/ JoinFails \/ LinkDrops
    BY <1>2 DEF JoinSucceeds, JoinFails, LinkDrops
  <1>3. CASE OnStart \/ OnGotIp \/ OnDisconnected
    BY <1>3 DEF OnStart, OnGotIp, OnDisconnected
  <1>4. CASE StartConnects \/ GotIpConnected \/ DisconnectedOff
    BY <1>4 DEF StartConnects, GotIpConnected, DisconnectedOff, ConnectOrRetry, ConnectOk,
                ConnectError
  <1>5. CASE DisconnectedReconnects \/ DisconnectedRetries
    BY <1>5 DEF DisconnectedReconnects, DisconnectedRetries, ConnectOk, ConnectError
  <1>6. CASE TimerTask
    BY <1>6 DEF TimerTask, TimerFires, TimerConnects, ConnectOrRetry, ConnectOk, ConnectError
  <1>7. CASE SetCredentials  BY <1>7 DEF SetCredentials
  <1>8. CASE Forget \/ ForgetTimer \/ ClearIp \/ GoOff
    BY <1>8 DEF Forget, ForgetTimer, ClearIp, GoOff
  <1>9. CASE StopDriver  BY <1>9 DEF StopDriver
  <1>10. CASE StopTimer \/ Configure \/ Connecting \/ MarkReconnect
    BY <1>10 DEF StopTimer, Configure, Connecting, MarkReconnect
  <1>11. CASE StartDriver  BY <1>11 DEF StartDriver
  <1>12. CASE Disconnect  BY <1>12 DEF Disconnect, DisconnectOk, DisconnectError
  <1>13. CASE Connect  BY <1>13 DEF Connect, ConnectOrRetry, ConnectOk, ConnectError
  <1> QED
    BY <1>1, <1>2, <1>3, <1>4, <1>5, <1>6, <1>7, <1>8, <1>9, <1>10, <1>11, <1>12, <1>13
    DEF Next, EventTask, Setter

LEMMA LinkInit == Init => LinkInv
  <1>0. <<"start">> \in Seq(Event)  BY DEF Event
  <1>1. ASSUME Init PROVE events \in Seq(Event)  BY <1>0, <1>1, EmptyQueue, Zenon DEF Init
  <1>2. ASSUME Init, NEW n \in 1 .. Len(events) PROVE events[n] # "got_ip"  BY <1>2 DEF Init
  <1> QED  BY <1>1, <1>2 DEF LinkInv

LEMMA LinkStep == DownInv /\ LinkInv /\ [Next]_vars => LinkInv'
  <1> SUFFICES ASSUME DownInv, LinkInv, [Next]_vars PROVE LinkInv'  OBVIOUS
  <1> USE DEF LinkInv
  <1>1. CASE Quiet
    <2>1. events' = events /\ (link = "up" => link' = "up")  BY <1>1 DEF Quiet
    <2> QED  BY <2>1
  <1>2. ASSUME NEW e \in Event, Posts(e), e = "got_ip" => link' = "up",
               e = "start" => link = "stopped"
        PROVE  LinkInv'
    <2>1. events' = Append(events, e)  BY <1>2 DEF Posts
    <2>2. events' \in Seq(Event) /\ Len(events') = Len(events) + 1 /\ Len(events) \in Nat
      BY <2>1, AppendSeq
    <2> SUFFICES ASSUME NEW n \in 1 .. Len(events'), events'[n] = "got_ip",
                        NoneAfter(events', n)
                 PROVE  link' = "up"
      BY <2>2
    <2>3. CASE n = Len(events) + 1
      <3>1. events'[n] = e  BY <2>1, <2>3, AppendSeq
      <3> QED  BY <3>1, <1>2
    <2>4. CASE n \in 1 .. Len(events)
      <3>1. events[n] = "got_ip"  BY <2>1, <2>4, AppendSeq
      <3>2. NoneAfter(events, n)  BY <2>1, <2>4, OtherLast
      <3>3. link = "up"  BY <3>1, <3>2, <2>4
      <3>4. e # "disconnected"  BY <2>1, <2>2, <2>4, DisconnectLast
      <3> QED  BY <3>3, <3>4, <1>2 DEF Event
    <2> QED  BY <2>2, <2>3, <2>4
  <1>3. CASE Takes
    <2>1. events # <<>> /\ events' = Tail(events) /\ link' = link  BY <1>3 DEF Takes
    <2> SUFFICES ASSUME NEW n \in 1 .. Len(events'), events'[n] = "got_ip",
                        NoneAfter(events', n)
                 PROVE  link = "up"
      BY <2>1, TailSeq
    <2>2. n + 1 \in 1 .. Len(events) /\ events[n + 1] = "got_ip"  BY <2>1, TailSeq
    <2>3. NoneAfter(events, n + 1)  BY <2>1, TailNone
    <2> QED  BY <2>2, <2>3
  <1> QED  BY <1>1, <1>2, <1>3, QueueMoves DEF Event
\* Who takes nothing from the queue refreshes nothing and ends no link without a trace.
LEMMA FreshStays ==
  ASSUME DownInv, LinkInv, [Next]_vars, ~(OnStart \/ OnGotIp \/ OnDisconnected), Fresh'
  PROVE  Fresh /\ (link = "up" => link' = "up")
  <1>1. CASE Quiet  BY <1>1 DEF Quiet, Fresh
  <1>2. ~Posts("disconnected")
    <2> SUFFICES ASSUME Posts("disconnected") PROVE FALSE  OBVIOUS
    <2>1. events' = Append(events, "disconnected") /\ Len(events) \in Nat  BY DEF Posts, LinkInv
    <2>2. ~NoneAfter(events', 0)  BY <2>1, DisconnectLast DEF LinkInv
    <2> QED  BY <2>2 DEF Fresh
  <1>3. ASSUME NEW e \in Event, Posts(e) PROVE Fresh
    <2>1. NoneAfter(Append(events, e), 0)  BY <1>3 DEF Posts, Fresh
    <2> QED  BY <2>1, OtherLast DEF LinkInv, Fresh
  <1> QED  BY <1>1, <1>2, <1>3, QueueMoves DEF Event

LEMMA RealInit == Init => RealInv
  BY DEF Init, RealInv

LEMMA RealStep == DownInv /\ LinkInv /\ RealInv /\ [Next]_vars => RealInv'
  <1> SUFFICES ASSUME DownInv, LinkInv, RealInv, [Next]_vars PROVE RealInv'  OBVIOUS
  <1> USE DEF RealInv, Linked, vars, task, call
  <1>0. handler = "none" /\ Takes /\ Head(events) # "disconnected" /\ Fresh' => Fresh
    <2> SUFFICES ASSUME Takes, Head(events) # "disconnected", Fresh' PROVE Fresh  OBVIOUS
    <2>1. events # <<>> /\ NoneAfter(Tail(events), 0) /\ events[1] # "disconnected"
      BY TailSeq DEF Takes, Fresh, LinkInv
    <2>2. NoneAfter(events, 1)  BY <2>1, TailNone DEF LinkInv
    <2> QED  BY <2>1, <2>2 DEF Fresh, NoneAfter, LinkInv
  <1>1. CASE OnStart
    <2>1. Takes /\ Head(events) = "start" /\ handler = "none"  BY <1>1 DEF OnStart, Takes
    <2>2. Fresh' => Fresh  BY <2>1, <1>0
    <2> QED  BY <1>1, <2>2 DEF OnStart
  <1>2. CASE OnGotIp
    <2>1. Takes /\ Head(events) = "got_ip"  BY <1>2 DEF OnGotIp, Takes
    <2>2. Fresh' => link = "up"
      <3> SUFFICES ASSUME Fresh' PROVE link = "up"  OBVIOUS
      <3>1. events # <<>> /\ NoneAfter(Tail(events), 0) /\ events[1] = "got_ip"
        BY <2>1, TailSeq DEF Takes, Fresh, LinkInv
      <3>2. NoneAfter(events, 1) /\ 1 \in 1 .. Len(events)  BY <3>1, TailNone, TailSeq DEF LinkInv
      <3> QED  BY <3>1, <3>2 DEF LinkInv
    <2> QED  BY <1>2, <2>2 DEF OnGotIp
  <1>3. CASE OnDisconnected  BY <1>3 DEF OnDisconnected
  <1>4. CASE ~(OnStart \/ OnGotIp \/ OnDisconnected)
    <2>1. Fresh' => Fresh /\ (link = "up" => link' = "up")  BY <1>4, FreshStays
    <2> USE <2>1
    <2>2. CASE UNCHANGED vars \/ Status  BY <2>2 DEF Status
    <2>3. CASE JoinSucceeds \/ JoinFails \/ LinkDrops
      BY <2>3 DEF JoinSucceeds, JoinFails, LinkDrops
    <2>4. CASE StartConnects \/ GotIpConnected \/ DisconnectedOff
      BY <2>4 DEF StartConnects, GotIpConnected, DisconnectedOff, ConnectOrRetry, ConnectOk,
                  ConnectError, ScheduleRetry
    <2>5. CASE DisconnectedReconnects \/ DisconnectedRetries
      BY <2>5 DEF DisconnectedReconnects, DisconnectedRetries, ConnectOk, ConnectError,
                  ScheduleRetry
    <2>6. CASE TimerTask
      BY <2>6 DEF TimerTask, TimerFires, TimerConnects, ConnectOrRetry, ConnectOk, ConnectError,
                  ScheduleRetry
    <2>7. CASE SetCredentials  BY <2>7 DEF SetCredentials
    <2>8. CASE Forget \/ ForgetTimer \/ ClearIp \/ GoOff
      BY <2>8 DEF Forget, ForgetTimer, ClearIp, GoOff
    <2>9. CASE StopDriver  BY <2>9 DEF StopDriver, DownInv
    <2>10. CASE StopTimer \/ Configure \/ Connecting \/ MarkReconnect
      BY <2>10 DEF StopTimer, Configure, Connecting, MarkReconnect
    <2>11. CASE StartDriver  BY <2>11 DEF StartDriver
    <2>12. CASE Disconnect  BY <2>12 DEF Disconnect, DisconnectOk, DisconnectError, ScheduleRetry
    <2>13. CASE Connect
      BY <2>13 DEF Connect, ConnectOrRetry, ConnectOk, ConnectError, ScheduleRetry
    <2> QED
      BY <2>2, <2>3, <2>4, <2>5, <2>6, <2>7, <2>8, <2>9, <2>10, <2>11, <2>12, <2>13, <1>1, <1>2,
         <1>3 DEF Next, EventTask, Setter
  <1> QED  BY <1>1, <1>2, <1>3, <1>4

\* A get_status that nothing disturbs has seen one and the same state throughout.
StatusInv ==
  /\ DOMAIN status = {"step", "ip", "name", "calm"}
  /\ status.calm =>
       /\ events = <<>> /\ handler = "none"
       /\ status.step = "copy" => state = "connected"
       /\ status.step \in {"name", "replied"} => status.ip = (state = "connected")
       /\ status.step = "replied" => status.name = state

LEMMA StatusInit == Init => StatusInv
  BY DEF Init, StatusInv

LEMMA StatusStep == LinkInv /\ RealInv /\ StatusInv /\ [Next]_vars => StatusInv'
  <1> SUFFICES ASSUME LinkInv, RealInv, StatusInv, [Next]_vars PROVE StatusInv'  OBVIOUS
  <1> USE DEF StatusInv, vars, task, call
  <1>1. CASE UNCHANGED vars  BY <1>1
  <1>2. CASE Noted
    <2>1. ~status'.calm /\ DOMAIN status' = DOMAIN status  BY <1>2 DEF Noted, Disturb
    <2> QED  BY <2>1
  <1>3. CASE Status
    <2>1. CASE StatusTests
      <3>1. CASE state = "connected"
        <4>1. status' = [step |-> "copy", ip |-> FALSE, name |-> "off",
                         calm |-> events = <<>> /\ handler = "none"]
          BY <2>1, <3>1 DEF StatusTests, StatusStart
        <4> QED  BY <1>3, <3>1, <4>1 DEF Status
      <3>2. CASE state # "connected"
        <4>1. status' = [step |-> "name", ip |-> FALSE, name |-> "off",
                         calm |-> events = <<>> /\ handler = "none"]
          BY <2>1, <3>2 DEF StatusTests, StatusStart
        <4>2. status'.ip = (state = "connected")  BY <3>2, <4>1
        <4> QED  BY <1>3, <4>1, <4>2 DEF Status
      <3> QED  BY <3>1, <3>2
    <2>2. CASE StatusCopies
      <3>1. status' = [status EXCEPT !.ip = ip, !.step = "name"] /\ status.step = "copy"
        BY <2>2 DEF StatusCopies
      <3>2. /\ DOMAIN status' = DOMAIN status /\ status'.ip = ip /\ status'.step = "name"
            /\ status'.calm = status.calm
        BY <3>1
      <3>3. status.calm => state = "connected" /\ ip = TRUE
        <4>1. NoneAfter(<<>>, 0)  BY EmptyQueue DEF NoneAfter
        <4> QED  BY <3>1, <4>1 DEF RealInv, Fresh, Linked
      <3>4. status.calm => status'.ip = (state = "connected")  BY <3>2, <3>3
      <3> QED  BY <1>3, <3>2, <3>4 DEF Status
    <2>3. CASE StatusReplies  BY <1>3, <2>3 DEF Status, StatusReplies
    <2> QED  BY <1>3, <2>1, <2>2, <2>3 DEF Status
  <1> QED  BY <1>1, <1>2, <1>3 DEF Next
\* Whatever is called when, of a station that has lost its link no undisturbed get_status says
\* "connected", nor does it show an address (wifi.c:205).
THEOREM ConnectedHasItsLink == Spec => []ConnectedIsReal
  <1> DEFINE Inv == DownInv /\ LinkInv /\ RealInv /\ StatusInv
  <1>1. Init => Inv  BY DownInit, LinkInit, RealInit, StatusInit
  <1>2. Inv /\ [Next]_vars => Inv'  BY DownStep, LinkStep, RealStep, StatusStep
  <1>3. Inv => ConnectedIsReal
    <2>1. NoneAfter(<<>>, 0)  BY EmptyQueue DEF NoneAfter
    <2> QED
      BY <2>1, EmptyQueue DEF RealInv, StatusInv, ConnectedIsReal, Fresh, Linked
  <1> QED  BY <1>1, <1>2, <1>3, PTL DEF Spec
(***************************************************************************)
(* What waits in the queue.                                                *)
(***************************************************************************)
LEMMA PendingAppend ==
  ASSUME LinkInv, NEW e \in Event, events' = Append(events, e)
  PROVE  Pending(e)' /\ \A x : Pending(x) => Pending(x)'
  <1>1. /\ Len(events') = Len(events) + 1 /\ Len(events) \in Nat
        /\ \A n \in 1 .. Len(events) : events'[n] = events[n]
        /\ events'[Len(events) + 1] = e
    BY AppendSeq DEF LinkInv
  <1> QED  BY <1>1 DEF Pending

LEMMA PendingTail ==
  ASSUME LinkInv, events # <<>>, events' = Tail(events), NEW x, x # Head(events), Pending(x)
  PROVE  Pending(x)'
  <1>1. PICK n \in 1 .. Len(events) : events[n] = x  BY DEF Pending
  <1>2. n - 1 \in 1 .. Len(Tail(events)) /\ Tail(events)[n - 1] = x
    BY <1>1, TailSeq DEF LinkInv
  <1> QED  BY <1>2 DEF Pending

LEMMA FreshMeans == LinkInv => (Fresh <=> ~Pending("disconnected"))
  BY DEF LinkInv, Fresh, NoneAfter, Pending

LEMMA EmptyPending == events = <<>> => \A x : ~Pending(x)
  BY EmptyQueue DEF Pending

(***************************************************************************)
(* The mark.                                                               *)
(***************************************************************************)
\* The mark is there while its disconnect is to come, while the event of it is on the way or
\* being handled, and from then on only if nothing was left to end.
Marked ==
  \/ setter = "disconnect" \/ Pending("disconnected") \/ handler = "reconnect" \/ loose

MarkInv == reconnectNow => want /\ Marked

LEMMA MarkInit == Init => MarkInv
  BY DEF Init, MarkInv

LEMMA MarkStep == DownInv /\ LinkInv /\ MarkInv /\ [Next]_vars => MarkInv'
  <1> SUFFICES ASSUME DownInv, LinkInv, MarkInv, [Next]_vars PROVE MarkInv'  OBVIOUS
  <1> USE DEF MarkInv, Marked, vars, task, call, memory
  <1>0. CASE UNCHANGED vars \/ Status  BY <1>0 DEF Status, Pending
  <1> SUFFICES ASSUME Noted PROVE MarkInv'  BY <1>0 DEF Next
  <1>1. reconnectNow' /\ (loose \/ DropMissed) => loose'  BY DEF Noted, Remember
  <1>2. ASSUME NEW e \in Event, events' = Append(events, e)
        PROVE  Pending(e)' /\ (Pending("disconnected") => Pending("disconnected")')
    BY <1>2, PendingAppend
  <1>3. events' = events => (Pending("disconnected") => Pending("disconnected")')  BY DEF Pending
  <1>4. CASE JoinSucceeds \/ JoinFails \/ LinkDrops
    <2>1. Pending("disconnected") => Pending("disconnected")'
      BY <1>4, <1>2 DEF JoinSucceeds, JoinFails, LinkDrops, Post, Event
    <2> QED  BY <1>4, <1>1, <2>1 DEF JoinSucceeds, JoinFails, LinkDrops
  <1>5. CASE OnStart \/ OnGotIp
    <2>1. events # <<>> /\ "disconnected" # Head(events) /\ events' = Tail(events)
      BY <1>5 DEF OnStart, OnGotIp
    <2>2. Pending("disconnected") => Pending("disconnected")'  BY <2>1, PendingTail
    <2> QED  BY <1>5, <1>1, <2>2 DEF OnStart, OnGotIp
  <1>6. CASE OnDisconnected  BY <1>6 DEF OnDisconnected
  <1>7. CASE StartConnects \/ GotIpConnected \/ DisconnectedOff \/ DisconnectedRetries
    BY <1>7, <1>1, <1>3 DEF StartConnects, GotIpConnected, DisconnectedOff, DisconnectedRetries,
                            ConnectOrRetry, ConnectOk, ConnectError
  <1>8. CASE DisconnectedReconnects  BY <1>8 DEF DisconnectedReconnects
  <1>9. CASE TimerTask
    BY <1>9, <1>1, <1>3 DEF TimerTask, TimerFires, TimerConnects, ConnectOrRetry, ConnectOk,
                            ConnectError
  <1>10. CASE SetCredentials  BY <1>10, <1>1, <1>3 DEF SetCredentials
  <1>11. CASE Forget  BY <1>11, Zenon DEF Forget
  <1>12. CASE ForgetTimer \/ ClearIp \/ GoOff
    BY <1>12, <1>1, <1>3 DEF ForgetTimer, ClearIp, GoOff
  <1>13. CASE StopDriver  BY <1>13 DEF StopDriver, DownInv
  <1>14. CASE StopTimer \/ Configure  BY <1>14, <1>1, <1>3 DEF StopTimer, Configure
  <1>15. CASE Connecting  BY <1>15, <1>1, <1>3 DEF Connecting
  <1>16. CASE StartDriver
    <2>1. Pending("disconnected") => Pending("disconnected")'
      BY <1>16, <1>2, <1>3 DEF StartDriver, Post, Event
    <2> QED  BY <1>16, <1>1, <2>1 DEF StartDriver
  <1>17. CASE MarkReconnect  BY <1>17 DEF MarkReconnect, DownInv
  <1>18. CASE Disconnect
    <2>0. setter = "disconnect" /\ setter' = "idle" /\ UNCHANGED <<want, handler>> /\ want
      BY <1>18 DEF Disconnect, DownInv
    <2>1. CASE reconnectNow' = FALSE
      <3>1. ~reconnectNow'  BY <2>1
      <3> QED  BY <3>1
    <2>2. CASE DisconnectOk /\ link # "down"
      <3>1. Pending("disconnected")'  BY <2>2, <1>2 DEF DisconnectOk, Post, Event
      <3> QED  BY <2>0, <3>1
    <2>3. CASE DisconnectOk /\ link = "down" /\ (Pending("disconnected") \/ handler = "reconnect")
      <3>1. Pending("disconnected") => Pending("disconnected")'
        BY <2>3, <1>3 DEF DisconnectOk
      <3> QED  BY <2>0, <2>3, <3>1
    <2>4. CASE /\ link = "down" /\ ~Pending("disconnected") /\ handler # "reconnect"
               /\ reconnectNow'
      <3>1. DropMissed  BY <2>0, <2>4, Zenon DEF DropMissed
      <3> QED  BY <2>0, <3>1, <1>1
    <2> QED  BY <1>18, <2>1, <2>2, <2>3, <2>4 DEF Disconnect
  <1>19. CASE Connect
    BY <1>19, <1>1, <1>3 DEF Connect, ConnectOrRetry, ConnectOk, ConnectError
  <1> QED
    BY <1>4, <1>5, <1>6, <1>7, <1>8, <1>9, <1>10, <1>11, <1>12, <1>13, <1>14, <1>15, <1>16,
       <1>17, <1>18, <1>19, <1>0 DEF Next, EventTask, Setter

\* Whatever overtakes whom and whatever call fails, a mark that no event is there to take was
\* left by one thing only: a disconnect of a link whose end had been handled before the mark was
\* set (wifi.c:143, 174).
THEOREM MarkIsTaken == Spec => []MarkIsSpent
  <1> DEFINE Inv == DownInv /\ LinkInv /\ MarkInv
  <1>1. Init => Inv  BY DownInit, LinkInit, MarkInit
  <1>2. Inv /\ [Next]_vars => Inv'  BY DownStep, LinkStep, MarkStep
  <1>3. Inv => MarkIsSpent  BY DEF MarkInv, Marked, MarkIsSpent, MarkIsAnswered
  <1> QED  BY <1>1, <1>2, <1>3, PTL DEF Spec

(***************************************************************************)
(* The end of a forget.                                                    *)
(***************************************************************************)
\* Between commands and up to the test of a new one, a station without credentials has nothing
\* under way that tries to join.
ForgetInv ==
  /\ handler \in {"none", "connect", "off", "reconnect", "retry", "got_ip"}
  /\ setter \in {"idle", "forget", "stop_timer", "config", "connecting"} /\ ~want /\ ~late =>
       ~callback /\ handler \in {"none", "off", "got_ip"} /\ state \in {"off", "connected"}

LEMMA ForgetInit == Init => ForgetInv
  BY DEF Init, ForgetInv

LEMMA ForgetStep == DownInv /\ ForgetInv /\ [Next]_vars => ForgetInv'
  <1> SUFFICES ASSUME DownInv, ForgetInv, [Next]_vars PROVE ForgetInv'  OBVIOUS
  <1> USE DEF ForgetInv, vars, task, call, memory
  <1>0. CASE UNCHANGED vars \/ Status  BY <1>0 DEF Status
  <1> SUFFICES ASSUME Noted PROVE ForgetInv'  BY <1>0 DEF Next
  <1>1. ~(setter = "off" /\ setter' = "idle") => late' = late  BY DEF Noted, Remember
  <1>2. CASE JoinSucceeds \/ JoinFails \/ LinkDrops
    BY <1>2, <1>1 DEF JoinSucceeds, JoinFails, LinkDrops
  <1>3. CASE OnStart \/ OnGotIp \/ OnDisconnected
    BY <1>3, <1>1 DEF OnStart, OnGotIp, OnDisconnected
  <1>4. CASE StartConnects \/ GotIpConnected \/ DisconnectedOff
    BY <1>4, <1>1 DEF StartConnects, GotIpConnected, DisconnectedOff
  <1>5. CASE DisconnectedReconnects \/ DisconnectedRetries
    BY <1>5, <1>1 DEF DisconnectedReconnects, DisconnectedRetries
  <1>6. CASE TimerTask
    <2>1. CASE TimerFires
      <3>1. ~want => ~callback'  BY <2>1, Zenon DEF TimerFires
      <3>2. UNCHANGED <<want, handler, setter, state>> /\ setter' = setter
        BY <2>1 DEF TimerFires
      <3>3. late' = late  BY <2>1, <1>1 DEF TimerFires
      <3> QED  BY <3>1, <3>2, <3>3
    <2>2. CASE TimerConnects  BY <2>2, <1>1 DEF TimerConnects
    <2> QED  BY <1>6, <2>1, <2>2 DEF TimerTask
  <1>7. CASE SetCredentials  BY <1>7, <1>1 DEF SetCredentials
  <1>8. CASE Forget \/ ForgetTimer \/ StopDriver \/ ClearIp
    BY <1>8 DEF Forget, ForgetTimer, StopDriver, ClearIp
  <1>9. CASE GoOff
    <2>1. setter = "off" /\ setter' = "idle" /\ state' = "off" /\ UNCHANGED <<callback, handler>>
      BY <1>9 DEF GoOff
    <2>2. late' = (callback \/ handler \in {"connect", "reconnect", "retry"})
      BY <2>1 DEF Noted, Remember
    <2>3. handler \in {"none", "connect", "off", "reconnect", "retry", "got_ip"}
      BY DEF ForgetInv
    <2> QED  BY <2>1, <2>2, <2>3
  <1>10. CASE StopTimer \/ Configure  BY <1>10, <1>1 DEF StopTimer, Configure
  <1>11. CASE Connecting  BY <1>11 DEF Connecting
  <1>12. CASE StartDriver \/ MarkReconnect \/ Disconnect \/ Connect
    BY <1>12 DEF StartDriver, MarkReconnect, Disconnect, Connect, DownInv
  <1> QED
    BY <1>2, <1>3, <1>4, <1>5, <1>6, <1>7, <1>8, <1>9, <1>10, <1>11, <1>12, <1>0
    DEF Next, EventTask, Setter

\* A network that is forgotten while a retry is under way: once all is still, wifi_state says
\* "off", whatever else went on, unless a connect or retry that had passed its test of
\* g_want_connect was still to end when the command returned (wifi.c:49, 66, 71-79, 154).
THEOREM ForgetEndsOff == Spec => []ForgottenIsOff
  <1> DEFINE Inv == DownInv /\ LinkInv /\ RealInv /\ ForgetInv
  <1>1. Init => Inv  BY DownInit, LinkInit, RealInit, ForgetInit
  <1>2. Inv /\ [Next]_vars => Inv'  BY DownStep, LinkStep, RealStep, ForgetStep
  <1>3. Inv => ForgottenIsOff
    <2> SUFFICES ASSUME Inv, setter = "idle", ~want, Idle, ~late PROVE state = "off"
      BY DEF ForgottenIsOff, SaysOff
    <2>1. state \in {"off", "connected"}  BY DEF ForgetInv
    <2>2. Fresh /\ handler = "none"  BY EmptyQueue DEF Idle, Fresh, NoneAfter
    <2>3. link = "stopped"  BY DEF DownInv
    <2>4. state # "connected"  BY <2>2, <2>3 DEF RealInv, Linked
    <2> QED  BY <2>1, <2>4
  <1> QED  BY <1>1, <1>2, <1>3, PTL DEF Spec

(***************************************************************************)
(* Another try.                                                            *)
(***************************************************************************)
\* Something is on its way that ends in a connection or in another try.
Alive ==
  \/ Pending("disconnected") \/ Pending("start")
  \/ handler \in {"reconnect", "retry", "connect"}
  \/ armed \/ callback \/ link = "joining"
  \/ link = "up" /\ (Pending("got_ip") \/ handler = "got_ip" \/ state = "connected")

\* A station with credentials that no set_wifi is at work on, or whose set_wifi has had its mark
\* taken before it disconnects.
Trying == (setter = "idle" /\ want) \/ (setter = "disconnect" /\ ~reconnectNow)

TryInv ==
  /\ handler = "off" /\ want => state # "connected"
  /\ setter = "connect" => ~wasConnected
  /\ Trying => Alive \/ mishap # "none"

LEMMA TryInit == Init => TryInv
  BY DEF Init, TryInv, Trying, Alive, Pending

\* A station that says it is connected has its link, or is still to be told of its end.
LEMMA ConnectedKnows ==
  ASSUME LinkInv, RealInv, TryInv, want, state = "connected"
  PROVE  link = "up" \/ Pending("disconnected") \/ handler \in {"reconnect", "retry"}
  BY FreshMeans DEF RealInv, TryInv, Linked

\* What is remembered of the last call that came to nothing is forgotten only with a new try.
LEMMA MishapStays ==
  ASSUME Noted
  PROVE  /\ mishap' = "none" => mishap = "none" \/ TriesAnew
         /\ StartRefused \/ ConfigRefused \/ ReconnectRefused \/ DropMissed \/ JoinMissed =>
              mishap' # "none" \/ TriesAnew
  BY DEF Noted, Remember

LEMMA TriesAnewIsAlive ==
  ASSUME DownInv, LinkInv, [Next]_vars, TriesAnew, Trying'
  PROVE  Alive'
  <1> USE DEF Alive, Trying, vars, task, call
  <1>1. CASE setter = "idle" /\ setter' # "idle"
    <2>1. setter' # "disconnect"
      BY <1>1 DEF Next, Noted, Status, EventTask, TimerTask, Setter, SetCredentials, JoinSucceeds,
        JoinFails, LinkDrops, OnStart, StartConnects, OnGotIp, GotIpConnected, OnDisconnected,
        DisconnectedOff, DisconnectedReconnects, DisconnectedRetries, TimerFires, TimerConnects,
        MarkReconnect, Forget, ForgetTimer, StopDriver, ClearIp, GoOff, StopTimer, Configure,
        Connecting, StartDriver, Disconnect, Connect
    <2> QED  BY <1>1, <2>1
  <1>2. CASE Len(events') > Len(events)
    <2>1. ~Quiet /\ ~Takes
      BY <1>2, TailSeq DEF Quiet, Takes, LinkInv
    <2>2. ASSUME NEW e \in Event, Posts(e) PROVE Pending(e)'
      BY <2>2, PendingAppend DEF Posts
    <2> QED  BY <2>1, <2>2, QueueMoves DEF Event
  <1>3. CASE ~armed /\ armed'  BY <1>3
  <1>4. CASE link # "joining" /\ link' = "joining"  BY <1>4
  <1> QED  BY <1>1, <1>2, <1>3, <1>4 DEF TriesAnew

\* The calls that nobody follows up.
Missed == StartRefused \/ ConfigRefused \/ ReconnectRefused \/ DropMissed \/ JoinMissed

LEMMA TryStep == DownInv /\ LinkInv /\ RealInv /\ TryInv /\ [Next]_vars => TryInv'
  <1> SUFFICES ASSUME DownInv, LinkInv, RealInv, TryInv, [Next]_vars PROVE TryInv'  OBVIOUS
  <1> USE DEF TryInv, vars, task, call
  <1>0. CASE UNCHANGED vars \/ Status
    BY <1>0 DEF Status, memory, Trying, Alive, Pending
  <1> SUFFICES ASSUME Noted PROVE TryInv'  BY <1>0 DEF Next
  \* It is enough that a step keeps what is alive, or is one of the calls that nobody follows up.
  <1>1. ASSUME Trying' => Alive' \/ Missed \/ (Trying /\ ~Alive)
        PROVE  Trying' => Alive' \/ mishap' # "none"
    <2>1. TriesAnew /\ Trying' => Alive'  BY TriesAnewIsAlive
    <2> QED  BY <1>1, <2>1, MishapStays DEF Missed
  <1>2. Trying => want  BY DEF Trying, DownInv
  <1>3. events' = events => \A x : Pending(x)' <=> Pending(x)  BY DEF Pending
  <1>4. ASSUME NEW e \in Event, events' = Append(events, e) PROVE Pending(e)'
    BY <1>4, PendingAppend
  <1>5. CASE JoinSucceeds \/ JoinFails \/ LinkDrops
    <2>1. Alive'
      BY <1>5, <1>4 DEF JoinSucceeds, JoinFails, LinkDrops, Post, Event, Alive
    <2> QED  BY <1>5, <2>1 DEF JoinSucceeds, JoinFails, LinkDrops
  <1>6. CASE OnStart
    <2>1. want => Alive'  BY <1>6 DEF OnStart, Alive
    <2>2. Trying' => want  BY <1>6, <1>2 DEF OnStart, Trying
    <2>3. Trying' => Alive' \/ mishap' # "none"  BY <2>1, <2>2
    <2> QED  BY <1>6, <2>3 DEF OnStart
  <1>7. CASE OnGotIp
    <2>1. /\ events # <<>> /\ events' = Tail(events) /\ events[1] = "got_ip"
          /\ Head(events) = "got_ip" /\ 1 \in 1 .. Len(events)
      BY <1>7, TailSeq DEF OnGotIp, LinkInv
    <2>2. CASE link = "up"  BY <1>7, <2>2 DEF OnGotIp, Alive
    <2>3. CASE link # "up"
      <3>1. ~NoneAfter(events, 1)  BY <2>1, <2>3 DEF LinkInv
      <3>2. Pending("disconnected")  BY <3>1 DEF NoneAfter, Pending
      <3>3. Pending("disconnected")'  BY <2>1, <3>2, PendingTail
      <3> QED  BY <1>7, <3>3 DEF OnGotIp, Alive
    <2> QED  BY <2>2, <2>3
  <1>8. CASE OnDisconnected
    <2>1. want => handler' \in {"reconnect", "retry"}  BY <1>8 DEF OnDisconnected
    <2>2. Trying' => want  BY <1>8, <1>2 DEF OnDisconnected, Trying
    <2> QED  BY <1>8, <2>1, <2>2 DEF OnDisconnected, Alive
  <1>9. CASE StartConnects
    <2>1. Alive' \/ JoinMissed
      BY <1>9 DEF StartConnects, ConnectOrRetry, ConnectOk, ConnectError, ScheduleRetry,
                  JoinMissed, Alive, DownInv
    <2>2. Trying' => Alive' \/ mishap' # "none"  BY <1>1, <2>1 DEF Missed
    <2> QED  BY <1>9, <2>2 DEF StartConnects
  <1>10. CASE GotIpConnected
    <2>1. link = "up" \/ Pending("disconnected")
      BY <1>10, FreshMeans DEF GotIpConnected, RealInv, Linked
    <2>2. Alive'  BY <1>10, <1>3, <2>1 DEF GotIpConnected, Alive
    <2> QED  BY <1>10, <2>2 DEF GotIpConnected
  <1>11. CASE DisconnectedOff
    <2>1. Trying' => Trying  BY <1>11 DEF DisconnectedOff, Trying
    <2>2. Trying /\ Alive => Alive'  BY <1>11, <1>2, <1>3 DEF DisconnectedOff, Alive
    <2>3. Trying' => Alive' \/ mishap' # "none"  BY <1>1, <2>1, <2>2
    <2> QED  BY <1>11, <2>3 DEF DisconnectedOff
  <1>12. CASE DisconnectedReconnects
    <2>1. Alive' \/ JoinMissed \/ ReconnectRefused
      BY <1>12 DEF DisconnectedReconnects, ConnectOk, ConnectError, JoinMissed, ReconnectRefused,
                   Alive, DownInv
    <2>2. Trying' => Alive' \/ mishap' # "none"  BY <1>1, <2>1 DEF Missed
    <2> QED  BY <1>12, <2>2 DEF DisconnectedReconnects
  <1>13. CASE DisconnectedRetries
    <2>1. Alive'  BY <1>13 DEF DisconnectedRetries, ScheduleRetry, Alive
    <2> QED  BY <1>13, <2>1 DEF DisconnectedRetries
  <1>14. CASE TimerFires
    <2>1. want /\ state # "connected" => callback'  BY <1>14, Zenon DEF TimerFires
    <2>2. want /\ state = "connected" => Alive'
      BY <1>14, <1>3, ConnectedKnows DEF TimerFires, Alive
    <2>3. Trying' => want  BY <1>14, <1>2 DEF TimerFires, Trying
    <2>4. Trying' => Alive'  BY <2>1, <2>2, <2>3 DEF Alive
    <2> QED  BY <1>14, <2>4 DEF TimerFires
  <1>15. CASE TimerConnects
    <2>1. Alive' \/ JoinMissed
      BY <1>15 DEF TimerConnects, ConnectOrRetry, ConnectOk, ConnectError, ScheduleRetry,
                   JoinMissed, Alive, DownInv
    <2>2. Trying' => Alive' \/ mishap' # "none"  BY <1>1, <2>1 DEF Missed
    <2> QED  BY <1>15, <2>2 DEF TimerConnects, ConnectOrRetry, ScheduleRetry
  <1>16. CASE SetCredentials
    <2>1. Trying' => Trying  BY <1>16 DEF SetCredentials, Trying
    <2>2. Alive => Alive'  BY <1>16, <1>3 DEF SetCredentials, Alive
    <2>3. Trying' => Alive' \/ mishap' # "none"  BY <1>1, <2>1, <2>2
    <2> QED  BY <1>16, <2>3 DEF SetCredentials
  <1>17. CASE Forget \/ ForgetTimer \/ StopDriver \/ ClearIp \/ GoOff
    <2>1. ~Trying'
      BY <1>17 DEF Forget, ForgetTimer, StopDriver, ClearIp, GoOff, Trying, DownInv
    <2>2. setter' # "connect" /\ handler' = handler /\ (want' => want)
      BY <1>17 DEF Forget, ForgetTimer, StopDriver, ClearIp, GoOff
    <2>3. state' = "connected" => state = "connected"
      BY <1>17 DEF Forget, ForgetTimer, StopDriver, ClearIp, GoOff
    <2> QED  BY <2>1, <2>2, <2>3
  <1>18. CASE StopTimer  BY <1>18 DEF StopTimer, Trying
  <1>19. CASE Configure
    <2>1. Trying' => ConfigRefused  BY <1>19 DEF Configure, Trying, ConfigRefused
    <2>2. Trying' => Alive' \/ mishap' # "none"  BY <1>1, <2>1 DEF Missed
    <2> QED  BY <1>19, <2>2 DEF Configure
  <1>20. CASE Connecting  BY <1>20 DEF Connecting, Trying
  <1>21. CASE StartDriver
    <2>1. Alive' \/ StartRefused
      BY <1>21, <1>4 DEF StartDriver, Post, Event, StartRefused, Alive, DownInv
    <2>2. Trying' => Alive' \/ mishap' # "none"  BY <1>1, <2>1 DEF Missed
    <2> QED  BY <1>21, <2>2 DEF StartDriver
  <1>22. CASE MarkReconnect  BY <1>22 DEF MarkReconnect, Trying
  <1>23. CASE Disconnect
    <2>0. setter = "disconnect" /\ setter' = "idle" /\ UNCHANGED <<want, callback, handler>>
      BY <1>23 DEF Disconnect
    <2>1. state' = "connected" => state = "connected"
      BY <1>23 DEF Disconnect, ScheduleRetry
    <2>2. CASE armed'  BY <2>0, <2>2, <2>1 DEF Alive
    <2>3. CASE DisconnectOk /\ link # "down"
      <3>1. Pending("disconnected")'  BY <2>3, <1>4 DEF DisconnectOk, Post, Event
      <3> QED  BY <2>0, <2>1, <3>1 DEF Alive
    <2>4. CASE DisconnectOk /\ link = "down" /\ UNCHANGED <<armed, state, reconnectNow>>
      <3>1. UNCHANGED <<link, events>>  BY <2>4 DEF DisconnectOk
      <3>2. Alive => Alive'  BY <2>0, <2>4, <3>1, <1>3 DEF Alive
      <3>3. ~reconnectNow => Trying  BY <2>0 DEF Trying
      <3>4. reconnectNow => Alive \/ DropMissed  BY <2>0, <2>4 DEF Alive, DropMissed
      <3>5. Trying' => Alive' \/ mishap' # "none"  BY <1>1, <3>2, <3>3, <3>4 DEF Missed
      <3> QED  BY <2>0, <2>1, <3>5
    <2> QED  BY <1>23, <2>2, <2>3, <2>4 DEF Disconnect, ScheduleRetry
  <1>24. CASE Connect
    <2>1. Alive' \/ JoinMissed
      BY <1>24 DEF Connect, ConnectOrRetry, ConnectOk, ConnectError, ScheduleRetry, JoinMissed,
                   Alive, DownInv
    <2>2. Trying' => Alive' \/ mishap' # "none"  BY <1>1, <2>1 DEF Missed
    <2> QED  BY <1>24, <2>2 DEF Connect, ConnectOrRetry, ScheduleRetry
  <1> QED
    BY <1>5, <1>6, <1>7, <1>8, <1>9, <1>10, <1>11, <1>12, <1>13, <1>14, <1>15, <1>16, <1>17,
       <1>18, <1>19, <1>20, <1>21, <1>22, <1>23, <1>24, <1>0 DEF Next, EventTask, TimerTask, Setter

\* Whatever fails, drops and overtakes, a station with credentials that has no set_wifi at work
\* on it is connected or has something on its way that gets it there or tries again, unless the
\* last thing tried was one of the five calls that wifi.c does not follow up (wifi.c:75, 159,
\* 168, 175, or a connect while the link was up).
THEOREM NeverStranded == Spec => []AlwaysAnotherTry
  <1> DEFINE Inv == DownInv /\ LinkInv /\ RealInv /\ TryInv
  <1>1. Init => Inv  BY DownInit, LinkInit, RealInit, TryInit
  <1>2. Inv /\ [Next]_vars => Inv'  BY DownStep, LinkStep, RealStep, TryStep
  <1>3. Inv => AlwaysAnotherTry
    BY EmptyPending DEF TryInv, Trying, Alive, AlwaysAnotherTry, NotStranded, Idle
  <1> QED  BY <1>1, <1>2, <1>3, PTL DEF Spec
================================================================================
