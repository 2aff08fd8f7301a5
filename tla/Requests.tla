-------------------------------- MODULE Requests --------------------------------
(***************************************************************************)
(* From a request to what it does and to its reply: protocol_handle_line   *)
(* and its handlers (protocol.c) for the two who ask, the USB host with a  *)
(* line of its own and the web page with a query that web-bridge.c         *)
(* rewrites, and the buffer that a page's reply goes through (web.c).      *)
(*                                                                         *)
(* The device behind the handlers is only as large as a reply or an effect *)
(* can show; LogStore, Settings, Timekeeping and Wifi have the rest.       *)
(* `task` records what each asker wanted, what was done, and the reply.    *)
(***************************************************************************)
EXTENDS JsonMini

CONSTANTS
  MaxLimit,        \* PROTOCOL_MAX_LIMIT
  DefaultLimit,    \* PROTOCOL_DEFAULT_LIMIT
  ReadChunk,       \* READ_CHUNK
  ResponseMax,     \* RESPONSE_MAX; a record takes 2, any other piece of a reply 1
  MaxQuery,        \* bound: parameters of a query
  MaxRecords       \* bound: records stored

ASSUME SizesAssumption ==
  /\ MaxLimit \in Nat /\ DefaultLimit \in 0 .. MaxLimit /\ ReadChunk \in Nat \ {0}
  /\ ResponseMax \in Nat /\ MaxQuery \in Nat /\ MaxRecords \in Nat

VARIABLES
  dev,         \* the device: records stored, interval, network, time source
  task,        \* of "usb" and "web": wanted, did and reply
  usb,         \* "idle", or "writes": the reply goes out and the device lock is held
  web,         \* "idle", "asked" (api_handler has its line) or "handled"
  webLine,     \* api_handler's line
  resp, overflow    \* g_resp[0 .. g_resp_len - 1], g_resp_overflow

vars == <<dev, task, usb, web, webLine, resp, overflow>>

Nothing == <<"nothing">>
NoTask == [wanted |-> Nothing, did |-> Nothing, reply |-> <<>>]

Init ==
  /\ dev \in [records : 0 .. MaxRecords, interval : {60}, network : {<<>>}, source : {"none"}]
  /\ task = [t \in {"usb", "web"} |-> NoTask]
  /\ usb = "idle" /\ web = "idle" /\ webLine = <<>>
  /\ resp = <<>> /\ overflow = FALSE

(***************************************************************************)
(* What a request asks for.                                                *)
(***************************************************************************)
CmdSize == 32
LineSize == 256
SsidMax == 32
PassMax == 63

Refused(code) == <<"error", code>>
NumberOr(number, default) == IF number = NoNumber THEN default ELSE number

\* What is read is a line, by the code, or the object that it was written from.
Room(key) == IF key = "cmd" THEN CmdSize ELSE LineSize
StringIn(source, key) ==
  IF source.line THEN GetString(source.it, key, Room(key)) ELSE StringOf(source.it, key, Room(key))
NumberIn(source, key) == IF source.line THEN GetUint(source.it, key) ELSE NumberOf(source.it, key)
KeyIn(source, key) == IF source.line THEN HasKey(source.it, key) ELSE Named(source.it, key) # {}

\* cmd_set_wifi
Wifi(source) ==
  LET ssid == StringIn(source, "ssid")
      password == IF KeyIn(source, "password") THEN StringIn(source, "password") ELSE <<>>
  IN IF ssid = Unreadable THEN Refused("bad_request")
     ELSE IF StrLen(ssid) > SsidMax THEN Refused("out_of_range")
     ELSE IF password = Unreadable THEN Refused("bad_request")
     ELSE IF StrLen(password) \in {0} \cup 8 .. PassMax THEN <<"set_wifi", ssid, password>>
     ELSE Refused("out_of_range")

\* cmd_set_time, cmd_set_interval
Needs(cmd, number) == IF number = NoNumber THEN Refused("bad_request") ELSE <<cmd, number>>

\* protocol_handle_line
Asks(source) ==
  LET cmd == StringIn(source, "cmd")
  IN IF cmd = Unreadable THEN Refused("bad_request")
     ELSE IF cmd \in {<<c>> : c \in {"ping", "read_now", "get_status", "clear_log"}} THEN cmd
     ELSE IF cmd = <<"set_time">> THEN Needs("set_time", NumberIn(source, "epoch"))
     ELSE IF cmd = <<"set_interval">> THEN Needs("set_interval", NumberIn(source, "interval_s"))
     ELSE IF cmd = <<"set_wifi">> THEN Wifi(source)
     ELSE IF cmd = <<"get_log">> THEN
       <<"get_log", NumberOr(NumberIn(source, "offset"), 0), NumberOr(NumberIn(source, "limit"), DefaultLimit)>>
     ELSE Refused("unknown_cmd")

Parsed(line) == Asks([line |-> TRUE, it |-> line])
Meant(object) == Asks([line |-> FALSE, it |-> object])

(***************************************************************************)
(* The handlers: what they do to the device and what they write.           *)
(***************************************************************************)
IntervalMin == 10
IntervalMax == 3600
Ok == <<"ok">>

\* What t wanted, what the device makes of it, and its reply.
Replies(t, ask, reply) ==
  task' = [task EXCEPT ![t] = [wanted |-> ask.wanted, did |-> ask.op, reply |-> reply]]

\* cmd_ping
Ping(t, ask) ==
  ask.op[1] = "ping" /\ Replies(t, ask, <<<<"pong", dev.source>>>>) /\ UNCHANGED dev

\* cmd_set_time and clock_set_time: NTP has the last word.
SetTime(t, ask) ==
  /\ ask.op[1] = "set_time"
  /\ dev' = IF dev.source = "ntp" THEN dev ELSE [dev EXCEPT !.source = "pc"]
  /\ Replies(t, ask, <<Ok>>)

ReadNow(t, ask) ==
  /\ ask.op[1] = "read_now" /\ UNCHANGED dev
  /\ Replies(t, ask, <<Ok>>) \/ Replies(t, ask, <<Refused("sensor_error")>>)

GetStatus(t, ask) ==
  /\ ask.op[1] = "get_status" /\ UNCHANGED dev
  /\ Replies(t, ask, <<<<"status", dev.records, dev.interval, dev.source>>, <<"wifi">>>>)

\* The records from `offset` on, up to a chunk that cannot be read.
Page(offset, limit, chunks) ==
  LET end == Min({dev.records, offset + Min({limit, MaxLimit}), offset + chunks * ReadChunk})
  IN [n \in 1 .. Max({0, end - offset}) |-> <<"record", offset + n>>]

GetLog(t, ask) ==
  /\ ask.op[1] = "get_log" /\ UNCHANGED dev
  /\ \E chunks \in 0 .. MaxLimit :
       Replies(t, ask, <<<<"log", dev.records, ask.op[2]>>>> \o Page(ask.op[2], ask.op[3], chunks) \o <<<<"end">>>>)

ClearLog(t, ask) ==
  /\ ask.op[1] = "clear_log"
  /\ \/ dev' = [dev EXCEPT !.records = 0] /\ Replies(t, ask, <<Ok>>)
     \/ UNCHANGED dev /\ Replies(t, ask, <<Refused("store_error")>>)

\* An interval in range that cannot be stored is refused in the same words.
SetInterval(t, ask) ==
  /\ ask.op[1] = "set_interval"
  /\ dev' = IF ask.op[2] \in IntervalMin .. IntervalMax THEN [dev EXCEPT !.interval = ask.op[2]] ELSE dev
  /\ \/ ask.op[2] \in IntervalMin .. IntervalMax /\ Replies(t, ask, <<Ok>>)
     \/ Replies(t, ask, <<Refused("out_of_range")>>)

SetWifi(t, ask) ==
  /\ ask.op[1] = "set_wifi"
  /\ \/ dev' = [dev EXCEPT !.network = ask.op[2]] /\ Replies(t, ask, <<Ok>>)
     \/ UNCHANGED dev /\ Replies(t, ask, <<Refused("store_error")>>)

\* protocol_handle_line for t.
Handle(t, ask) ==
  \/ ask.op[1] = "error" /\ Replies(t, ask, <<ask.op>>) /\ UNCHANGED dev
  \/ Ping(t, ask) \/ SetTime(t, ask) \/ ReadNow(t, ask) \/ GetStatus(t, ask) \/ GetLog(t, ask)
  \/ ClearLog(t, ask) \/ SetInterval(t, ask) \/ SetWifi(t, ask)

(***************************************************************************)
(* The USB host.                                                           *)
(***************************************************************************)
Text(word) == <<word>>
Cmd(word) == StringMember("cmd", Text(word))

\* What may come with a command, the lengths of strings at their limits.
WifiStrings == {<<>>, <<"w32">>, <<"w33">>, <<"w7", Quote>>, <<"w7">>, <<"w63", Backslash>>, <<"w63">>}
Arguments(cmd) ==
  IF cmd = "set_time" THEN {<<>>} \cup {<<NumberMember("epoch", n)>> : n \in {"n1", Beyond}}
  ELSE IF cmd = "set_interval" THEN
    {<<NumberMember("interval_s", n)>> : n \in {"n4", "n60", "n5000", Beyond}}
      \cup {<<StringMember("interval_s", <<"n60">>)>>}
  ELSE IF cmd = "get_log" THEN
    {<<>>} \cup {<<NumberMember("limit", n)>> : n \in {"n0", "n4", Beyond}}
      \cup {<<NumberMember("offset", "n1"), NumberMember("limit", n)>> : n \in {"n1", "n60"}}
  ELSE IF cmd = "set_wifi" THEN
    {<<>>} \cup {<<StringMember("ssid", s)>> : s \in WifiStrings}
      \cup {<<StringMember("password", s), StringMember("ssid", <<"w8">>)>> : s \in WifiStrings}
      \cup {<<StringMember("ssid", <<"w8">>), NumberMember("password", "n4")>>}
  ELSE {<<>>}

Commands == {"ping", "read_now", "get_status", "clear_log", "set_time", "set_interval", "set_wifi",
             "get_log", "w23", "w32"}
Plain == UNION {{<<Cmd(c)>> \o a : a \in Arguments(c)} : c \in Commands}

\* Members that a search for the name in quotes could take for another, before and after.
Decoys == {<<>>, <<StringMember("x", <<"cmd">>)>>, <<StringMember("x", <<Quote, "cmd">>)>>,
           <<StringMember("x", <<"epoch", Backslash>>)>>, <<NumberMember("cmd", "n1")>>}

Asked(object, pad) == [wanted |-> Meant(object), op |-> Parsed(ObjectText(object, pad))]
WholeLines ==
  UNION {{Asked(decoy \o object, <<Space>>), Asked(object \o decoy, <<>>)} : object \in Plain, decoy \in Decoys}

\* Only the first part of a request, or one with an escape unknown here: nothing is promised.
Fragments ==
  LET object == <<Cmd("set_wifi"), StringMember("ssid", <<"w8">>), StringMember("password", <<Quote, "w7">>)>>
      line == ObjectText(object, <<>>)
  IN {SubSeq(line, 1, n) : n \in DOMAIN line}
       \cup {<<"open", Quote, "cmd", Quote, Colon, Quote, Backslash, "ping", Quote, "close">>}
BrokenLines == {[wanted |-> Parsed(line), op |-> Parsed(line)] : line \in Fragments}

UsbHandles ==
  /\ usb = "idle"
  /\ \E line \in WholeLines \cup BrokenLines : Handle("usb", line)
  /\ usb' = "writes"
  /\ UNCHANGED <<web, webLine, resp, overflow>>

\* The reply is written and the lock given back.
UsbDone ==
  /\ usb = "writes"
  /\ usb' = "idle" /\ task' = [task EXCEPT !["usb"] = NoTask]
  /\ UNCHANGED <<dev, web, webLine, resp, overflow>>

(***************************************************************************)
(* The web page.                                                           *)
(***************************************************************************)
MaxValue == 24
Missing == "missing"     \* no '='
Empty == "empty"
Digits(value) == IsNumeral(value)
CmdWords == Commands \cup {"odd_word"}

\* Mutated form of Allowed: a list of what is not allowed.
AllowedButNot(method, cmd) ==
  cmd \notin {"set_wifi", "set_interval"} /\ (method = "POST" <=> cmd = "set_time")

Allowed(method, cmd) ==
  \/ method = "GET" /\ cmd \in {"ping", "read_now", "get_status", "get_log"}
  \/ method = "POST" /\ cmd = "set_time"

\* The last value given for a key.
Value(query, key) ==
  LET given == {i \in DOMAIN query : query[i].key = key}
  IN IF given = {} THEN Empty ELSE query[Max(given)].value

Numbers == <<"offset", "limit", "epoch">>

\* web_bridge_build_request succeeds.
Buildable(method, query) ==
  /\ \A i \in DOMAIN query :
       /\ query[i].value \notin {Missing, Empty} /\ Length(query[i].value) < MaxValue
       /\ query[i].key \in {"cmd"} \cup {Numbers[n] : n \in DOMAIN Numbers}
  /\ Value(query, "cmd") \in CmdWords /\ Allowed(method, Value(query, "cmd"))
  /\ \A n \in DOMAIN Numbers : Value(query, Numbers[n]) = Empty \/ Digits(Value(query, Numbers[n]))

\* Mutated form of Built: the numbers in quotes.
BuiltOfStrings(query) ==
  <<Cmd(Value(query, "cmd"))>> \o FlattenSeq([n \in DOMAIN Numbers |->
    IF Value(query, Numbers[n]) = Empty THEN <<>>
    ELSE <<StringMember(Numbers[n], <<Value(query, Numbers[n])>>)>>])

\* The object that it writes, with the numbers that are given, and its line.
Built(query) ==
  <<Cmd(Value(query, "cmd"))>> \o FlattenSeq([n \in DOMAIN Numbers |->
    IF Value(query, Numbers[n]) = Empty THEN <<>>
    ELSE <<NumberMember(Numbers[n], Value(query, Numbers[n]))>>])
Line(query) == ObjectText(Built(query), <<>>)

\* The queries that arrive.
Parameters ==
  {[key |-> "cmd", value |-> c] : c \in CmdWords \cup {Missing, "n1"}}
    \cup [key : {"offset", "limit"}, value : {"n1", "n4", Beyond}]
    \cup {[key |-> "epoch", value |-> v] : v \in {"n1", Beyond, "w7"}}
    \cup {[key |-> "x", value |-> "n1"]}
Queries == UNION {[1 .. n -> Parameters] : n \in 0 .. MaxQuery}

\* What the page means: the last parameter of a name counts.
Parameter(p) == IF p.key = "cmd" THEN Cmd(p.value) ELSE NumberMember(p.key, p.value)
PageMeant(query) == Meant(Reverse([i \in DOMAIN query |-> Parameter(query[i])]))

PageRequests ==
  {[wanted |-> PageMeant(q), line |-> Line(q)] :
     q \in {q \in Queries : \E method \in {"GET", "POST"} : Buildable(method, q)}}

\* A query that is too long (400) or that the bridge refuses (403) is answered at once and changes
\* nothing.

\* Mutated form of WebAsks: the overflow of the last reply is not forgotten.
WebAsksUnreset ==
  /\ web = "idle"
  /\ \E request \in PageRequests :
       /\ webLine' = request.line
       /\ task' = [task EXCEPT !["web"] = [NoTask EXCEPT !.wanted = request.wanted]]
  /\ web' = "asked"
  /\ resp' = <<>>
  /\ UNCHANGED <<dev, usb, overflow>>

WebAsks ==
  /\ web = "idle"
  /\ \E request \in PageRequests :
       /\ webLine' = request.line
       /\ task' = [task EXCEPT !["web"] = [NoTask EXCEPT !.wanted = request.wanted]]
  /\ web' = "asked"
  /\ resp' = <<>> /\ overflow' = FALSE
  /\ UNCHANGED <<dev, usb>>

\* buffer_write, piece by piece: once a piece did not fit, none is taken any more.
Size(pieces) ==
  LET upTo[n \in 0 .. Len(pieces)] ==
        IF n = 0 THEN 0 ELSE upTo[n - 1] + (IF pieces[n][1] = "record" THEN 2 ELSE 1)
  IN upTo[Len(pieces)]
Taken(buffer, piece) ==
  IF buffer.full \/ Size(Append(buffer.held, piece)) > ResponseMax
    THEN [buffer EXCEPT !.full = TRUE]
    ELSE [buffer EXCEPT !.held = Append(@, piece)]
Buffered(pieces) ==
  LET after[n \in 0 .. Len(pieces)] ==
        IF n = 0 THEN [held |-> resp, full |-> overflow] ELSE Taken(after[n - 1], pieces[n])
  IN after[Len(pieces)]

\* Under the device lock.
WebHandles ==
  /\ web = "asked" /\ usb = "idle"
  /\ Handle("web", [wanted |-> task["web"].wanted, op |-> Parsed(webLine)])
  /\ LET buffer == Buffered(task'["web"].reply)
     IN resp' = buffer.held /\ overflow' = buffer.full
  /\ web' = "handled" /\ webLine' = <<>>
  /\ UNCHANGED usb

\* The buffer is sent, or 500 if the reply did not fit.
WebSends ==
  /\ web = "handled"
  /\ web' = "idle" /\ task' = [task EXCEPT !["web"] = NoTask]
  /\ UNCHANGED <<dev, usb, webLine, resp, overflow>>

(***************************************************************************)
(* The rest of the device: a record is stored, under the lock; NTP answers. *)
(***************************************************************************)
Device ==
  /\ \/ usb = "idle" /\ dev.records < MaxRecords /\ dev' = [dev EXCEPT !.records = @ + 1]
     \/ dev' = [dev EXCEPT !.source = "ntp"]
  /\ UNCHANGED <<task, usb, web, webLine, resp, overflow>>

Next ==
  \/ UsbHandles \/ UsbDone
  \/ WebAsks \/ WebHandles \/ WebSends
  \/ Device

Spec == Init /\ [][Next]_vars

(***************************************************************************)
(* Properties                                                              *)
(***************************************************************************)
TypeOK ==
  /\ dev.records \in 0 .. MaxRecords /\ dev.interval \in IntervalMin .. IntervalMax
  /\ dev.network \in Seq(STRING) /\ StrLen(dev.network) <= SsidMax
  /\ dev.source \in {"none", "pc", "ntp"}
  /\ usb \in {"idle", "writes"} /\ web \in {"idle", "asked", "handled"}
  /\ Size(resp) <= ResponseMax /\ overflow \in BOOLEAN

\* Searching the text of a request finds what its object has: whatever stands in the strings
\* before or after, and however it is spaced, the device does what the request says
\* (json-mini.c:8, docs/protocol.md section 3).
TextMeansObject == usb = "writes" => task["usb"].did = task["usb"].wanted

\* What the page asks for in its query is what the device does, through the rewriting into a
\* line and the reading of that line (web-bridge.c:53).
PageGetsWhatItAsks == web = "handled" => task["web"].did = task["web"].wanted

\* The page only reads, apart from the time of a device that NTP has not set
\* (docs/protocol.md section 9).
PageOnlyReads ==
  [][WebHandles => /\ dev' = [dev EXCEPT !.source = dev'.source]
                   /\ dev.source = "ntp" => UNCHANGED dev]_vars

\* What the page is sent is this request's whole reply and nothing of another one's, or 500
\* exactly if the reply is longer than the buffer (web.c:52).
BodyIsReply ==
  web = "handled" =>
    IF Size(task["web"].reply) > ResponseMax THEN overflow
    ELSE ~overflow /\ resp = task["web"].reply
================================================================================
