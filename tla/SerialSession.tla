----------------------------- MODULE SerialSession -----------------------------
(***************************************************************************)
(* One run of the tool after another over the device's USB serial port:    *)
(* SerialTransport (transport.go) and Request (client.go) on the PC, the   *)
(* main loop and usb_write (app-main.c) on the device.                     *)
(*                                                                         *)
(* Requests are numbered; the protocol does not number them.  A reply is   *)
(* written in at least two pieces: its opening brace and its end with the  *)
(* newline.  What the device writes waits in its TX buffer until a host    *)
(* that has the port open takes it.  A reset puts a fragment of the boot   *)
(* log on the line, and the firmware then a newline.                       *)
(***************************************************************************)
EXTENDS Integers, Sequences

CONSTANTS
  TxSize,        \* pieces the device's TX buffer holds
  MaxRequests,   \* bound: requests
  Patience,      \* the values of patient considered
  MaxResets      \* bound: resets of the device

ASSUME SessionBounds == TxSize \in Nat \ {0, 1} /\ MaxRequests \in Nat /\ MaxResets \in Nat
ASSUME PatienceAssumption == Patience \subseteq BOOLEAN

VARIABLES
  host,       \* "closed", "idle" or "waiting" for the reply to `asked`
  asked,      \* the number of requests sent so far
  requests,   \* on their way, and in the device's RX buffer
  busy, part, \* the request that is handled (0: none) and the piece to write next
  tx,         \* the device's TX buffer
  inbox,      \* pieces received and not read, t.buf included
  accepted,   \* the pairs <<request, reply>> of this session
  latest,     \* the newest reply ever accepted
  clean,      \* when the port was opened no reply was outstanding
  resets,
  patient     \* the client gives up only when no reply can come any more

device == <<busy, part>>
client == <<host, asked, accepted, latest, clean, patient>>
vars == <<client, requests, device, tx, inbox, resets>>

Open(r) == <<"open", r>>
Close(r) == <<"close", r>>
Fragment == <<"fragment", 0>>
Newline == <<"newline", 0>>

Pieces(s) == {s[n] : n \in 1 .. Len(s)}
Replies(s) == {piece[2] : piece \in Pieces(s)} \ {0}

\* Nothing is outstanding that could become a reply.
Quiet == requests = <<>> /\ busy = 0 /\ Replies(tx) = {}

Init ==
  /\ host = "closed" /\ asked = 0 /\ accepted = <<>> /\ latest = 0 /\ clean = TRUE
  /\ requests = <<>> /\ busy = 0 /\ part = "open"
  /\ tx \in {<<>>, <<Fragment>>, <<Fragment, Newline>>}
  /\ inbox = <<>> /\ resets = 0 /\ patient \in Patience

(***************************************************************************)
(* The tool.                                                               *)
(***************************************************************************)
\* Mutated form of OpenPort: what arrived before is kept.
OpenKeepsInput ==
  /\ host = "closed"
  /\ host' = "idle" /\ accepted' = <<>>
  /\ clean' = Quiet
  /\ UNCHANGED <<asked, latest, patient, requests, device, tx, inbox, resets>>

\* SerialTransport.Open: the input buffer is reset.
OpenPort ==
  /\ host = "closed"
  /\ host' = "idle" /\ accepted' = <<>>
  /\ clean' = Quiet
  /\ inbox' = <<>>
  /\ UNCHANGED <<asked, latest, patient, requests, device, tx, resets>>

ClosePort ==
  /\ host = "idle"
  /\ host' = "closed"
  /\ UNCHANGED <<asked, accepted, latest, clean, patient, requests, device, tx, inbox, resets>>

SendRequest ==
  /\ host = "idle" /\ asked < MaxRequests
  /\ asked' = asked + 1
  /\ requests' = Append(requests, asked')
  /\ host' = "waiting"
  /\ UNCHANGED <<accepted, latest, clean, patient, device, tx, inbox, resets>>

Ends == {n \in 1 .. Len(inbox) : inbox[n] = Newline \/ inbox[n][1] = "close"}
LineEnd == CHOOSE n \in Ends : \A m \in Ends : n <= m
Line == SubSeq(inbox, 1, LineEnd)

\* The request that the object starting at position n answers, or 0 if it is not whole.
ReplyAt(n) ==
  IF Line[n][1] = "open" /\ n < Len(Line) /\ Line[n + 1] = Close(Line[n][2]) THEN Line[n][2] ELSE 0

\* Mutated form of ParseReply: only a line that is a reply from its start counts.
ParseWholeLine == ReplyAt(1)

\* parseReply: the line, or what follows its first brace, has to be a whole
\* object; what comes after that is not looked at.  0: the line is ignored.
Braces == {n \in 1 .. Len(Line) : Line[n][1] = "open"}
FirstBrace == CHOOSE n \in Braces : \A m \in Braces : n <= m
ParseReply == IF Braces = {} THEN 0 ELSE ReplyAt(FirstBrace)

\* Mutated form of DropLine: the line stays in the buffer.
KeepLine == inbox

DropLine == SubSeq(inbox, LineEnd + 1, Len(inbox))

\* ReadLine and one turn of Request's loop.
ReadLine ==
  /\ host = "waiting" /\ Ends # {}
  /\ inbox' = DropLine
  /\ IF ParseReply = 0 THEN UNCHANGED <<host, accepted, latest>>
     ELSE /\ host' = "idle"
          /\ accepted' = Append(accepted, <<asked, ParseReply>>)
          /\ latest' = ParseReply
  /\ UNCHANGED <<asked, clean, patient, requests, device, tx, resets>>

\* The deadline passes, reading fails or the user gives up: the tool exits.
Outstanding == Replies(tx) \cup Replies(inbox) \cup {requests[n] : n \in 1 .. Len(requests)} \cup {busy}
GiveUp ==
  /\ host = "waiting"
  /\ patient => asked \notin Outstanding \/ (Ends = {} /\ tx = <<>> /\ requests = <<>> /\ busy = 0)
  /\ host' = "closed"
  /\ UNCHANGED <<asked, accepted, latest, clean, patient, requests, device, tx, inbox, resets>>

(***************************************************************************)
(* The device.                                                             *)
(***************************************************************************)
HandleLine ==
  /\ busy = 0 /\ requests # <<>>
  /\ busy' = Head(requests) /\ part' = "open"
  /\ requests' = Tail(requests)
  /\ UNCHANGED <<client, tx, inbox, resets>>

NextPart == IF part = "open" THEN part' = "close" /\ UNCHANGED busy
                             ELSE part' = "open" /\ busy' = 0

Emit ==
  /\ busy # 0 /\ Len(tx) < TxSize
  /\ tx' = Append(tx, IF part = "open" THEN Open(busy) ELSE Close(busy))
  /\ NextPart
  /\ UNCHANGED <<client, requests, inbox, resets>>

\* usb_write: a second without room, and the rest of this write is gone.
EmitTimesOut ==
  /\ busy # 0 /\ Len(tx) >= TxSize /\ host = "closed"
  /\ NextPart
  /\ UNCHANGED <<client, requests, tx, inbox, resets>>

\* USB moves a piece to a host that has the port open.
Transfer ==
  /\ host # "closed" /\ tx # <<>>
  /\ inbox' = Append(inbox, Head(tx))
  /\ tx' = Tail(tx)
  /\ UNCHANGED <<client, requests, device, resets>>

Reset ==
  /\ resets < MaxResets
  /\ resets' = resets + 1
  /\ busy' = 0 /\ part' = "open" /\ requests' = <<>>
  /\ tx' = <<Fragment, Newline>>
  /\ UNCHANGED <<client, inbox>>

Next ==
  \/ OpenPort \/ ClosePort \/ SendRequest \/ ReadLine \/ GiveUp
  \/ HandleLine \/ Emit \/ EmitTimesOut \/ Transfer \/ Reset

Spec == Init /\ [][Next]_vars

\* The device's loop, the USB driver and a client that is waiting go on.
Fairness ==
  /\ WF_vars(HandleLine) /\ WF_vars(Emit) /\ WF_vars(EmitTimesOut)
  /\ WF_vars(Transfer) /\ WF_vars(ReadLine)

FairSpec == Spec /\ Fairness

(***************************************************************************)
(* Properties                                                              *)
(***************************************************************************)
Piece == {Open(r) : r \in 1 .. MaxRequests} \cup {Close(r) : r \in 1 .. MaxRequests}
           \cup {Fragment, Newline}

TypeOK ==
  /\ host \in {"closed", "idle", "waiting"}
  /\ asked \in 0 .. MaxRequests /\ latest \in 0 .. asked
  /\ requests \in Seq(1 .. asked)
  /\ busy \in 0 .. asked /\ part \in {"open", "close"}
  /\ tx \in Seq(Piece) /\ Len(tx) <= TxSize
  /\ inbox \in Seq(Piece)
  /\ accepted \in Seq((1 .. asked) \X (1 .. asked))
  /\ clean \in BOOLEAN /\ resets \in 0 .. MaxResets /\ patient \in Patience

Matched == \A n \in 1 .. Len(accepted) : accepted[n][1] = accepted[n][2]

\* Request "waits for the matching reply" (client.go).
MatchingReply == Matched

\* A tool that is started when no earlier request is outstanding gets the reply to
\* each of its requests and never another one: over boot fragments, resets,
\* truncated lines and whatever an earlier run has left in the input buffer.
CleanSessionMatches == clean => Matched

\* No reply is taken twice, nor one older than a reply already taken, over all runs
\* of the tool and however impatient they are.
NoReplyTwice == [][accepted' # accepted /\ accepted' # <<>> => latest' > latest]_vars

\* A client that waits long enough gets an answer, boot fragments or not, unless
\* the device is reset under it.
Answered == (host = "waiting" /\ patient) ~> (host = "idle" \/ resets > 0)

\* "The device blocks until the TX buffer is empty" (docs/protocol.md): every reply
\* it has begun goes out whole.
WholeReplies ==
  \A n \in 1 .. Len(tx) - 1 : tx[n][1] = "open" => tx[n + 1] = Close(tx[n][2])
================================================================================
