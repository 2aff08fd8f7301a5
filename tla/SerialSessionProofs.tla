------------------------- MODULE SerialSessionProofs -------------------------
(***************************************************************************)
(* Proofs about SerialSession, for every number of requests and resets and *)
(* every size of the TX buffer.  The protocol does not number its replies; *)
(* what saves a client is the order in which everything flows: requests,   *)
(* the one being handled, the device's buffer and the input buffer form    *)
(* one queue, in which numbers only grow.                                  *)
(***************************************************************************)
EXTENDS SerialSession, SequenceTheorems, NaturalsInduction, WellFoundedInduction, TLAPS

(***************************************************************************)
(* The order of flow.  A reply's opening comes before its end, and both    *)
(* before the opening of the next.                                         *)
(***************************************************************************)
Rank(piece) == IF piece[1] = "open" THEN 2 * piece[2] ELSE 2 * piece[2] + 1

\* A piece of a reply, not of the boot log.
IsReply(piece) == piece[2] # 0

Ascending(s) == \A m, n \in 1 .. Len(s) :
  m < n /\ IsReply(s[m]) /\ IsReply(s[n]) => Rank(s[m]) < Rank(s[n])

Precedes(s, t) == \A m \in 1 .. Len(s), n \in 1 .. Len(t) :
  IsReply(s[m]) /\ IsReply(t[n]) => Rank(s[m]) < Rank(t[n])

Within(low, s, high) == \A n \in 1 .. Len(s) :
  IsReply(s[n]) => low < Rank(s[n]) /\ Rank(s[n]) < high

\* The rank of the next piece that the device can write.
Front == CASE busy # 0 -> Rank(<<part, busy>>)
           [] busy = 0 /\ requests # <<>> -> 2 * requests[1]
           [] OTHER -> 2 * asked + 2

\* The rank of the last piece of all replies accepted so far.
Taken == 2 * latest + 1

\* What was accepted, the input buffer, the device's buffer, the request that is
\* handled and those to come follow each other in this order.
Flow ==
  /\ Ascending(inbox) /\ Ascending(tx) /\ Precedes(inbox, tx)
  /\ Within(Taken, inbox, Front) /\ Within(Taken, tx, Front)
  /\ Taken < Front
  /\ \A m, n \in 1 .. Len(requests) : m < n => requests[m] < requests[n]
  /\ \A m \in 1 .. Len(requests) : busy < requests[m]

\* In a session that began with nothing outstanding, everything under way is of
\* the one request that is waited for.
NothingOutstanding == Quiet /\ Replies(inbox) = {}

OnlyAsked ==
  /\ \A n \in 1 .. Len(inbox) : inbox[n][2] \in {0, asked}
  /\ \A n \in 1 .. Len(tx) : tx[n][2] \in {0, asked}
  /\ \A n \in 1 .. Len(requests) : requests[n] = asked
  /\ busy \in {0, asked}

CleanFlow ==
  clean => /\ host = "idle" => NothingOutstanding
           /\ host = "waiting" => OnlyAsked

SessionInv == TypeOK /\ Flow /\ CleanFlow /\ CleanSessionMatches

(***************************************************************************)
(* Lemmas about pieces, lines and sequences.                               *)
(***************************************************************************)
LEMMA PieceFacts ==
  ASSUME NEW p \in Piece
  PROVE /\ p[2] \in 0 .. MaxRequests
        /\ IsReply(p) => p[1] \in {"open", "close"}
        /\ Rank(p) \in Nat
  BY SessionBounds DEF Piece, Open, Close, Fragment, Newline, IsReply, Rank

LEMMA LeastExists ==
  ASSUME NEW S \in SUBSET Nat, S # {}
  PROVE \E n \in S : \A m \in S : n <= m
  <1> DEFINE R == OpToRel(<, Nat)
  <1>1. IsWellFoundedOn(R, Nat)
    BY NatLessThanWellFounded
  <1>2. ASSUME NEW m \in Nat, NEW n \in Nat, m < n PROVE <<m, n>> \in R
    BY <1>2 DEF OpToRel
  <1> HIDE DEF R
  <1>3. PICK n \in S : \A m \in S : ~(<<m, n>> \in R)
    BY <1>1, WFMin
  <1>4. ASSUME NEW m \in S PROVE n <= m
    <2>1. ~(<<m, n>> \in R) /\ m \in Nat /\ n \in Nat
      BY <1>3
    <2>2. ~(m < n)
      BY <2>1, <1>2
    <2> QED BY <2>1, <2>2
  <1> QED BY <1>3, <1>4

\* What is left of a sequence behind position n.
LEMMA Behind ==
  ASSUME NEW S, NEW s \in Seq(S), NEW n \in 1 .. Len(s)
  PROVE /\ SubSeq(s, n + 1, Len(s)) \in Seq(S)
        /\ Len(SubSeq(s, n + 1, Len(s))) = Len(s) - n
        /\ \A m \in 1 .. Len(s) - n : SubSeq(s, n + 1, Len(s))[m] = s[m + n]
  <1> DEFINE t == SubSeq(s, n + 1, Len(s))
  <1>1. Len(s) \in Nat
    BY LenProperties
  <1>2. n + 1 \in Int /\ \A i \in n + 1 .. Len(s) : s[i] \in S
    BY <1>1, ElementOfSeq
  <1>3. t \in Seq(S) /\ Len(t) = Len(s) - n
    BY <1>1, <1>2
  <1>4. \A m \in 1 .. Len(s) - n : t[m] = s[m + n]
    BY <1>1, <1>2
  <1> QED BY <1>3, <1>4

LEMMA TailFacts ==
  ASSUME NEW S, NEW s \in Seq(S), s # <<>>
  PROVE /\ Head(s) = s[1] /\ Head(s) \in S /\ Len(s) \in Nat /\ Len(s) > 0
        /\ Tail(s) \in Seq(S) /\ Len(Tail(s)) = Len(s) - 1
        /\ \A n \in 1 .. Len(s) - 1 : Tail(s)[n] = s[n + 1]
  BY HeadTailProperties, LenProperties

LEMMA AppendFacts ==
  ASSUME NEW S, NEW s \in Seq(S), NEW e \in S
  PROVE /\ Append(s, e) \in Seq(S) /\ Len(Append(s, e)) = Len(s) + 1 /\ Len(s) \in Nat
        /\ \A n \in 1 .. Len(s) : Append(s, e)[n] = s[n]
        /\ Append(s, e)[Len(s) + 1] = e
  BY AppendProperties, LenProperties

LEMMA LineFacts ==
  ASSUME TypeOK, Ends # {}
  PROVE LineEnd \in 1 .. Len(inbox)
  <1>1. Len(inbox) \in Nat
    BY LenProperties DEF TypeOK
  <1>2. Ends \in SUBSET Nat
    BY <1>1 DEF Ends
  <1>3. LineEnd \in Ends
    BY <1>2, LeastExists DEF LineEnd
  <1> QED BY <1>3 DEF Ends

\* A reply that is taken stands in the line as its opening and, behind it, its end.
LEMMA ParsedFacts ==
  ASSUME TypeOK, Ends # {}, ParseReply # 0
  PROVE \E n \in 1 .. Len(inbox) :
          /\ n + 1 <= LineEnd
          /\ inbox[n] = Open(ParseReply) /\ inbox[n + 1] = Close(ParseReply)
          /\ ParseReply \in 1 .. MaxRequests
  <1>1. LineEnd \in 1 .. Len(inbox) /\ Len(inbox) \in Nat
    BY LineFacts, LenProperties DEF TypeOK
  <1>2. Len(Line) = LineEnd /\ \A n \in 1 .. LineEnd : Line[n] = inbox[n]
    <2>1. inbox \in Seq(Piece) /\ \A i \in 1 .. LineEnd : inbox[i] \in Piece
      BY <1>1, ElementOfSeq DEF TypeOK
    <2> QED BY <1>1, <2>1 DEF Line
  <1>3. Braces # {} /\ Braces \in SUBSET Nat
    BY <1>1, <1>2 DEF ParseReply, Braces
  <1>4. FirstBrace \in Braces
    BY <1>3, LeastExists DEF FirstBrace
  <1> DEFINE n == FirstBrace
  <1>5. n \in 1 .. LineEnd /\ Line[n][1] = "open"
    BY <1>2, <1>4 DEF Braces
  <1>6. ParseReply = Line[n][2] /\ n < LineEnd /\ Line[n + 1] = Close(Line[n][2])
    BY <1>2, <1>3 DEF ParseReply, ReplyAt
  <1>7. inbox[n] \in Piece
    BY <1>1, <1>5, ElementOfSeq DEF TypeOK
  <1>8. inbox[n] = Open(inbox[n][2]) /\ inbox[n][2] \in 1 .. MaxRequests
    BY <1>2, <1>5, <1>7 DEF Piece, Open, Close, Fragment, Newline
  <1>9. n + 1 \in 1 .. LineEnd
    BY <1>1, <1>5, <1>6
  <1> HIDE DEF n
  <1> QED BY <1>1, <1>2, <1>5, <1>6, <1>8, <1>9

LEMMA FrontFacts ==
  TypeOK =>
        /\ Front \in Nat /\ Taken \in Nat
        /\ asked \in Nat /\ latest \in Nat /\ busy \in Nat /\ busy <= asked
        /\ part \in {"open", "close"}
        /\ Len(requests) \in Nat /\ (requests = <<>> <=> Len(requests) = 0)
        /\ \A n \in 1 .. Len(requests) : requests[n] \in Nat /\ requests[n] >= 1 /\ requests[n] <= asked
        /\ inbox \in Seq(Piece) /\ tx \in Seq(Piece)
        /\ Front <= 2 * asked + 2
  <1> SUFFICES ASSUME TypeOK
               PROVE  /\ Front \in Nat /\ Taken \in Nat
                      /\ asked \in Nat /\ latest \in Nat /\ busy \in Nat /\ busy <= asked
                      /\ part \in {"open", "close"}
                      /\ Len(requests) \in Nat /\ (requests = <<>> <=> Len(requests) = 0)
                      /\ \A n \in 1 .. Len(requests) : requests[n] \in Nat /\ requests[n] >= 1 /\ requests[n] <= asked
                      /\ inbox \in Seq(Piece) /\ tx \in Seq(Piece)
                      /\ Front <= 2 * asked + 2
    OBVIOUS
  <1>1. asked \in Nat /\ latest \in Nat /\ busy \in Nat /\ busy <= asked /\ part \in {"open", "close"}
    BY SessionBounds DEF TypeOK
  <1>2. \A n \in 1 .. Len(requests) : requests[n] \in 1 .. asked
    BY ElementOfSeq DEF TypeOK
  <1>3. Len(requests) \in Nat /\ (requests = <<>> <=> Len(requests) = 0)
    BY LenProperties, EmptySeq DEF TypeOK
  <1>4. inbox \in Seq(Piece) /\ tx \in Seq(Piece)
    BY DEF TypeOK
  <1>5. \A n \in 1 .. Len(requests) : requests[n] \in Nat /\ requests[n] >= 1 /\ requests[n] <= asked
    BY <1>1, <1>2
  <1>6. Front \in Nat /\ Front <= 2 * asked + 2
    <2>1. CASE busy # 0
      BY <1>1, <2>1 DEF Front, Rank
    <2>2. CASE busy = 0 /\ requests # <<>>
      <3>1. 1 \in 1 .. Len(requests)
        BY <1>3, <2>2
      <3> QED BY <1>1, <1>5, <2>2, <3>1 DEF Front
    <2>3. CASE busy = 0 /\ requests = <<>>
      BY <1>1, <2>3 DEF Front
    <2> QED BY <2>1, <2>2, <2>3
  <1>7. Taken \in Nat
    BY <1>1 DEF Taken
  <1> QED BY <1>1, <1>3, <1>4, <1>5, <1>6, <1>7

(***************************************************************************)
(* Types.                                                                  *)
(***************************************************************************)
LEMMA FrontIsNat == TypeOK => Front \in Nat
  BY FrontFacts

LEMMA TypeInit == Init => TypeOK
  <1> SUFFICES ASSUME Init PROVE TypeOK
    OBVIOUS
  <1>1. tx \in Seq({Fragment, Newline}) /\ Len(tx) <= 2
    <2>1. CASE tx = <<>>
      BY <2>1, EmptySeq
    <2>2. CASE tx = <<Fragment>>
      BY <2>2
    <2>3. CASE tx = <<Fragment, Newline>>
      BY <2>3
    <2> QED BY <2>1, <2>2, <2>3 DEF Init
  <1>2. {Fragment, Newline} \subseteq Piece
    BY DEF Piece
  <1>3. tx \in Seq(Piece)
    BY <1>1, <1>2, SeqMonotonic
  <1>4. requests \in Seq(1 .. asked) /\ inbox \in Seq(Piece) /\ accepted \in Seq((1 .. asked) \X (1 .. asked))
    BY EmptySeq DEF Init
  <1> QED BY <1>1, <1>3, <1>4, SessionBounds, PatienceAssumption DEF Init, TypeOK

\* A reply that is taken answers a request that was sent: TypeOK rests on Flow.
LEMMA TypeStep == TypeOK /\ Flow /\ [Next]_vars => TypeOK'
  <1> SUFFICES ASSUME TypeOK, Flow, [Next]_vars PROVE TypeOK'
    OBVIOUS
  <1> USE SessionBounds
  <1>0. asked \in Nat /\ Len(tx) \in Nat /\ Len(inbox) \in Nat
    BY LenProperties DEF TypeOK
  <1>1. CASE OpenPort
    <2>1. inbox' \in Seq(Piece) /\ accepted' \in Seq((1 .. asked') \X (1 .. asked')) /\ clean' \in BOOLEAN
      BY <1>1, EmptySeq DEF OpenPort, Quiet
    <2> QED BY <1>1, <2>1 DEF OpenPort, TypeOK, device
  <1>2. CASE ClosePort
    BY <1>2 DEF ClosePort, TypeOK, device
  <1>3. CASE SendRequest
    <2>1. asked' \in 1 .. MaxRequests /\ asked' = asked + 1
      BY <1>0, <1>3 DEF SendRequest
    <2>2. requests \in Seq(1 .. asked') /\ accepted \in Seq((1 .. asked') \X (1 .. asked'))
      <3>1. 1 .. asked \subseteq 1 .. asked'
        BY <1>0, <2>1
      <3>2. (1 .. asked) \X (1 .. asked) \subseteq (1 .. asked') \X (1 .. asked')
        BY <3>1
      <3>3. requests \in Seq(1 .. asked')
        BY <3>1, SeqMonotonic DEF TypeOK
      <3>4. accepted \in Seq((1 .. asked) \X (1 .. asked))
        BY DEF TypeOK
      <3>5. accepted \in Seq((1 .. asked') \X (1 .. asked'))
        BY <3>2, <3>4, SeqMonotonic
      <3> QED BY <3>3, <3>5
    <2>3. requests' \in Seq(1 .. asked')
      BY <1>3, <2>1, <2>2, AppendFacts DEF SendRequest
    <2> QED BY <1>0, <1>3, <2>1, <2>2, <2>3 DEF SendRequest, TypeOK, device
  <1>4. CASE ReadLine
    <2>1. Ends # {} /\ inbox' = DropLine
      BY <1>4 DEF ReadLine
    <2>2. inbox' \in Seq(Piece)
      BY <2>1, LineFacts, Behind DEF DropLine, TypeOK
    <2>3. CASE ParseReply = 0
      BY <1>4, <2>2, <2>3 DEF ReadLine, TypeOK, device
    <2>4. CASE ParseReply # 0
      <3>1. PICK n \in 1 .. Len(inbox) : inbox[n] = Open(ParseReply) /\ ParseReply \in 1 .. MaxRequests
        BY <2>1, <2>4, ParsedFacts
      <3>2. ParseReply \in 1 .. asked /\ asked \in 1 .. asked
        <4>1. Rank(Open(ParseReply)) < Front
          BY <3>1, SessionBounds DEF Flow, Within, IsReply, Open
        <4> QED BY <1>0, <3>1, <4>1, FrontFacts, SessionBounds DEF Rank, Open
      <3>3. accepted' \in Seq((1 .. asked) \X (1 .. asked))
        <4>1. <<asked, ParseReply>> \in (1 .. asked) \X (1 .. asked)
          BY <3>2
        <4>2. accepted \in Seq((1 .. asked) \X (1 .. asked))
          BY DEF TypeOK
        <4>3. accepted' = Append(accepted, <<asked, ParseReply>>)
          BY <1>4, <2>4 DEF ReadLine
        <4> HIDE DEF TypeOK
        <4> QED BY <4>1, <4>2, <4>3, AppendFacts
      <3> QED BY <1>4, <2>2, <2>4, <3>2, <3>3 DEF ReadLine, TypeOK, device
    <2> QED BY <2>3, <2>4
  <1>5. CASE GiveUp
    BY <1>5 DEF GiveUp, TypeOK, device
  <1>6. CASE HandleLine
    <2>1. busy' \in 1 .. asked /\ requests' \in Seq(1 .. asked)
      BY <1>6, TailFacts DEF HandleLine, TypeOK
    <2> QED BY <1>6, <2>1 DEF HandleLine, TypeOK, client
  <1>7. CASE Emit
    <2>1. tx' \in Seq(Piece) /\ Len(tx') = Len(tx) + 1 /\ Len(tx) < TxSize
      <3>1. Open(busy) \in Piece /\ Close(busy) \in Piece
        <4>1. busy \in 1 .. MaxRequests
          BY <1>0, <1>7 DEF Emit, TypeOK
        <4> QED BY <4>1 DEF Piece
      <3> QED BY <1>7, <3>1, AppendFacts DEF Emit, TypeOK
    <2> QED BY <1>0, <1>7, <2>1 DEF Emit, NextPart, TypeOK, client
  <1>8. CASE EmitTimesOut
    BY <1>0, <1>8 DEF EmitTimesOut, NextPart, TypeOK, client
  <1>9. CASE Transfer
    <2>1. Head(tx) \in Piece /\ Tail(tx) \in Seq(Piece) /\ Len(Tail(tx)) = Len(tx) - 1
      BY <1>9, TailFacts DEF Transfer, TypeOK
    <2>2. inbox' \in Seq(Piece)
      BY <1>9, <2>1, AppendFacts DEF Transfer, TypeOK
    <2> QED BY <1>0, <1>9, <2>1, <2>2 DEF Transfer, TypeOK, client, device
  <1>10. CASE Reset
    <2>1. tx' \in Seq(Piece) /\ Len(tx') = 2
      BY <1>10 DEF Reset, Piece
    <2> QED BY <1>0, <1>10, <2>1 DEF Reset, TypeOK, client
  <1>11. CASE UNCHANGED vars
    BY <1>11 DEF vars, client, device, TypeOK
  <1> QED
    BY <1>1, <1>2, <1>3, <1>4, <1>5, <1>6, <1>7, <1>8, <1>9, <1>10, <1>11 DEF Next

(***************************************************************************)
(* Everything flows in order.                                              *)
(***************************************************************************)
LEMMA RanksAre ==
  ASSUME NEW s \in Seq(Piece)
  PROVE Len(s) \in Nat /\ \A n \in 1 .. Len(s) : s[n] \in Piece /\ Rank(s[n]) \in Nat
  BY LenProperties, ElementOfSeq, PieceFacts

LEMMA AscendingBehind ==
  ASSUME NEW s \in Seq(Piece), NEW t \in Seq(Piece), NEW k \in 0 .. Len(s),
         Len(t) = Len(s) - k, \A n \in 1 .. Len(s) - k : t[n] = s[n + k]
  PROVE /\ Ascending(s) => Ascending(t)
        /\ \A low, high : Within(low, s, high) => Within(low, t, high)
        /\ \A u : Precedes(s, u) => Precedes(t, u)
        /\ \A u : Precedes(u, s) => Precedes(u, t)
  <1>1. Len(s) \in Nat
    BY RanksAre
  <1>2. \A n \in 1 .. Len(t) : n + k \in 1 .. Len(s) /\ t[n] = s[n + k]
    BY <1>1
  <1>3. ASSUME Ascending(s), NEW m \in 1 .. Len(t), NEW n \in 1 .. Len(t), m < n, IsReply(t[m]), IsReply(t[n])
        PROVE Rank(t[m]) < Rank(t[n])
    <2>1. m + k \in 1 .. Len(s) /\ n + k \in 1 .. Len(s) /\ m + k < n + k /\ t[m] = s[m + k] /\ t[n] = s[n + k]
      BY <1>1, <1>2, <1>3
    <2> QED BY <1>3, <2>1 DEF Ascending
  <1>4. Ascending(s) => Ascending(t)
    BY <1>3 DEF Ascending
  <1> QED BY <1>2, <1>4 DEF Within, Precedes

LEMMA AscendingAppend ==
  ASSUME NEW s \in Seq(Piece), NEW p \in Piece, NEW t, t = Append(s, p), Ascending(s),
         \A n \in 1 .. Len(s) : IsReply(s[n]) /\ IsReply(p) => Rank(s[n]) < Rank(p)
  PROVE /\ Ascending(t)
        /\ \A low, high : Within(low, s, high) /\ (IsReply(p) => low < Rank(p) /\ Rank(p) < high) => Within(low, t, high)
        /\ \A u : Precedes(u, s) /\ (IsReply(p) => \A m \in 1 .. Len(u) : IsReply(u[m]) => Rank(u[m]) < Rank(p))
                    => Precedes(u, t)
        /\ \A u : Precedes(s, u) /\ (IsReply(p) => \A m \in 1 .. Len(u) : IsReply(u[m]) => Rank(p) < Rank(u[m]))
                    => Precedes(t, u)
  <1>1. Len(s) \in Nat /\ Len(t) = Len(s) + 1 /\ t[Len(s) + 1] = p /\ \A n \in 1 .. Len(s) : t[n] = s[n]
    BY AppendFacts
  <1>2. \A n \in 1 .. Len(t) : n \in 1 .. Len(s) \/ n = Len(s) + 1
    BY <1>1
  <1>3. Ascending(t)
    BY <1>1, <1>2 DEF Ascending
  <1> QED BY <1>1, <1>2, <1>3 DEF Within, Precedes

LEMMA WithinWider ==
  ASSUME NEW s \in Seq(Piece), NEW low \in Nat, NEW high \in Nat, NEW less \in Nat, NEW more \in Nat,
         less <= low, high <= more, Within(low, s, high)
  PROVE Within(less, s, more)
  BY RanksAre DEF Within

\* Pieces of the boot log do not matter.
LEMMA FlowInit == Init => Flow
  <1> SUFFICES ASSUME Init PROVE Flow
    OBVIOUS
  <1>1. \A n \in 1 .. Len(tx) : ~IsReply(tx[n])
    BY DEF Init, IsReply, Fragment, Newline
  <1> QED BY <1>1 DEF Init, Flow, Ascending, Precedes, Within, Front, Taken

LEMMA FlowStep == TypeOK /\ Flow /\ [Next]_vars => Flow'
  <1> SUFFICES ASSUME TypeOK, Flow, [Next]_vars PROVE Flow'
    OBVIOUS
  <1>0. TypeOK'
    BY TypeStep
  <1>1. CASE OpenPort
    <2>1. UNCHANGED <<asked, latest, requests, busy, part, tx>> /\ inbox' = <<>>
      BY <1>1 DEF OpenPort, device
    <2>2. Front' = Front /\ Taken' = Taken
      BY <2>1 DEF Front, Taken
    <2>3. Ascending(inbox') /\ Precedes(inbox', tx) /\ Within(Taken, inbox', Front)
      BY <2>1 DEF Ascending, Precedes, Within
    <2> QED BY <2>1, <2>2, <2>3 DEF Flow, Ascending, Precedes, Within
  <1>2. CASE ClosePort
    BY <1>2 DEF ClosePort, device, Flow, Ascending, Precedes, Within, Front, Taken
  <1>3. CASE SendRequest
    <2>1. /\ Len(requests') = Len(requests) + 1 /\ asked' = asked + 1
          /\ \A n \in 1 .. Len(requests) : requests'[n] = requests[n]
          /\ requests'[Len(requests) + 1] = asked + 1
      BY <1>3, AppendProperties DEF SendRequest, TypeOK
    <2>2. UNCHANGED <<latest, busy, part, tx, inbox>>
      BY <1>3 DEF SendRequest, device
    <2>3. Front' = Front /\ Taken' = Taken
      <3>1. requests' # <<>>
        BY <2>1, FrontFacts, EmptySeq
      <3>2. CASE busy # 0
        BY <2>2, <3>2 DEF Front, Taken
      <3>3. CASE busy = 0 /\ requests = <<>>
        BY <2>1, <2>2, <3>1, <3>3, FrontFacts DEF Front, Taken
      <3>4. CASE busy = 0 /\ requests # <<>>
        <4>1. 1 \in 1 .. Len(requests)
          BY <3>4, FrontFacts
        <4>2. requests'[1] = requests[1]
          BY <2>1, <4>1
        <4> QED BY <2>2, <3>1, <3>4, <4>2 DEF Front, Taken
      <3> QED BY <3>2, <3>3, <3>4
    <2>4. /\ \A m, n \in 1 .. Len(requests') : m < n => requests'[m] < requests'[n]
          /\ \A m \in 1 .. Len(requests') : busy' < requests'[m]
      <3>1. \A n \in 1 .. Len(requests') : n \in 1 .. Len(requests) \/ n = Len(requests) + 1
        BY <2>1, FrontFacts
      <3>2. \A n \in 1 .. Len(requests) : requests'[n] <= asked /\ requests'[n] \in Nat
        BY <2>1, FrontFacts
      <3>3. \A n \in 1 .. Len(requests') : busy < requests'[n]
        <4>1. \A n \in 1 .. Len(requests) : busy < requests'[n]
          BY <2>1 DEF Flow
        <4>2. busy < requests'[Len(requests) + 1]
          BY <2>1, FrontFacts
        <4> QED BY <3>1, <4>1, <4>2
      <3>4. ASSUME NEW m \in 1 .. Len(requests'), NEW n \in 1 .. Len(requests'), m < n
            PROVE requests'[m] < requests'[n]
        <4>1. m \in 1 .. Len(requests)
          BY <2>1, <3>4, FrontFacts
        <4>2. CASE n \in 1 .. Len(requests)
          BY <2>1, <3>4, <4>1, <4>2 DEF Flow
        <4>3. CASE n = Len(requests) + 1
          BY <2>1, <3>2, <4>1, <4>3, FrontFacts
        <4> QED BY <3>1, <4>2, <4>3
      <3> QED BY <2>2, <3>3, <3>4
    <2> QED BY <2>2, <2>3, <2>4 DEF Flow, Ascending, Precedes, Within
  <1>4. CASE ReadLine
    <2>1. Ends # {} /\ inbox' = DropLine /\ LineEnd \in 1 .. Len(inbox)
      BY <1>4, LineFacts DEF ReadLine
    <2>2. /\ Len(inbox') = Len(inbox) - LineEnd
          /\ \A n \in 1 .. Len(inbox) - LineEnd : inbox'[n] = inbox[n + LineEnd]
      BY <2>1, Behind DEF DropLine, TypeOK
    <2>3. UNCHANGED <<asked, tx, requests, busy, part>> /\ Front' = Front
      BY <1>4 DEF ReadLine, device, Front
    <2>4. inbox \in Seq(Piece) /\ inbox' \in Seq(Piece)
      BY <1>0 DEF TypeOK
    <2>5. Ascending(inbox') /\ Precedes(inbox', tx) /\ Within(Taken, inbox', Front)
      BY <2>1, <2>2, <2>4, AscendingBehind DEF Flow
    <2>6. CASE latest' = latest
      BY <2>3, <2>5, <2>6 DEF Flow, Taken, Ascending, Precedes, Within
    <2>7. CASE ParseReply # 0 /\ latest' = ParseReply
      <3> DEFINE r == ParseReply
      <3>1. PICK n \in 1 .. Len(inbox) : n + 1 <= LineEnd /\ inbox[n + 1] = Close(r) /\ r \in 1 .. MaxRequests
        BY <2>1, <2>7, ParsedFacts
      <3>2. latest' = r
        BY <2>7
      <3> HIDE DEF r
      <3>3. n + 1 \in 1 .. Len(inbox) /\ IsReply(inbox[n + 1]) /\ Rank(inbox[n + 1]) = Taken'
        BY <2>1, <3>1, <3>2, SessionBounds DEF IsReply, Rank, Close, Taken
      <3>4. Within(Taken', inbox', Front)
        <4>1. \A m \in 1 .. Len(inbox') :
                inbox'[m] = inbox[m + LineEnd] /\ m + LineEnd \in 1 .. Len(inbox) /\ n + 1 < m + LineEnd
          BY <2>1, <2>2, <2>4, <3>1, RanksAre
        <4>2. \A m \in 1 .. Len(inbox') : IsReply(inbox'[m]) => Taken' < Rank(inbox'[m])
          BY <3>3, <4>1 DEF Flow, Ascending
        <4> QED BY <2>5, <4>2 DEF Within
      <3>5. Within(Taken', tx, Front)
        BY <3>3 DEF Flow, Precedes, Within
      <3>6. Taken' < Front
        BY <3>3 DEF Flow, Within
      <3> QED BY <2>3, <2>5, <3>4, <3>5, <3>6 DEF Flow, Ascending, Precedes, Within
    <2>8. latest' = latest \/ (ParseReply # 0 /\ latest' = ParseReply)
      <3>1. CASE ParseReply = 0
        <4>1. UNCHANGED <<host, accepted, latest>>
          BY <1>4, <3>1, Zenon DEF ReadLine
        <4> QED BY <4>1
      <3>2. CASE ParseReply # 0
        BY <1>4, <3>2 DEF ReadLine
      <3> QED BY <3>1, <3>2
    <2> QED BY <2>6, <2>7, <2>8
  <1>5. CASE GiveUp
    BY <1>5 DEF GiveUp, device, Flow, Ascending, Precedes, Within, Front, Taken
  <1>6. CASE HandleLine
    <2>1. /\ Len(requests') = Len(requests) - 1 /\ Len(requests) > 0 /\ busy' = requests[1]
          /\ \A n \in 1 .. Len(requests) - 1 : requests'[n] = requests[n + 1]
      BY <1>6, TailFacts DEF HandleLine, TypeOK
    <2>2. UNCHANGED <<asked, latest, tx, inbox>> /\ part' = "open" /\ busy = 0 /\ requests # <<>>
      BY <1>6 DEF HandleLine, client
    <2>3. Front' = Front /\ Taken' = Taken
      BY <2>1, <2>2, FrontFacts DEF Front, Taken, Rank
    <2>4. /\ \A m, n \in 1 .. Len(requests') : m < n => requests'[m] < requests'[n]
          /\ \A m \in 1 .. Len(requests') : busy' < requests'[m]
      <3>1. \A n \in 1 .. Len(requests') : n \in 1 .. Len(requests) /\ n + 1 \in 1 .. Len(requests) /\ 1 < n + 1
        BY <2>1, FrontFacts
      <3>2. 1 \in 1 .. Len(requests)
        BY <2>1, FrontFacts
      <3>3. ASSUME NEW m \in 1 .. Len(requests'), NEW n \in 1 .. Len(requests'), m < n
            PROVE requests'[m] < requests'[n]
        BY <2>1, <3>1, <3>3 DEF Flow
      <3> QED BY <2>1, <3>1, <3>2, <3>3 DEF Flow
    <2> QED BY <2>2, <2>3, <2>4 DEF Flow, Ascending, Precedes, Within
  <1>7. CASE Emit \/ EmitTimesOut
    <2>0. busy # 0 /\ NextPart /\ UNCHANGED <<asked, latest, requests, inbox>>
      BY <1>7 DEF Emit, EmitTimesOut, client
    <2>1. Front < Front' /\ Taken' = Taken
      <3>1. CASE part = "open"
        BY <2>0, <3>1, FrontFacts DEF NextPart, Front, Taken, Rank
      <3>2. CASE part = "close"
        <4>1. busy' = 0 /\ Front = 2 * busy + 1
          BY <2>0, <3>2 DEF NextPart, Front, Rank
        <4>2. CASE requests = <<>>
          BY <2>0, <4>1, <4>2, FrontFacts DEF Front, Taken
        <4>3. CASE requests # <<>>
          <5>1. busy < requests[1] /\ requests[1] \in Nat /\ busy \in Nat
            BY <4>3, FrontFacts DEF Flow
          <5>2. Front' = 2 * requests[1]
            BY <2>0, <4>1, <4>3 DEF Front
          <5> QED BY <2>0, <4>1, <5>1, <5>2 DEF Taken
        <4> QED BY <4>2, <4>3
      <3> QED BY <3>1, <3>2, FrontFacts
    <2>2. Front \in Nat /\ Front' \in Nat /\ Taken \in Nat /\ inbox \in Seq(Piece) /\ tx \in Seq(Piece)
      <3>1. (TypeOK => Front \in Nat)'
        BY FrontIsNat, PTL
      <3> QED BY <1>0, <3>1, FrontFacts
    <2>3. Within(Taken, inbox, Front') /\ Within(Taken, tx, Front') /\ Taken < Front'
      BY <2>1, <2>2, WithinWider DEF Flow
    <2>4. \A m \in 1 .. Len(requests) : busy' < requests[m]
      BY <2>0, FrontFacts DEF NextPart, Flow
    <2>5. CASE tx' = tx
      BY <2>0, <2>1, <2>3, <2>4, <2>5 DEF Flow, Ascending, Precedes, Within
    <2>6. CASE Emit
      <3> DEFINE p == IF part = "open" THEN Open(busy) ELSE Close(busy)
      <3>1. p \in Piece /\ Rank(p) = Front /\ IsReply(p)
        <4>1. busy \in 1 .. MaxRequests /\ part \in {"open", "close"}
          BY <2>0, SessionBounds DEF TypeOK
        <4> QED BY <2>0, <4>1 DEF Piece, Open, Close, Rank, Front, IsReply
      <3>2. tx' = Append(tx, p)
        BY <2>6 DEF Emit
      <3> HIDE DEF p
      <3>3. /\ Ascending(tx) /\ Precedes(inbox, tx)
            /\ \A n \in 1 .. Len(tx) : IsReply(tx[n]) => Rank(tx[n]) < Rank(p)
            /\ \A n \in 1 .. Len(inbox) : IsReply(inbox[n]) => Rank(inbox[n]) < Rank(p)
            /\ Taken < Rank(p) /\ Rank(p) < Front'
        BY <2>1, <3>1 DEF Flow, Within
      <3>4. Ascending(tx') /\ Within(Taken, tx', Front') /\ Precedes(inbox, tx')
        BY <2>2, <2>3, <3>1, <3>2, <3>3, AscendingAppend
      <3> QED BY <2>0, <2>1, <2>3, <2>4, <3>4 DEF Flow, Ascending, Precedes, Within
    <2>7. CASE EmitTimesOut
      BY <2>5, <2>7 DEF EmitTimesOut
    <2> QED BY <1>7, <2>6, <2>7
  <1>9. CASE Transfer
    <2>1. /\ tx # <<>> /\ tx' = Tail(tx) /\ inbox' = Append(inbox, Head(tx))
          /\ UNCHANGED <<asked, latest, requests, busy, part>>
      BY <1>9 DEF Transfer, client, device
    <2>2. /\ Len(tx') = Len(tx) - 1 /\ Len(tx) > 0 /\ Head(tx) = tx[1] /\ Head(tx) \in Piece
          /\ \A n \in 1 .. Len(tx) - 1 : tx'[n] = tx[n + 1]
          /\ Len(tx) \in Nat
      BY <2>1, TailFacts DEF TypeOK
    <2>3. tx \in Seq(Piece) /\ tx' \in Seq(Piece) /\ inbox \in Seq(Piece) /\ 1 \in 0 .. Len(tx) /\ 1 \in 1 .. Len(tx)
      BY <1>0, <2>2 DEF TypeOK
    <2>4. Front' = Front /\ Taken' = Taken
      BY <2>1 DEF Front, Taken
    <2>5. Ascending(tx') /\ Within(Taken, tx', Front) /\ Precedes(inbox, tx')
      BY <2>2, <2>3, AscendingBehind DEF Flow
    <2>6. \A m \in 1 .. Len(tx') : IsReply(tx'[m]) /\ IsReply(Head(tx)) => Rank(Head(tx)) < Rank(tx'[m])
      BY <2>2 DEF Flow, Ascending
    <2>7. \A n \in 1 .. Len(inbox) : IsReply(inbox[n]) /\ IsReply(Head(tx)) => Rank(inbox[n]) < Rank(Head(tx))
      BY <2>2, <2>3 DEF Flow, Precedes
    <2>8. IsReply(Head(tx)) => Taken < Rank(Head(tx)) /\ Rank(Head(tx)) < Front
      BY <2>2, <2>3 DEF Flow, Within
    <2>9. Ascending(inbox') /\ Within(Taken, inbox', Front) /\ Precedes(inbox', tx')
      BY <2>1, <2>2, <2>3, <2>5, <2>6, <2>7, <2>8, AscendingAppend DEF Flow
    <2> QED BY <2>1, <2>4, <2>5, <2>9 DEF Flow, Ascending, Precedes, Within
  <1>10. CASE Reset
    <2>1. /\ busy' = 0 /\ part' = "open" /\ requests' = <<>> /\ tx' = <<Fragment, Newline>>
          /\ UNCHANGED <<asked, latest, inbox>>
      BY <1>10 DEF Reset, client
    <2>2. Len(tx') = 2 /\ \A n \in 1 .. 2 : ~IsReply(tx'[n])
      BY <2>1 DEF IsReply, Fragment, Newline
    <2>3. Front' = 2 * asked + 2 /\ Taken' = Taken
      BY <2>1 DEF Front, Taken
    <2>4. Front \in Nat /\ Front' \in Nat /\ Front <= Front' /\ Taken \in Nat /\ inbox \in Seq(Piece)
      BY <2>3, FrontFacts
    <2>5. Within(Taken, inbox, Front') /\ Taken < Front'
      BY <2>4, WithinWider DEF Flow
    <2>6. Ascending(tx') /\ Precedes(inbox, tx') /\ Within(Taken, tx', Front')
      BY <2>2 DEF Ascending, Precedes, Within
    <2> QED BY <2>1, <2>3, <2>5, <2>6 DEF Flow, Ascending, Precedes, Within
  <1>11. CASE UNCHANGED vars
    BY <1>11 DEF vars, client, device, Flow, Ascending, Precedes, Within, Front, Taken
  <1> QED
    BY <1>1, <1>2, <1>3, <1>4, <1>5, <1>6, <1>7, <1>9, <1>10, <1>11 DEF Next

(***************************************************************************)
(* A session that began with nothing outstanding.                          *)
(***************************************************************************)
\* In front of nothing but the pieces of one reply stands a queue that is empty
\* behind its end.
LEMMA NothingBehind ==
  ASSUME TypeOK, Flow, OnlyAsked, asked # 0, Taken' = 2 * asked + 1, TypeOK', Flow',
         UNCHANGED <<asked, requests, busy, part, tx>>
  PROVE NothingOutstanding'
  <1>1. /\ inbox' \in Seq(Piece) /\ tx' \in Seq(Piece) /\ asked \in Nat
        /\ Front' <= 2 * asked + 2 /\ Front' \in Nat
    <2>1. (TypeOK => Front \in Nat /\ Front <= 2 * asked + 2 /\ asked \in Nat)'
      BY FrontFacts, PTL
    <2> QED BY <2>1 DEF TypeOK
  <1>2. ASSUME NEW s \in Seq(Piece), Within(2 * asked + 1, s, Front'), NEW n \in 1 .. Len(s)
        PROVE s[n][2] = 0
    BY <1>1, <1>2, RanksAre DEF Within, IsReply
  <1>3. Replies(inbox') = {} /\ Replies(tx') = {}
    BY <1>1, <1>2 DEF Flow, Replies, Pieces
  <1>4. busy' = 0
    <2>1. 2 * asked + 1 < Front'
      BY DEF Flow
    <2>2. part \in {"open", "close"} /\ busy \in {0, asked}
      BY DEF TypeOK, OnlyAsked
    <2> QED BY <1>1, <2>1, <2>2 DEF Front, Rank
  <1>5. requests' = <<>>
    <2> SUFFICES ASSUME requests # <<>> PROVE FALSE
      OBVIOUS
    <2>1. 1 \in 1 .. Len(requests)
      BY FrontFacts
    <2>2. Front' = 2 * requests[1] /\ requests[1] = asked
      BY <1>4, <2>1 DEF Front, OnlyAsked
    <2> QED BY <1>1, <2>2 DEF Flow
  <1> QED BY <1>3, <1>4, <1>5 DEF NothingOutstanding, Quiet

LEMMA OutstandingFacts ==
  ASSUME TypeOK, NEW s \in Seq(Piece)
  PROVE Replies(s) = {} <=> \A n \in 1 .. Len(s) : s[n][2] = 0
  BY DEF Replies, Pieces

\* Nothing of a reply is in s, or only of the request that is waited for.
Only(s) == \A n \in 1 .. Len(s) : s[n][2] \in {0, asked}

LEMMA CleanStep ==
  ASSUME TypeOK, Flow, CleanFlow, CleanSessionMatches, [Next]_vars, TypeOK', Flow'
  PROVE CleanFlow' /\ CleanSessionMatches'
  <1>0. inbox \in Seq(Piece) /\ tx \in Seq(Piece) /\ inbox' \in Seq(Piece) /\ tx' \in Seq(Piece)
    BY DEF TypeOK
  <1>1. CASE OpenPort
    <2>1. inbox' = <<>> /\ accepted' = <<>> /\ clean' = Quiet /\ UNCHANGED <<requests, busy, tx>> /\ host' = "idle"
      BY <1>1 DEF OpenPort, device
    <2>2. Replies(inbox') = {}
      BY <2>1 DEF Replies, Pieces
    <2>3. clean' => NothingOutstanding'
      BY <2>1, <2>2 DEF NothingOutstanding, Quiet
    <2>4. Matched'
      BY <2>1 DEF Matched
    <2> QED BY <2>1, <2>3, <2>4 DEF CleanFlow, CleanSessionMatches
  <1>2. CASE ClosePort
    BY <1>2 DEF ClosePort, CleanFlow, CleanSessionMatches, Matched
  <1>3. CASE SendRequest
    <2>1. /\ clean' = clean /\ accepted' = accepted /\ host = "idle" /\ host' = "waiting"
          /\ UNCHANGED <<busy, tx, inbox>> /\ asked' = asked + 1 /\ requests' = Append(requests, asked')
      BY <1>3 DEF SendRequest, device
    <2>2. ASSUME clean PROVE OnlyAsked'
      <3>1. NothingOutstanding
        BY <2>1, <2>2 DEF CleanFlow
      <3>2. requests' = <<asked'>> /\ busy = 0
        BY <2>1, <3>1 DEF NothingOutstanding, Quiet
      <3>3. Only(inbox)' /\ Only(tx)'
        <4>1. \A n \in 1 .. Len(inbox) : inbox[n][2] = 0
          BY <1>0, <3>1, OutstandingFacts DEF NothingOutstanding
        <4>2. \A n \in 1 .. Len(tx) : tx[n][2] = 0
          BY <1>0, <3>1, OutstandingFacts DEF NothingOutstanding, Quiet
        <4> QED BY <2>1, <4>1, <4>2 DEF Only
      <3>4. \A n \in 1 .. Len(requests') : requests'[n] = asked'
        BY <3>2
      <3> QED BY <2>1, <3>2, <3>3, <3>4 DEF OnlyAsked, Only
    <2> QED BY <2>1, <2>2 DEF CleanFlow, CleanSessionMatches, Matched
  <1>4. CASE ReadLine
    <2>1. /\ Ends # {} /\ inbox' = DropLine /\ LineEnd \in 1 .. Len(inbox) /\ host = "waiting"
          /\ UNCHANGED <<asked, clean, requests, busy, part, tx>>
      BY <1>4, LineFacts DEF ReadLine, device
    <2>2. /\ Len(inbox') = Len(inbox) - LineEnd /\ Len(inbox) \in Nat
          /\ \A n \in 1 .. Len(inbox) - LineEnd : inbox'[n] = inbox[n + LineEnd]
      BY <1>0, <2>1, Behind, RanksAre DEF DropLine
    <2>3. CASE ParseReply = 0
      <3>1. UNCHANGED <<host, accepted, latest>>
        BY <1>4, <2>3, Zenon DEF ReadLine
      <3>2. OnlyAsked => OnlyAsked'
        <4>1. \A n \in 1 .. Len(inbox') : n + LineEnd \in 1 .. Len(inbox) /\ inbox'[n] = inbox[n + LineEnd]
          BY <2>1, <2>2
        <4> QED BY <2>1, <4>1 DEF OnlyAsked
      <3> QED BY <2>1, <3>1, <3>2 DEF CleanFlow, CleanSessionMatches, Matched
    <2>4. CASE ParseReply # 0
      <3> DEFINE r == ParseReply
      <3>1. PICK n \in 1 .. Len(inbox) : inbox[n] = Open(r) /\ r \in 1 .. MaxRequests
        BY <2>1, <2>4, ParsedFacts
      <3>2. host' = "idle" /\ accepted' = Append(accepted, <<asked, r>>) /\ latest' = r
        BY <1>4, <2>4 DEF ReadLine
      <3> HIDE DEF r
      <3>3. ASSUME clean PROVE r = asked /\ OnlyAsked /\ asked # 0
        <4>1. OnlyAsked
          BY <2>1, <3>3 DEF CleanFlow
        <4> QED BY <3>1, <4>1, SessionBounds DEF OnlyAsked, Open
      <3>4. ASSUME clean PROVE NothingOutstanding'
        <4>1. Taken' = 2 * asked + 1
          BY <3>2, <3>3, <3>4 DEF Taken
        <4> QED BY <2>1, <3>3, <3>4, <4>1, NothingBehind
      <3>5. ASSUME clean PROVE Matched'
        <4>1. accepted \in Seq((1 .. asked) \X (1 .. asked)) /\ <<asked, r>> \in (1 .. asked) \X (1 .. asked)
          <5>1. asked \in 1 .. asked
            BY <3>3, <3>5, FrontFacts
          <5> QED BY <3>3, <3>5, <5>1 DEF TypeOK
        <4>2. /\ Len(accepted') = Len(accepted) + 1 /\ accepted'[Len(accepted) + 1] = <<asked, r>>
              /\ \A m \in 1 .. Len(accepted) : accepted'[m] = accepted[m]
              /\ Len(accepted) \in Nat
          BY <3>2, <4>1, AppendFacts
        <4>3. \A m \in 1 .. Len(accepted') : m \in 1 .. Len(accepted) \/ m = Len(accepted) + 1
          BY <4>2
        <4>4. Matched
          BY <3>5 DEF CleanSessionMatches
        <4> QED BY <3>3, <3>5, <4>2, <4>3, <4>4 DEF Matched
      <3> QED BY <2>1, <3>2, <3>4, <3>5 DEF CleanFlow, CleanSessionMatches
    <2> QED BY <2>3, <2>4
  <1>5. CASE GiveUp
    BY <1>5 DEF GiveUp, CleanFlow, CleanSessionMatches, Matched
  <1>6. CASE HandleLine
    <2>1. /\ Len(requests') = Len(requests) - 1 /\ Len(requests) > 0 /\ busy' = requests[1]
          /\ \A n \in 1 .. Len(requests) - 1 : requests'[n] = requests[n + 1]
          /\ Len(requests) \in Nat /\ requests # <<>>
      BY <1>6, TailFacts DEF HandleLine, TypeOK
    <2>2. UNCHANGED <<host, clean, accepted, asked, tx, inbox>>
      BY <1>6 DEF HandleLine, client
    <2>3. OnlyAsked => OnlyAsked'
      BY <2>1, <2>2 DEF OnlyAsked
    <2>4. ~NothingOutstanding
      BY <2>1 DEF NothingOutstanding, Quiet
    <2> QED BY <2>2, <2>3, <2>4 DEF CleanFlow, CleanSessionMatches, Matched
  <1>7. CASE Emit
    <2> DEFINE p == IF part = "open" THEN Open(busy) ELSE Close(busy)
    <2>1. /\ busy # 0 /\ tx' = Append(tx, p) /\ busy' \in {0, busy}
          /\ UNCHANGED <<host, clean, accepted, asked, requests, inbox>>
      BY <1>7 DEF Emit, NextPart, client
    <2>2. p[2] = busy /\ p \in Piece
      <3>1. busy \in 1 .. MaxRequests
        BY <2>1, SessionBounds DEF TypeOK
      <3> QED BY <3>1 DEF Open, Close, Piece
    <2> HIDE DEF p
    <2>3. /\ Len(tx') = Len(tx) + 1 /\ tx'[Len(tx) + 1] = p /\ Len(tx) \in Nat
          /\ \A n \in 1 .. Len(tx) : tx'[n] = tx[n]
      BY <1>0, <2>1, <2>2, AppendFacts
    <2>4. \A n \in 1 .. Len(tx') : n \in 1 .. Len(tx) \/ n = Len(tx) + 1
      BY <2>3
    <2>5. OnlyAsked => OnlyAsked'
      BY <2>1, <2>2, <2>3, <2>4 DEF OnlyAsked
    <2>6. ~NothingOutstanding
      BY <2>1 DEF NothingOutstanding, Quiet
    <2> QED BY <2>1, <2>5, <2>6 DEF CleanFlow, CleanSessionMatches, Matched
  <1>8. CASE EmitTimesOut
    <2>1. UNCHANGED <<clean, accepted, host>> /\ host = "closed"
      BY <1>8 DEF EmitTimesOut, client
    <2> QED BY <2>1 DEF CleanFlow, CleanSessionMatches, Matched
  <1>9. CASE Transfer
    <2>1. /\ tx # <<>> /\ tx' = Tail(tx) /\ inbox' = Append(inbox, Head(tx))
          /\ UNCHANGED <<host, clean, accepted, asked, requests, busy>>
      BY <1>9 DEF Transfer, client, device
    <2>2. /\ Len(tx') = Len(tx) - 1 /\ Len(tx) > 0 /\ Len(tx) \in Nat /\ Head(tx) = tx[1] /\ Head(tx) \in Piece
          /\ \A n \in 1 .. Len(tx) - 1 : tx'[n] = tx[n + 1]
      BY <1>0, <2>1, TailFacts
    <2>3. /\ Len(inbox') = Len(inbox) + 1 /\ inbox'[Len(inbox) + 1] = tx[1] /\ Len(inbox) \in Nat
          /\ \A n \in 1 .. Len(inbox) : inbox'[n] = inbox[n]
      BY <1>0, <2>1, <2>2, AppendFacts
    <2>4. \A n \in 1 .. Len(inbox') : n \in 1 .. Len(inbox) \/ n = Len(inbox) + 1
      BY <2>3
    <2>5. \A n \in 1 .. Len(tx') : n + 1 \in 1 .. Len(tx)
      BY <2>2
    <2>6. 1 \in 1 .. Len(tx)
      BY <2>2
    <2>7. OnlyAsked => OnlyAsked'
      BY <2>1, <2>2, <2>3, <2>4, <2>5, <2>6 DEF OnlyAsked
    <2>8. NothingOutstanding => NothingOutstanding'
      <3> SUFFICES ASSUME NothingOutstanding PROVE NothingOutstanding'
        OBVIOUS
      <3>1. /\ \A n \in 1 .. Len(tx) : tx[n][2] = 0
            /\ \A n \in 1 .. Len(inbox) : inbox[n][2] = 0
        BY <1>0, OutstandingFacts DEF NothingOutstanding, Quiet
      <3>2. /\ \A n \in 1 .. Len(tx') : tx'[n][2] = 0
            /\ \A n \in 1 .. Len(inbox') : inbox'[n][2] = 0
        BY <2>2, <2>3, <2>4, <2>5, <2>6, <3>1
      <3>3. Replies(tx') = {} /\ Replies(inbox') = {}
        BY <1>0, <3>2, OutstandingFacts
      <3> QED BY <2>1, <3>3 DEF NothingOutstanding, Quiet
    <2> QED BY <2>1, <2>7, <2>8 DEF CleanFlow, CleanSessionMatches, Matched
  <1>10. CASE Reset
    <2>1. /\ busy' = 0 /\ requests' = <<>> /\ tx' = <<Fragment, Newline>>
          /\ UNCHANGED <<host, clean, accepted, asked, inbox>>
      BY <1>10 DEF Reset, client
    <2>2. Len(tx') = 2 /\ \A n \in 1 .. Len(tx') : tx'[n][2] = 0
      BY <2>1 DEF Fragment, Newline
    <2>3. OnlyAsked => OnlyAsked'
      BY <2>1, <2>2 DEF OnlyAsked
    <2>4. NothingOutstanding => NothingOutstanding'
      BY <1>0, <2>1, <2>2, OutstandingFacts DEF NothingOutstanding, Quiet
    <2> QED BY <2>1, <2>3, <2>4 DEF CleanFlow, CleanSessionMatches, Matched
  <1>11. CASE UNCHANGED vars
    <2>1. UNCHANGED <<host, asked, accepted, clean, requests, busy, tx, inbox>>
      BY <1>11 DEF vars, client, device
    <2>2. OnlyAsked' <=> OnlyAsked
      BY <2>1 DEF OnlyAsked
    <2>3. NothingOutstanding' <=> NothingOutstanding
      BY <2>1 DEF NothingOutstanding, Quiet
    <2>4. Matched' <=> Matched
      BY <2>1 DEF Matched
    <2> QED BY <2>1, <2>2, <2>3, <2>4 DEF CleanFlow, CleanSessionMatches
  <1> QED
    BY <1>1, <1>2, <1>3, <1>4, <1>5, <1>6, <1>7, <1>8, <1>9, <1>10, <1>11 DEF Next

(***************************************************************************)
(* The theorems.                                                           *)
(***************************************************************************)
LEMMA SessionInit == Init => SessionInv
  <1>1. Init => CleanFlow /\ CleanSessionMatches
    BY DEF Init, CleanFlow, CleanSessionMatches, Matched
  <1> QED BY <1>1, TypeInit, FlowInit DEF SessionInv

LEMMA SessionStep == SessionInv /\ [Next]_vars => SessionInv'
  BY TypeStep, FlowStep, CleanStep DEF SessionInv

\* The state keeps its shape: no reply is taken for a request that was not sent,
\* and the device's buffer never holds more than it can (MatchingReply in client.go,
\* usb_write in app-main.c).
THEOREM SessionTypes == Spec => []TypeOK
  <1>1. SessionInv => TypeOK
    BY DEF SessionInv
  <1> QED BY SessionInit, SessionStep, <1>1, PTL DEF Spec

\* Every reply under way is newer than those taken and older than those to come:
\* what the unnumbered protocol of client.go and protocol.c rests on.
THEOREM FlowsInOrder == Spec => []Flow
  <1>1. SessionInv => Flow
    BY DEF SessionInv
  <1> QED BY SessionInit, SessionStep, <1>1, PTL DEF Spec

\* A tool that is started when nothing is outstanding gets to each request its own
\* reply (Request and parseReply in client.go), over resets of the device, truncated
\* lines and fragments of the boot log, whatever an earlier run left behind.
THEOREM CleanSessionsMatch == Spec => []CleanSessionMatches
  <1>1. SessionInv => CleanSessionMatches
    BY DEF SessionInv
  <1> QED BY SessionInit, SessionStep, <1>1, PTL DEF Spec

\* No reply is taken twice or after a newer one, over all runs of the tool
\* (Request in client.go).
THEOREM RepliesTakenOnce == Spec => NoReplyTwice
  <1>1. SessionInv /\ [Next]_vars => [accepted' # accepted /\ accepted' # <<>> => latest' > latest]_vars
    <2> SUFFICES ASSUME SessionInv, Next, accepted' # accepted, accepted' # <<>>
                 PROVE latest' > latest
      BY DEF vars
    <2>1. CASE ReadLine
      <3>1. Ends # {} /\ ParseReply # 0 /\ latest' = ParseReply
        BY <2>1 DEF ReadLine
      <3>2. PICK n \in 1 .. Len(inbox) : inbox[n] = Open(ParseReply) /\ ParseReply \in 1 .. MaxRequests
        BY <3>1, ParsedFacts DEF SessionInv
      <3>3. Taken < Rank(Open(ParseReply))
        BY <3>2, SessionBounds DEF SessionInv, Flow, Within, IsReply, Open
      <3> QED BY <3>1, <3>2, <3>3, FrontFacts, SessionBounds DEF SessionInv, Taken, Rank, Open
    <2>2. CASE ~ReadLine
      BY <2>2 DEF Next, OpenPort, ClosePort, SendRequest, GiveUp, HandleLine, Emit,
                  EmitTimesOut, Transfer, Reset, client
    <2> QED BY <2>1, <2>2
  <1> QED BY SessionInit, SessionStep, <1>1, PTL DEF Spec, NoReplyTwice
==============================================================================
