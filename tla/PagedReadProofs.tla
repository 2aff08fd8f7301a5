--------------------------- MODULE PagedReadProofs ---------------------------
(***************************************************************************)
(* Proofs about PagedRead, for logs, pages and chunks of every size, every *)
(* number of records and rolls, and every kind of reader.                  *)
(***************************************************************************)
EXTENDS PagedRead, SequenceTheorems, FiniteSetTheorems, NaturalsInduction, WellFoundedInduction, TLAPS

Stores == Nat \cup {Hole}

\* The records of the log grow with their position, and one that may still be
\* stored is the newest.
Newer(r, count, waiting) == r < count /\ (waiting => r < count - 1)

LogInOrder ==
  /\ \A m, n \in 1 .. Len(log) : m < n /\ log[m] # Hole /\ log[n] # Hole => log[m] < log[n]
  /\ \A n \in 1 .. Len(log) : log[n] # Hole => Newer(log[n], next, pending)
  /\ pending => next # 0

\* What a reader has is older than all that its next pages will show.
GotIsOlder ==
  /\ \A m \in 1 .. Len(got) : Newer(got[m], next, pending)
  /\ Reading => \A m \in 1 .. Len(got), n \in 1 .. Len(log) :
                  n > offset /\ log[n] # Hole => got[m] < log[n]

OrderInv == TypeOK /\ LogInOrder /\ GotIsOlder /\ InOrderOnce

\* What a reader has not got and no later page of it will show: the log has it
\* before the next page's offset.
Passed == {r \in Missed : \A n \in 1 .. Len(log) : log[n] = r => n <= offset}

FewPassed ==
  /\ IsFiniteSet(kept)
  /\ Reading => kept \subseteq Elements(log) /\ Cardinality(Passed) <= rolls * SlotsPerSector + unread
  /\ pc = "more" => \A n \in 1 .. Len(log) : log[n] \in kept => n <= total
  /\ MissesOnlyRolled

PagedInv == OrderInv /\ FewPassed

(***************************************************************************)
(* What a page holds.                                                      *)
(***************************************************************************)
LEMMA LeastExists ==
  ASSUME NEW S \in SUBSET Nat, S # {}
  PROVE \E n \in S : \A m \in S : n <= m
  <1> DEFINE R == OpToRel(<, Nat)
  <1>1. IsWellFoundedOn(R, Nat)
    BY NatLessThanWellFounded
  <1>2. ASSUME NEW m \in Nat, NEW n \in Nat, m < n PROVE <<m, n>> \in R
    BY <1>2 DEF OpToRel
  <1> HIDE DEF R
  <1>3. PICK n \in S : \A m \in S : ~(<<m, n>> \in R)
    BY <1>1, WFMin
  <1>4. ASSUME NEW m \in S PROVE n <= m
    <2>1. ~(<<m, n>> \in R) /\ m \in Nat /\ n \in Nat
      BY <1>3
    <2>2. ~(m < n)
      BY <2>1, <1>2
    <2> QED BY <2>1, <2>2
  <1> QED BY <1>3, <1>4

\* The loop of log_store_read, up to slot n.
Walk(s, n, f) ==
  /\ f \in [0 .. n -> Seq(Nat)]
  /\ \A m \in 0 .. n : f[m] = IF m = 0 THEN <<>>
                              ELSE IF s[m] = Hole THEN f[m - 1]
                              ELSE Append(f[m - 1], s[m])

LEMMA WalkExists ==
  ASSUME NEW s \in Seq(Stores), NEW n \in 0 .. Len(s)
  PROVE \E f : Walk(s, n, f)
  <1> DEFINE Bad == {m \in 0 .. Len(s) : ~\E f : Walk(s, m, f)}
  <1>1. Len(s) \in Nat /\ \A m \in 1 .. Len(s) : s[m] \in Nat \/ s[m] = Hole
    BY LenProperties, ElementOfSeq DEF Stores
  <1> SUFFICES ASSUME Bad # {} PROVE FALSE
    OBVIOUS
  <1>2. Bad \in SUBSET Nat
    BY <1>1
  <1>3. PICK m \in Bad : \A k \in Bad : m <= k
    BY <1>2, LeastExists
  <1>4. m \in 0 .. Len(s) /\ ~\E f : Walk(s, m, f)
    BY <1>3
  <1>5. CASE m = 0
    <2>1. Walk(s, 0, [k \in 0 .. 0 |-> <<>>])
      BY EmptySeq DEF Walk
    <2> QED BY <1>4, <1>5, <2>1
  <1>6. CASE m # 0
    <2>1. m - 1 \in 0 .. Len(s) /\ ~(m <= m - 1) /\ m \in Nat /\ m \in 1 .. Len(s)
      BY <1>1, <1>4, <1>6
    <2>2. PICK f : Walk(s, m - 1, f)
      BY <1>3, <2>1
    <2> DEFINE last == IF s[m] = Hole THEN f[m - 1] ELSE Append(f[m - 1], s[m])
               g == [k \in 0 .. m |-> IF k = m THEN last ELSE f[k]]
    <2>3. f \in [0 .. m - 1 -> Seq(Nat)] /\ f[m - 1] \in Seq(Nat)
      BY <2>1, <2>2 DEF Walk
    <2>4. last \in Seq(Nat)
      BY <1>1, <2>1, <2>3, AppendProperties
    <2> HIDE DEF last
    <2>5. g \in [0 .. m -> Seq(Nat)]
      BY <2>1, <2>3, <2>4
    <2>6. ASSUME NEW k \in 0 .. m
          PROVE g[k] = IF k = 0 THEN <<>> ELSE IF s[k] = Hole THEN g[k - 1] ELSE Append(g[k - 1], s[k])
      <3>1. CASE k = m
        <4>1. g[k] = last /\ g[k - 1] = f[m - 1] /\ k # 0
          BY <1>6, <2>1, <3>1
        <4> QED BY <3>1, <4>1 DEF last
      <3>2. CASE k # m
        <4>1. k \in 0 .. m - 1 /\ g[k] = f[k] /\ (k # 0 => k - 1 \in 0 .. m /\ k - 1 # m /\ g[k - 1] = f[k - 1])
          BY <2>1, <3>2
        <4>2. f[k] = IF k = 0 THEN <<>> ELSE IF s[k] = Hole THEN f[k - 1] ELSE Append(f[k - 1], s[k])
          BY <2>2, <4>1 DEF Walk
        <4> QED BY <4>1, <4>2
      <3> QED BY <3>1, <3>2
    <2> HIDE DEF g
    <2>7. Walk(s, m, g)
      BY <2>5, <2>6 DEF Walk
    <2> QED BY <1>4, <2>7
  <1> QED BY <1>5, <1>6

LEMMA RecordsWalk ==
  ASSUME NEW s \in Seq(Stores)
  PROVE \E f : Walk(s, Len(s), f) /\ Records(s) = f[Len(s)]
  <1> DEFINE Step(f, n) == IF n = 0 THEN <<>>
                           ELSE IF s[n] = Hole THEN f[n - 1]
                           ELSE Append(f[n - 1], s[n])
             upTo == CHOOSE f : f = [n \in 0 .. Len(s) |-> Step(f, n)]
  <1>1. Records(s) = upTo[Len(s)]
    BY DEF Records
  <1>2. Len(s) \in Nat
    BY LenProperties
  <1>3. PICK f : Walk(s, Len(s), f)
    BY <1>2, WalkExists
  <1>4. f = [n \in 0 .. Len(s) |-> Step(f, n)]
    BY <1>3 DEF Walk
  <1>5. upTo = [n \in 0 .. Len(s) |-> Step(upTo, n)]
    BY <1>4
  <1>6. /\ \A n \in 0 .. Len(s) : f[n] = Step(f, n)
        /\ \A n \in 0 .. Len(s) : upTo[n] = Step(upTo, n)
    BY <1>3, <1>5 DEF Walk
  <1> HIDE DEF upTo
  <1>7. upTo[Len(s)] = f[Len(s)]
    <2> DEFINE Differ == {n \in 0 .. Len(s) : upTo[n] # f[n]}
    <2> SUFFICES ASSUME Differ # {} PROVE FALSE
      BY <1>2
    <2>1. Differ \in SUBSET Nat
      BY <1>2
    <2>2. PICK n \in Differ : \A k \in Differ : n <= k
      BY <2>1, LeastExists
    <2>3. CASE n = 0
      BY <1>6, <2>2, <2>3
    <2>4. CASE n # 0
      <3>1. n - 1 \in 0 .. Len(s) /\ ~(n <= n - 1)
        BY <1>2, <2>2, <2>4
      <3>2. upTo[n - 1] = f[n - 1]
        BY <2>2, <3>1
      <3> QED BY <1>6, <2>2, <2>4, <3>2
    <2> QED BY <2>3, <2>4
  <1> QED BY <1>1, <1>3, <1>7

\* A page holds the records of its slots and nothing else, as often and in the order
\* in which they stand there.
LEMMA RecordsAre ==
  ASSUME NEW s \in Seq(Stores),
         \A m, n \in 1 .. Len(s) : m < n /\ s[m] # Hole /\ s[n] # Hole => s[m] < s[n]
  PROVE /\ Records(s) \in Seq(Nat)
        /\ \A n \in 1 .. Len(Records(s)) : \E m \in 1 .. Len(s) : s[m] # Hole /\ Records(s)[n] = s[m]
        /\ \A m \in 1 .. Len(s) : s[m] # Hole => \E n \in 1 .. Len(Records(s)) : Records(s)[n] = s[m]
        /\ \A m, n \in 1 .. Len(Records(s)) : m < n => Records(s)[m] < Records(s)[n]
  <1> DEFINE P(r, n) ==
        /\ \A k \in 1 .. Len(r) : \E m \in 1 .. n : s[m] # Hole /\ r[k] = s[m]
        /\ \A m \in 1 .. n : s[m] # Hole => \E k \in 1 .. Len(r) : r[k] = s[m]
        /\ \A k, l \in 1 .. Len(r) : k < l => r[k] < r[l]
  <1>1. Len(s) \in Nat /\ \A m \in 1 .. Len(s) : s[m] \in Nat \/ s[m] = Hole
    BY LenProperties, ElementOfSeq DEF Stores
  <1>2. PICK f : Walk(s, Len(s), f) /\ Records(s) = f[Len(s)]
    BY RecordsWalk
  <1>3. \A n \in 0 .. Len(s) : f[n] \in Seq(Nat)
    BY <1>2 DEF Walk
  <1>4. P(f[Len(s)], Len(s))
    <2> DEFINE Bad == {n \in 0 .. Len(s) : ~P(f[n], n)}
    <2> SUFFICES ASSUME Bad # {} PROVE FALSE
      BY <1>1
    <2>1. Bad \in SUBSET Nat
      BY <1>1
    <2>2. PICK n \in Bad : \A k \in Bad : n <= k
      BY <2>1, LeastExists
    <2>3. n \in 0 .. Len(s) /\ ~P(f[n], n)
      BY <2>2
    <2>4. CASE n = 0
      <3>1. f[n] = <<>>
        BY <1>2, <2>3, <2>4 DEF Walk
      <3> QED BY <2>3, <2>4, <3>1
    <2>5. CASE n # 0
      <3>1. n - 1 \in 0 .. Len(s) /\ ~(n <= n - 1) /\ n \in Nat /\ n \in 1 .. Len(s)
        BY <1>1, <2>3, <2>5
      <3>2. P(f[n - 1], n - 1)
        BY <2>2, <3>1
      <3> DEFINE r == f[n - 1]
                 t == f[n]
      <3>3. r \in Seq(Nat) /\ t \in Seq(Nat) /\ P(r, n - 1)
        BY <1>3, <2>3, <3>1, <3>2
      <3>4. CASE s[n] = Hole
        <4>1. t = r
          BY <1>2, <2>3, <2>5, <3>4 DEF Walk
        <4>2. \A m \in 1 .. n : s[m] # Hole => m \in 1 .. n - 1
          BY <3>1, <3>4
        <4>3. \A m \in 1 .. n - 1 : m \in 1 .. n
          BY <3>1
        <4> HIDE DEF r, t
        <4>4. P(t, n)
          BY <3>3, <4>1, <4>2, <4>3
        <4> QED BY <2>3, <4>4 DEF t
      <3>5. CASE s[n] # Hole
        <4>1. t = Append(r, s[n]) /\ s[n] \in Nat
          BY <1>1, <1>2, <2>3, <2>5, <3>1, <3>5 DEF Walk
        <4> HIDE DEF r, t
        <4>2. /\ Len(r) \in Nat /\ Len(t) = Len(r) + 1 /\ t[Len(r) + 1] = s[n]
              /\ \A k \in 1 .. Len(r) : t[k] = r[k]
          BY <3>3, <4>1, AppendProperties, LenProperties
        <4>3. \A k \in 1 .. Len(t) : k \in 1 .. Len(r) \/ k = Len(r) + 1
          BY <4>2
        <4>4. \A k \in 1 .. Len(t) : \E m \in 1 .. n : s[m] # Hole /\ t[k] = s[m]
          <5>1. ASSUME NEW k \in 1 .. Len(t) PROVE \E m \in 1 .. n : s[m] # Hole /\ t[k] = s[m]
            <6>1. CASE k \in 1 .. Len(r)
              <7>1. PICK m \in 1 .. n - 1 : s[m] # Hole /\ r[k] = s[m]
                BY <3>3, <6>1
              <7> QED BY <3>1, <4>2, <6>1, <7>1
            <6>2. CASE k = Len(r) + 1
              BY <3>1, <3>5, <4>2, <6>2
            <6> QED BY <4>3, <6>1, <6>2
          <5> QED BY <5>1
        <4>5. \A m \in 1 .. n : s[m] # Hole => \E k \in 1 .. Len(t) : t[k] = s[m]
          <5>1. ASSUME NEW m \in 1 .. n, s[m] # Hole PROVE \E k \in 1 .. Len(t) : t[k] = s[m]
            <6>1. CASE m = n
              BY <4>2, <6>1
            <6>2. CASE m # n
              <7>1. m \in 1 .. n - 1
                BY <3>1, <6>2
              <7>2. PICK k \in 1 .. Len(r) : r[k] = s[m]
                BY <3>3, <5>1, <7>1
              <7> QED BY <4>2, <7>2
            <6> QED BY <6>1, <6>2
          <5> QED BY <5>1
        <4>6. \A k, l \in 1 .. Len(t) : k < l => t[k] < t[l]
          <5>1. ASSUME NEW k \in 1 .. Len(t), NEW l \in 1 .. Len(t), k < l PROVE t[k] < t[l]
            <6>1. k \in 1 .. Len(r)
              BY <4>2, <5>1
            <6>2. CASE l \in 1 .. Len(r)
              BY <3>3, <4>2, <5>1, <6>1, <6>2
            <6>3. CASE l = Len(r) + 1
              <7>1. PICK m \in 1 .. n - 1 : s[m] # Hole /\ r[k] = s[m]
                BY <3>3, <6>1
              <7>2. m \in 1 .. Len(s) /\ n \in 1 .. Len(s) /\ m < n
                BY <1>1, <3>1
              <7> QED BY <3>5, <4>2, <6>1, <6>3, <7>1, <7>2
            <6> QED BY <4>3, <6>2, <6>3
          <5> QED BY <5>1
        <4>7. P(t, n)
          BY <4>4, <4>5, <4>6
        <4> QED BY <2>3, <4>7 DEF t
      <3> QED BY <3>4, <3>5
    <2> QED BY <2>4, <2>5
  <1> QED BY <1>1, <1>2, <1>3, <1>4

(***************************************************************************)
(* How the log moves.                                                      *)
(***************************************************************************)
LEMMA TypeFacts ==
  TypeOK =>
    /\ log \in Seq(Stores) /\ Len(log) \in Nat /\ Len(log) <= Capacity
    /\ next \in Nat /\ pending \in BOOLEAN
    /\ \A n \in 1 .. Len(log) : log[n] \in Nat \/ log[n] = Hole
    /\ got \in Seq(Nat) /\ Len(got) \in Nat /\ \A n \in 1 .. Len(got) : got[n] \in Nat
    /\ offset \in Nat /\ total \in Nat /\ rolls \in Nat /\ unread \in Nat
  BY LenProperties, ElementOfSeq, PageSizes, RingSizes DEF TypeOK, Stores

\* Every entry of the log afterwards was there before, `gone` positions further
\* on, or is a hole, or is the record that was pending, at the end.
Moved(gone) ==
  /\ gone \in {0, SlotsPerSector, Capacity}
  /\ log' \in Seq(Stores) /\ Len(log') <= Capacity
  /\ \A n \in 1 .. Len(log') : log'[n] # Hole =>
       \/ n + gone \in 1 .. Len(log) /\ log'[n] = log[n + gone]
       \/ n = Len(log) + 1 /\ Len(log') = n /\ pending /\ log'[n] = next - 1 /\ ~pending' /\ gone = 0
  /\ \/ next' = next /\ (pending' => pending)
     \/ next' = next + 1 /\ UNCHANGED log

LEMMA RingMoves ==
  ASSUME TypeOK, LogInOrder
  PROVE /\ Ring!Offer \/ Ring!GiveUp \/ Ring!Commit \/ Ring!Waste \/ Ring!Tear => Moved(0)
        /\ Ring!Roll => Moved(SlotsPerSector)
        /\ Ring!Clear => Moved(Capacity)
  <1> USE RingSizes
  <1>0. /\ log \in Seq(Stores) /\ Len(log) \in Nat /\ Len(log) <= Capacity
        /\ next \in Nat /\ pending \in BOOLEAN
        /\ \A n \in 1 .. Len(log) : log[n] \in Nat \/ log[n] = Hole
    BY TypeFacts
  <1>m. Ring!MayGiveUp => (pending' => pending)
    <2> SUFFICES ASSUME Ring!MayGiveUp, pending' PROVE pending
      OBVIOUS
    <2>1. CASE pending' = pending
      BY <2>1
    <2>2. CASE pending' = FALSE
      BY <2>2
    <2> QED BY <2>1, <2>2 DEF Ring!MayGiveUp
  <1>1. ASSUME UNCHANGED log, next' \in {next, next + 1}, next' = next => (pending' => pending) PROVE Moved(0)
    BY <1>0, <1>1 DEF Moved
  <1>2. ASSUME NEW e \in Stores, log' = Append(log, e), Len(log) < Capacity, next' = next, pending' => pending,
               e # Hole => pending /\ e = next - 1 /\ ~pending'
        PROVE Moved(0)
    <2>1. /\ log' \in Seq(Stores) /\ Len(log') = Len(log) + 1 /\ log'[Len(log) + 1] = e
          /\ \A n \in 1 .. Len(log) : log'[n] = log[n]
      BY <1>0, <1>2, AppendProperties
    <2>2. \A n \in 1 .. Len(log') : n \in 1 .. Len(log) \/ n = Len(log) + 1
      BY <1>0, <2>1
    <2> QED BY <1>0, <1>2, <2>1, <2>2 DEF Moved
  <1>3. Ring!Offer => Moved(0)
    BY <1>0, <1>1 DEF Ring!Offer
  <1>4. Ring!GiveUp => Moved(0)
    BY <1>0, <1>1 DEF Ring!GiveUp
  <1>5. Ring!Commit => Moved(0)
    <2>1. pending => next - 1 \in Stores
      BY <1>0 DEF LogInOrder, Stores
    <2> QED BY <1>0, <1>2, <2>1 DEF Ring!Commit
  <1>6. Ring!Waste => Moved(0)
    <2>1. Hole \in Stores
      BY DEF Stores
    <2> QED BY <1>0, <1>2, <1>m, <2>1 DEF Ring!Waste
  <1>7. Ring!Roll => Moved(SlotsPerSector)
    <2> SUFFICES ASSUME Ring!Roll PROVE Moved(SlotsPerSector)
      OBVIOUS
    <2>1. log' = SubSeq(log, SlotsPerSector + 1, Len(log)) /\ next' = next /\ (pending' => pending) /\ Len(log) = Capacity
      BY <1>m DEF Ring!Roll
    <2>2. /\ log' \in Seq(Stores) /\ Len(log') = Len(log) - SlotsPerSector
          /\ \A n \in 1 .. Len(log) - SlotsPerSector : log'[n] = log[n + SlotsPerSector]
      <3>1. SlotsPerSector + 1 \in 1 .. Len(log)
        BY <1>0, <2>1
      <3>2. \A i \in SlotsPerSector + 1 .. Len(log) : log[i] \in Stores
        BY <1>0, ElementOfSeq
      <3> QED BY <1>0, <2>1, <3>1, <3>2
    <2> QED BY <1>0, <2>1, <2>2 DEF Moved
  <1>8. Ring!Tear => Moved(0)
    <2> SUFFICES ASSUME Ring!Tear PROVE Moved(0)
      OBVIOUS
    <2>1. PICK lost \in SUBSET (1 .. SlotsPerSector) :
            log' = [n \in 1 .. Len(log) |-> IF n \in lost THEN Hole ELSE log[n]]
      BY DEF Ring!Tear
    <2>2. \A n \in 1 .. Len(log) : (IF n \in lost THEN Hole ELSE log[n]) \in Stores
      BY <1>0 DEF Stores
    <2>3. log' \in [1 .. Len(log) -> Stores]
      BY <2>1, <2>2
    <2>4. log' \in Seq(Stores) /\ Len(log') = Len(log)
      BY <1>0, <2>3
    <2>5. next' = next /\ (pending' => pending)
      BY <1>m DEF Ring!Tear
    <2>6. \A n \in 1 .. Len(log') : log'[n] # Hole => n + 0 \in 1 .. Len(log) /\ log'[n] = log[n + 0]
      BY <1>0, <2>1, <2>4
    <2> QED BY <1>0, <2>4, <2>5, <2>6 DEF Moved
  <1>9. Ring!Clear => Moved(Capacity)
    <2>1. <<>> \in Seq(Stores) /\ Len(<<>>) = 0
      BY EmptySeq
    <2> QED BY <1>0, <1>m, <2>1 DEF Ring!Clear, Moved
  <1> QED BY <1>3, <1>4, <1>5, <1>6, <1>7, <1>8, <1>9

\* Whichever way the log moves, its records stay in order and no page to come shows
\* one older than those a reader has.
LEMMA MovedInOrder ==
  ASSUME TypeOK, LogInOrder, GotIsOlder, NEW gone, Moved(gone),
         next' = next + 1 => pending' \in BOOLEAN,
         UNCHANGED <<pc, offset, got>>
  PROVE LogInOrder' /\ GotIsOlder'
  <1>0. /\ Len(log) \in Nat /\ next \in Nat /\ pending \in BOOLEAN /\ gone \in Nat /\ Len(log') \in Nat
        /\ \A n \in 1 .. Len(log) : log[n] \in Nat \/ log[n] = Hole
        /\ Len(got) \in Nat /\ offset \in Nat /\ \A n \in 1 .. Len(got) : got[n] \in Nat
    BY TypeFacts, RingSizes, LenProperties DEF Moved
  <1> DEFINE Old(n) == n + gone \in 1 .. Len(log) /\ log'[n] = log[n + gone]
             New(n) == n = Len(log) + 1 /\ Len(log') = n /\ pending /\ log'[n] = next - 1 /\ ~pending' /\ gone = 0
  <1>1. \A n \in 1 .. Len(log') : log'[n] # Hole => Old(n) \/ New(n)
    BY DEF Moved
  <1>2. \A r \in Nat : Newer(r, next, pending) => Newer(r, next', pending')
    BY <1>0 DEF Moved, Newer
  <1>3. \A n \in 1 .. Len(log') : log'[n] # Hole => Newer(log'[n], next', pending')
    <2> SUFFICES ASSUME NEW n \in 1 .. Len(log'), log'[n] # Hole PROVE Newer(log'[n], next', pending')
      OBVIOUS
    <2>1. CASE Old(n)
      BY <1>0, <1>2, <2>1 DEF LogInOrder
    <2>2. CASE New(n)
      BY <1>0, <2>2 DEF LogInOrder, Moved, Newer
    <2> QED BY <1>1, <2>1, <2>2
  <1>4. ASSUME NEW m \in 1 .. Len(log'), NEW n \in 1 .. Len(log'), m < n, log'[m] # Hole, log'[n] # Hole
        PROVE log'[m] < log'[n]
    <2>1. CASE Old(m) /\ Old(n)
      <3>1. m + gone < n + gone
        BY <1>0, <1>4
      <3> QED BY <1>4, <2>1, <3>1 DEF LogInOrder
    <2>2. CASE Old(m) /\ New(n)
      BY <1>4, <2>2 DEF LogInOrder, Newer
    <2>3. CASE New(m)
      BY <1>0, <1>4, <2>3
    <2> QED BY <1>1, <1>4, <2>1, <2>2, <2>3
  <1>5. (pending => next # 0)'
    BY <1>0 DEF LogInOrder, Moved
  <1>6. \A m \in 1 .. Len(got') : Newer(got'[m], next', pending')
    BY <1>0, <1>2 DEF GotIsOlder
  <1>7. ASSUME Reading, NEW m \in 1 .. Len(got), NEW n \in 1 .. Len(log'), n > offset, log'[n] # Hole
        PROVE got[m] < log'[n]
    <2>1. CASE Old(n)
      <3>1. n + gone > offset
        BY <1>0, <1>7
      <3> QED BY <1>7, <2>1, <3>1 DEF GotIsOlder
    <2>2. CASE New(n)
      BY <1>7, <2>2 DEF GotIsOlder, Newer
    <2> QED BY <1>1, <1>7, <2>1, <2>2
  <1>8. LogInOrder'
    BY <1>3, <1>4, <1>5 DEF LogInOrder
  <1> QED BY <1>6, <1>7, <1>8 DEF GotIsOlder, Reading

\* A roll is no other step of the log.
LEMMA RollIsRoll ==
  ASSUME TypeOK, LogMoves, Ring!Roll
  PROVE rolls < MaxRolls
  <1> USE RingSizes
  <1>1. log \in Seq(Stores) /\ Len(log) = Capacity
    BY TypeFacts DEF Ring!Roll
  <1>2. SlotsPerSector + 1 \in 1 .. Len(log) /\ \A i \in SlotsPerSector + 1 .. Len(log) : log[i] \in Stores
    BY <1>1, ElementOfSeq
  <1>3. Len(log') = Capacity - SlotsPerSector
    BY <1>1, <1>2 DEF Ring!Roll
  <1>4. ~Ring!Offer /\ ~Ring!GiveUp
    BY <1>1, <1>3 DEF Ring!Offer, Ring!GiveUp
  <1>5. ~Ring!Commit /\ ~Ring!Waste
    BY <1>1 DEF Ring!Commit, Ring!Waste
  <1>6. ~Ring!Tear
    <2> SUFFICES ASSUME Ring!Tear PROVE FALSE
      OBVIOUS
    <2>1. PICK lost \in SUBSET (1 .. SlotsPerSector) :
            log' = [n \in 1 .. Len(log) |-> IF n \in lost THEN Hole ELSE log[n]]
      BY DEF Ring!Tear
    <2>2. \A n \in 1 .. Len(log) : (IF n \in lost THEN Hole ELSE log[n]) \in Stores
      BY <1>1, ElementOfSeq DEF Stores
    <2>3. Len(log') = Len(log)
      BY <1>1, <2>1, <2>2
    <2> QED BY <1>1, <1>3, <2>3
  <1>7. ~Ring!Clear
    BY <1>3, EmptySeq DEF Ring!Clear
  <1> QED BY <1>4, <1>5, <1>6, <1>7 DEF LogMoves

LEMMA LogMovesFacts ==
  ASSUME TypeOK, LogInOrder, LogMoves
  PROVE \E gone : /\ Moved(gone)
                  /\ gone \in {0, Capacity} \/ (gone = SlotsPerSector /\ Ring!Roll)
                  /\ gone = Capacity => log' = <<>>
  <1> DEFINE Fits(gone) == /\ Moved(gone)
                           /\ gone \in {0, Capacity} \/ (gone = SlotsPerSector /\ Ring!Roll)
                           /\ gone = Capacity => log' = <<>>
  <1>1. 0 # Capacity /\ SlotsPerSector # Capacity
    BY RingSizes
  <1>2. CASE Ring!Offer \/ Ring!GiveUp \/ Ring!Commit \/ Ring!Waste \/ Ring!Tear
    <2>1. Fits(0)
      BY <1>1, <1>2, RingMoves
    <2> QED BY <2>1
  <1>3. CASE Ring!Roll
    <2>1. Fits(SlotsPerSector)
      BY <1>1, <1>3, RingMoves
    <2> QED BY <2>1
  <1>4. CASE Ring!Clear
    <2>1. Fits(Capacity)
      BY <1>4, RingMoves DEF Ring!Clear
    <2> QED BY <2>1
  <1> QED BY <1>2, <1>3, <1>4 DEF LogMoves

(***************************************************************************)
(* Pages.                                                                  *)
(***************************************************************************)
LEMMA CoveredFacts ==
  ASSUME TypeOK, NEW slots \in Covered(PageLimit)
  PROVE /\ slots \in Nat /\ Slots(PageLimit) \in Nat
        /\ slots <= Slots(PageLimit) /\ Slots(PageLimit) <= PageLimit
        /\ slots # 0 => offset + slots <= Len(log)
        /\ \A n \in 1 .. Len(log) : n > offset /\ n <= offset + PageLimit => n <= offset + Slots(PageLimit)
  <1>1. offset \in Nat /\ Len(log) \in Nat
    BY TypeFacts
  <1>2. slots \in Nat /\ slots <= Slots(PageLimit) /\ Slots(PageLimit) \in Nat
    BY <1>1, PageSizes DEF Covered, Slots, Smaller, Larger
  <1> QED BY <1>1, <1>2, PageSizes, PagesAreWhole DEF Slots, Smaller, Larger

LEMMA PageFacts ==
  ASSUME TypeOK, LogInOrder, NEW slots \in Covered(PageLimit)
  PROVE /\ Page(slots) \in Seq(Nat)
        /\ \A n \in 1 .. Len(Page(slots)) : \E m \in 1 .. Len(log) :
             /\ offset < m /\ m <= offset + slots
             /\ log[m] # Hole /\ Page(slots)[n] = log[m]
        /\ \A m \in 1 .. Len(log) : offset < m /\ m <= offset + slots /\ log[m] # Hole =>
             \E n \in 1 .. Len(Page(slots)) : Page(slots)[n] = log[m]
        /\ \A m, n \in 1 .. Len(Page(slots)) : m < n => Page(slots)[m] < Page(slots)[n]
  <1> DEFINE s == SubSeq(log, offset + 1, offset + slots)
  <1>1. /\ slots \in Nat /\ offset \in Nat /\ Len(log) \in Nat /\ log \in Seq(Stores)
        /\ slots # 0 => offset + slots <= Len(log)
    BY CoveredFacts, TypeFacts
  <1>2. s \in Seq(Stores) /\ Len(s) = slots /\ \A n \in 1 .. slots : s[n] = log[offset + n]
    <2>1. \A i \in offset + 1 .. offset + slots : log[i] \in Stores
      BY <1>1, ElementOfSeq
    <2> QED BY <1>1, <2>1
  <1> HIDE DEF s
  <1>3. Page(slots) = Records(s)
    BY DEF Page, s
  <1>4. \A n \in 1 .. slots : offset + n \in 1 .. Len(log) /\ s[n] = log[offset + n]
    BY <1>1, <1>2
  <1>5. \A m, n \in 1 .. Len(s) : m < n /\ s[m] # Hole /\ s[n] # Hole => s[m] < s[n]
    <2> SUFFICES ASSUME NEW m \in 1 .. Len(s), NEW n \in 1 .. Len(s), m < n, s[m] # Hole, s[n] # Hole
                 PROVE s[m] < s[n]
      OBVIOUS
    <2>1. offset + m < offset + n
      BY <1>1, <1>2
    <2> QED BY <1>2, <1>4, <2>1 DEF LogInOrder
  <1>6. /\ Records(s) \in Seq(Nat)
        /\ \A n \in 1 .. Len(Records(s)) : \E m \in 1 .. Len(s) : s[m] # Hole /\ Records(s)[n] = s[m]
        /\ \A m \in 1 .. Len(s) : s[m] # Hole => \E n \in 1 .. Len(Records(s)) : Records(s)[n] = s[m]
        /\ \A m, n \in 1 .. Len(Records(s)) : m < n => Records(s)[m] < Records(s)[n]
    BY <1>2, <1>5, RecordsAre
  <1>7. ASSUME NEW n \in 1 .. Len(Page(slots))
        PROVE \E m \in 1 .. Len(log) : /\ offset < m /\ m <= offset + slots
                                       /\ log[m] # Hole /\ Page(slots)[n] = log[m]
    <2>1. PICK m \in 1 .. Len(s) : s[m] # Hole /\ Records(s)[n] = s[m]
      BY <1>3, <1>6
    <2>2. offset < offset + m /\ offset + m <= offset + slots
      BY <1>1, <1>2
    <2> QED BY <1>2, <1>3, <1>4, <2>1, <2>2
  <1>8. ASSUME NEW m \in 1 .. Len(log), offset < m, m <= offset + slots, log[m] # Hole
        PROVE \E n \in 1 .. Len(Page(slots)) : Page(slots)[n] = log[m]
    <2>1. m - offset \in 1 .. Len(s) /\ s[m - offset] = log[m]
      BY <1>1, <1>2, <1>8
    <2> QED BY <1>3, <1>6, <1>8, <2>1
  <1> QED BY <1>3, <1>6, <1>7, <1>8

\* What a reader has afterwards.
LEMMA GotFacts ==
  ASSUME TypeOK, NEW page \in Seq(Nat)
  PROVE /\ got \o page \in Seq(Nat) /\ Len(got \o page) = Len(got) + Len(page)
        /\ Len(got) \in Nat /\ Len(page) \in Nat
        /\ \A n \in 1 .. Len(got) : (got \o page)[n] = got[n]
        /\ \A n \in 1 .. Len(page) : (got \o page)[Len(got) + n] = page[n]
        /\ \A n \in 1 .. Len(got \o page) : n \in 1 .. Len(got) \/ n - Len(got) \in 1 .. Len(page)
  <1>1. got \in Seq(Nat) /\ Len(got) \in Nat /\ Len(page) \in Nat
    BY TypeFacts, LenProperties
  <1> QED BY <1>1, ConcatProperties

(***************************************************************************)
(* Types, and the order of what is read.                                   *)
(***************************************************************************)
LEMMA PagedInitTypes == Init => TypeOK /\ LogInOrder /\ GotIsOlder /\ InOrderOnce
  <1> SUFFICES ASSUME Init PROVE TypeOK /\ LogInOrder /\ GotIsOlder /\ InOrderOnce
    OBVIOUS
  <1>1. log = <<>> /\ got = <<>> /\ pending = FALSE /\ next = 0 /\ kept = {}
    BY DEF Init, Ring!Init
  <1>2. <<>> \in Seq(Nat \cup {Hole}) /\ <<>> \in Seq(Nat) /\ Len(<<>>) = 0
    BY EmptySeq
  <1>3. /\ reader \in {"all", "last", "web"}
        /\ pc \in {"idle", "first", "more", "done", "failed"}
        /\ offset = 0 /\ total = 0 /\ rolls = 0 /\ unread = 0
    BY ReadersAssumption DEF Init
  <1>4. 0 \in Nat /\ 0 \in 0 .. Capacity /\ 0 \in 0 .. MaxRolls /\ 0 \in 0 .. MaxRecords /\ 0 <= Capacity
    BY RingSizes, PageSizes
  <1>5. TypeOK
    BY <1>1, <1>2, <1>3, <1>4 DEF TypeOK
  <1> QED BY <1>1, <1>2, <1>5 DEF LogInOrder, GotIsOlder, InOrderOnce

LEMMA NewestFacts ==
  ASSUME TypeOK
  PROVE Newest(Len(log)) \in Nat
  BY TypeFacts, PageSizes DEF Newest, Larger

LEMMA BeginTypes ==
  ASSUME TypeOK, NEW first \in Nat, Begin(first), reader' = reader,
         pc' \in {"first", "more", "done"}, total' \in 0 .. Capacity
  PROVE TypeOK'
  <1>1. <<>> \in Seq(Nat)
    BY EmptySeq
  <1>2. UNCHANGED <<log, next, pending>>
    BY DEF Begin, ring
  <1>3. kept' \subseteq Nat
    BY TypeFacts DEF Begin
  <1> QED BY <1>1, <1>2, <1>3, PageSizes DEF Begin, TypeOK

LEMMA TypesStep == TypeOK /\ LogInOrder /\ [Next]_vars => TypeOK'
  <1> SUFFICES ASSUME TypeOK, LogInOrder, [Next]_vars PROVE TypeOK'
    OBVIOUS
  <1>1. CASE LogMoves
    <2>1. PICK gone : Moved(gone)
      BY <1>1, LogMovesFacts
    <2>2. /\ UNCHANGED <<reader, pc, offset, total, got, unread>> /\ kept' \subseteq kept
          /\ rolls' = IF Reading /\ Ring!Roll THEN rolls + 1 ELSE rolls
      BY <1>1 DEF LogMoves
    <2>3. rolls' \in 0 .. MaxRolls
      <3>1. Ring!Roll => rolls < MaxRolls
        BY <1>1, RollIsRoll
      <3> QED BY <2>2, <3>1, PageSizes DEF TypeOK
    <2>4. next' \in 0 .. MaxRecords
      BY <1>1, PageSizes DEF LogMoves, TypeOK, Ring!Offer, Ring!GiveUp, Ring!Commit, Ring!Waste,
                             Ring!Tear, Ring!Roll, Ring!Clear
    <2>5. pending' \in BOOLEAN
      <3>1. Ring!MayGiveUp => pending' \in BOOLEAN
        BY DEF Ring!MayGiveUp, TypeOK
      <3> QED BY <1>1, <3>1 DEF LogMoves, Ring!Offer, Ring!GiveUp, Ring!Commit, Ring!Waste,
                                Ring!Tear, Ring!Roll, Ring!Clear
    <2>6. log' \in Seq(Nat \cup {Hole}) /\ Len(log') <= Capacity
      BY <2>1 DEF Moved, Stores
    <2> QED BY <2>2, <2>3, <2>4, <2>5, <2>6 DEF TypeOK
  <1>2. CASE StartAll
    BY <1>2, BeginTypes DEF StartAll, TypeOK
  <1>3. CASE StartLast
    BY <1>3, BeginTypes, NewestFacts DEF StartLast, TypeOK
  <1>4. CASE StartWeb
    <2>1. total' \in 0 .. Capacity /\ pc' \in {"more", "done"}
      BY <1>4, TypeFacts, RingSizes DEF StartWeb
    <2> QED BY <1>4, <2>1, BeginTypes, NewestFacts DEF StartWeb
  <1>5. CASE ReadPage
    <2>1. PICK slots \in Covered(PageLimit) :
            /\ got' = got \o Page(slots) /\ offset' = offset + PageLimit
            /\ unread' = unread + Slots(PageLimit) - slots
      BY <1>5 DEF ReadPage, Advance
    <2>2. got' \in Seq(Nat)
      BY <2>1, PageFacts, GotFacts
    <2>3. offset' \in Nat /\ unread' \in Nat
      BY <2>1, CoveredFacts, TypeFacts, PageSizes
    <2>4. /\ total' \in 0 .. Capacity /\ pc' \in {"more", "done"}
          /\ UNCHANGED <<log, next, pending, reader, kept, rolls>>
      BY <1>5, TypeFacts, RingSizes DEF ReadPage, ring, TypeOK
    <2> QED BY <2>2, <2>3, <2>4 DEF TypeOK
  <1>6. CASE ReadFailed
    <2>1. <<>> \in Seq(Nat)
      BY EmptySeq
    <2> QED BY <1>6, <2>1, PageSizes DEF ReadFailed, ring, TypeOK
  <1>7. CASE Finish
    <2>1. <<>> \in Seq(Nat)
      BY EmptySeq
    <2> QED BY <1>7, <2>1, PageSizes, RingSizes, ReadersAssumption DEF Finish, ring, TypeOK
  <1>8. CASE UNCHANGED vars
    BY <1>8 DEF vars, ring, TypeOK
  <1> QED BY <1>1, <1>2, <1>3, <1>4, <1>5, <1>6, <1>7, <1>8 DEF Next

(***************************************************************************)
(* The order of what is read.                                              *)
(***************************************************************************)
LEMMA BeginOrder ==
  ASSUME NEW first, LogInOrder, Begin(first)
  PROVE LogInOrder' /\ GotIsOlder' /\ InOrderOnce'
  <1>1. UNCHANGED <<log, next, pending>> /\ got' = <<>>
    BY DEF Begin, ring
  <1>2. LogInOrder'
    BY <1>1 DEF LogInOrder
  <1>3. \A n \in 1 .. Len(got') : FALSE
    BY <1>1, EmptySeq
  <1> QED BY <1>2, <1>3 DEF GotIsOlder, InOrderOnce

LEMMA PageOrder ==
  ASSUME OrderInv, ReadPage
  PROVE LogInOrder' /\ GotIsOlder' /\ InOrderOnce'
  <1>1. PICK slots \in Covered(PageLimit) : got' = got \o Page(slots) /\ offset' = offset + PageLimit
    BY DEF ReadPage, Advance
  <1> DEFINE page == Page(slots)
  <1>2. /\ UNCHANGED <<log, next, pending>> /\ Reading
        /\ TypeOK /\ LogInOrder /\ GotIsOlder /\ InOrderOnce
    BY DEF ReadPage, ring, OrderInv
  <1>3. /\ page \in Seq(Nat)
        /\ \A n \in 1 .. Len(page) : \E m \in 1 .. Len(log) :
             /\ offset < m /\ m <= offset + slots
             /\ log[m] # Hole /\ page[n] = log[m]
        /\ \A m, n \in 1 .. Len(page) : m < n => page[m] < page[n]
    BY <1>2, PageFacts
  <1>4. /\ slots \in Nat /\ slots <= PageLimit /\ PageLimit \in Nat /\ offset \in Nat /\ Len(log) \in Nat
        /\ \A n \in 1 .. Len(log) : log[n] \in Nat \/ log[n] = Hole
        /\ \A n \in 1 .. Len(got) : got[n] \in Nat
    BY <1>2, CoveredFacts, TypeFacts, PageSizes
  <1> HIDE DEF page
  <1>5. /\ Len(got') = Len(got) + Len(page) /\ Len(got) \in Nat /\ Len(page) \in Nat
        /\ \A n \in 1 .. Len(got) : got'[n] = got[n]
        /\ \A n \in 1 .. Len(page) : got'[Len(got) + n] = page[n]
        /\ \A n \in 1 .. Len(got') : n \in 1 .. Len(got) \/ n - Len(got) \in 1 .. Len(page)
    BY <1>1, <1>2, <1>3, GotFacts DEF page
  \* Each record received before is older than the page, and so than what follows it.
  <1>6. \A n \in 1 .. Len(got') : \/ n \in 1 .. Len(got) /\ got'[n] = got[n]
                                  \/ /\ n - Len(got) \in 1 .. Len(page)
                                     /\ got'[n] = page[n - Len(got)]
                                     /\ \E m \in 1 .. Len(log) : /\ offset < m /\ m <= offset + slots
                                                                 /\ log[m] # Hole /\ got'[n] = log[m]
    <2> SUFFICES ASSUME NEW n \in 1 .. Len(got'), ~(n \in 1 .. Len(got))
                 PROVE /\ n - Len(got) \in 1 .. Len(page)
                       /\ got'[n] = page[n - Len(got)]
                       /\ \E m \in 1 .. Len(log) : /\ offset < m /\ m <= offset + slots
                                                   /\ log[m] # Hole /\ got'[n] = log[m]
      BY <1>5
    <2>1. n - Len(got) \in 1 .. Len(page) /\ Len(got) + (n - Len(got)) = n
      BY <1>5
    <2>2. got'[n] = page[n - Len(got)]
      BY <1>5, <2>1
    <2> QED BY <1>3, <2>1, <2>2
  <1>7. \A n \in 1 .. Len(got') : Newer(got'[n], next, pending)
    <2> SUFFICES ASSUME NEW n \in 1 .. Len(got') PROVE Newer(got'[n], next, pending)
      OBVIOUS
    <2> QED BY <1>2, <1>6 DEF GotIsOlder, LogInOrder
  <1>8. ASSUME NEW m \in 1 .. Len(got'), NEW n \in 1 .. Len(log), n > offset + PageLimit, log[n] # Hole
        PROVE got'[m] < log[n]
    <2>1. CASE m \in 1 .. Len(got) /\ got'[m] = got[m]
      <3>1. n > offset
        BY <1>4, <1>8
      <3> QED BY <1>2, <1>8, <2>1, <3>1 DEF GotIsOlder
    <2>2. CASE ~(m \in 1 .. Len(got) /\ got'[m] = got[m])
      <3>1. PICK l \in 1 .. Len(log) : offset < l /\ l <= offset + slots /\ log[l] # Hole /\ got'[m] = log[l]
        BY <1>6, <2>2
      <3>2. l < n
        BY <1>4, <1>8, <3>1
      <3> QED BY <1>2, <1>8, <3>1, <3>2 DEF LogInOrder
    <2> QED BY <2>1, <2>2
  <1>9. ASSUME NEW m \in 1 .. Len(got'), NEW n \in 1 .. Len(got'), m < n
        PROVE got'[m] < got'[n]
    <2>1. CASE m \in 1 .. Len(got) /\ got'[m] = got[m] /\ n \in 1 .. Len(got) /\ got'[n] = got[n]
      BY <1>2, <1>9, <2>1 DEF InOrderOnce
    <2>2. CASE /\ m \in 1 .. Len(got) /\ got'[m] = got[m]
               /\ \E l \in 1 .. Len(log) : offset < l /\ l <= offset + slots /\ log[l] # Hole /\ got'[n] = log[l]
      <3>1. PICK l \in 1 .. Len(log) : offset < l /\ log[l] # Hole /\ got'[n] = log[l]
        BY <2>2
      <3>2. l > offset
        BY <1>4, <3>1
      <3> QED BY <1>2, <2>2, <3>1, <3>2 DEF GotIsOlder
    <2>3. CASE /\ m - Len(got) \in 1 .. Len(page) /\ got'[m] = page[m - Len(got)]
               /\ n - Len(got) \in 1 .. Len(page) /\ got'[n] = page[n - Len(got)]
      <3>1. m - Len(got) < n - Len(got)
        BY <1>5, <1>9
      <3> QED BY <1>3, <2>3, <3>1
    <2>4. CASE m - Len(got) \in 1 .. Len(page) /\ n \in 1 .. Len(got)
      BY <1>5, <1>9, <2>4
    <2> QED BY <1>6, <2>1, <2>2, <2>3, <2>4
  <1>10. LogInOrder'
    BY <1>2 DEF LogInOrder
  <1>11. GotIsOlder'
    BY <1>1, <1>2, <1>7, <1>8 DEF GotIsOlder
  <1> QED BY <1>9, <1>10, <1>11 DEF InOrderOnce

LEMMA OrderStep == OrderInv /\ [Next]_vars => OrderInv'
  <1> SUFFICES ASSUME OrderInv, [Next]_vars PROVE OrderInv'
    OBVIOUS
  <1>0. TypeOK /\ LogInOrder /\ GotIsOlder /\ InOrderOnce
    BY DEF OrderInv
  <1>t. TypeOK'
    BY <1>0, TypesStep
  <1> SUFFICES LogInOrder' /\ GotIsOlder' /\ InOrderOnce'
    BY <1>t DEF OrderInv
  <1>1. CASE LogMoves
    <2>1. PICK gone : Moved(gone)
      BY <1>0, <1>1, LogMovesFacts
    <2>2. UNCHANGED <<pc, offset, got>>
      BY <1>1 DEF LogMoves
    <2>3. LogInOrder' /\ GotIsOlder'
      BY <1>0, <1>t, <2>1, <2>2, MovedInOrder DEF TypeOK
    <2> QED BY <1>0, <2>2, <2>3 DEF InOrderOnce
  <1>2. CASE StartAll \/ StartLast \/ StartWeb
    BY <1>0, <1>2, BeginOrder DEF StartAll, StartLast, StartWeb
  <1>3. CASE ReadPage
    BY <1>3, PageOrder
  <1>4. CASE ReadFailed \/ Finish
    <2>1. UNCHANGED <<log, next, pending>> /\ got' = <<>>
      BY <1>4 DEF ReadFailed, Finish, ring
    <2>2. \A n \in 1 .. Len(got') : FALSE
      BY <2>1, EmptySeq
    <2> QED BY <1>0, <2>1, <2>2 DEF LogInOrder, GotIsOlder, InOrderOnce
  <1>5. CASE UNCHANGED vars
    BY <1>0, <1>5 DEF vars, ring, LogInOrder, GotIsOlder, InOrderOnce, Reading
  <1> QED BY <1>1, <1>2, <1>3, <1>4, <1>5 DEF Next

\* Every step of the readers and of the log keeps the types.
THEOREM PagedTypes == Spec => []TypeOK
  <1>1. Init => OrderInv
    BY PagedInitTypes DEF OrderInv
  <1>2. OrderInv => TypeOK
    BY DEF OrderInv
  <1> QED BY <1>1, <1>2, OrderStep, PTL DEF Spec

\* A reader gets records oldest first and none twice, however the log rolls, tears,
\* is cleared or grows between its pages.
THEOREM PagesInOrder == Spec => []InOrderOnce
  <1>1. Init => OrderInv
    BY PagedInitTypes DEF OrderInv
  <1>2. OrderInv => InOrderOnce
    BY DEF OrderInv
  <1> QED BY <1>1, <1>2, OrderStep, PTL DEF Spec

(***************************************************************************)
(* What a reader misses.                                                   *)
(***************************************************************************)
\* A set that gains at most the entries of k slots gains at most k elements.
LEMMA GrowsBy ==
  ASSUME NEW P, IsFiniteSet(P), NEW s, NEW a \in Nat, NEW k \in Nat, NEW Q,
         Q \ P \subseteq {s[n] : n \in a + 1 .. a + k}
  PROVE IsFiniteSet(Q) /\ Cardinality(Q) <= Cardinality(P) + k /\ Cardinality(P) \in Nat
  <1> DEFINE I == a + 1 .. a + k
             T == {s[n] : n \in I}
             f == [n \in I |-> s[n]]
  <1>1. IsFiniteSet(I) /\ Cardinality(I) = k
    <2>1. a + 1 \in Int /\ a + k \in Int
      OBVIOUS
    <2>2. IsFiniteSet(I) /\ Cardinality(I) = IF a + 1 > a + k THEN 0 ELSE (a + k) - (a + 1) + 1
      BY <2>1, FS_Interval
    <2> QED BY <2>2
  <1>2. f \in Surjection(I, T)
    BY DEF Surjection
  <1>3. IsFiniteSet(T) /\ Cardinality(T) <= k
    BY <1>1, <1>2, FS_Surjection
  <1> HIDE DEF f, I
  <1>4. Cardinality(P) \in Nat /\ Cardinality(T) \in Nat
    BY <1>3, FS_CardinalityType
  <1>5. IsFiniteSet(P \cap T)
    BY <1>3, FS_Subset
  <1>6. Cardinality(P \cap T) \in Nat
    BY <1>5, FS_CardinalityType
  <1>7. IsFiniteSet(P \cup T) /\ Cardinality(P \cup T) = Cardinality(P) + Cardinality(T) - Cardinality(P \cap T)
    BY <1>3, FS_Union
  <1>8. Q \in SUBSET (P \cup T)
    BY DEF I
  <1>9. IsFiniteSet(Q) /\ Cardinality(Q) <= Cardinality(P \cup T)
    BY <1>7, <1>8, FS_Subset
  <1>10. Cardinality(Q) \in Nat
    BY <1>9, FS_CardinalityType
  <1> QED BY <1>3, <1>4, <1>6, <1>7, <1>9, <1>10

LEMMA RollsCount ==
  ASSUME NEW n \in Nat, NEW size \in Nat
  PROVE n * size \in Nat /\ (n + 1) * size = n * size + size /\ 0 * size = 0
  OBVIOUS

\* No record stands in the log twice.
LEMMA StandsOnce ==
  ASSUME TypeOK, LogInOrder, NEW m \in 1 .. Len(log), NEW n \in 1 .. Len(log),
         log[m] = log[n], log[m] # Hole
  PROVE m = n
  <1>1. Len(log) \in Nat /\ log[m] \in Nat
    BY TypeFacts
  <1>2. ~(m < n) /\ ~(n < m)
    BY <1>1 DEF LogInOrder
  <1> QED BY <1>1, <1>2

LEMMA KeptFacts ==
  ASSUME TypeOK, FewPassed
  PROVE /\ IsFiniteSet(kept) /\ IsFiniteSet(Passed) /\ Cardinality(Passed) \in Nat
        /\ \A r \in kept : r \in Nat /\ r # Hole
  <1>1. IsFiniteSet(kept) /\ Passed \in SUBSET kept
    BY DEF FewPassed, Passed, Missed
  <1>2. IsFiniteSet(Passed)
    BY <1>1, FS_Subset
  <1> QED BY <1>1, <1>2, FS_CardinalityType, HoleAssumption DEF TypeOK

\* A roll moves at most a sector's slots to before the next page; nothing else moves
\* any.
LEMMA MovedPasses ==
  ASSUME TypeOK, LogInOrder, FewPassed, LogMoves
  PROVE FewPassed'
  <1>1. PICK gone : /\ Moved(gone)
                    /\ gone \in {0, Capacity} \/ (gone = SlotsPerSector /\ Ring!Roll)
                    /\ gone = Capacity => log' = <<>>
    BY LogMovesFacts
  <1>2. /\ UNCHANGED <<reader, pc, offset, total, got, unread>> /\ kept' = kept \cap Elements(log')
        /\ rolls' = IF Reading /\ Ring!Roll THEN rolls + 1 ELSE rolls
        /\ pc # "done"
    BY DEF LogMoves
  <1>3. /\ Len(log) \in Nat /\ next \in Nat /\ gone \in Nat /\ Len(log') \in Nat
        /\ offset \in Nat /\ total \in Nat /\ rolls \in Nat /\ unread \in Nat /\ SlotsPerSector \in Nat
    BY <1>1, TypeFacts, RingSizes, LenProperties DEF Moved
  <1>4. /\ IsFiniteSet(kept) /\ IsFiniteSet(Passed) /\ Cardinality(Passed) \in Nat
        /\ \A r \in kept : r \in Nat /\ r # Hole
    BY KeptFacts
  <1>5. IsFiniteSet(kept')
    BY <1>2, <1>4, FS_Subset
  <1>6. kept' \subseteq Elements(log')
    BY <1>2
  <1>7. ASSUME Reading, NEW n \in 1 .. Len(log'), log'[n] \in kept
        PROVE n + gone \in 1 .. Len(log) /\ log'[n] = log[n + gone]
    <2>1. PICK m \in 1 .. Len(log) : log[m] = log'[n]
      BY <1>7 DEF FewPassed, Elements
    <2>2. log'[n] # Hole
      BY <1>4, <1>7
    <2>3. pending => log'[n] < next - 1
      BY <2>1, <2>2 DEF LogInOrder, Newer
    <2>4. CASE n + gone \in 1 .. Len(log) /\ log'[n] = log[n + gone]
      BY <2>4
    <2>5. CASE pending /\ log'[n] = next - 1
      BY <1>3, <2>3, <2>5
    <2> QED BY <1>1, <2>2, <2>4, <2>5 DEF Moved
  <1>8. ASSUME Reading PROVE Cardinality(Passed') <= rolls' * SlotsPerSector + unread'
    <2>1. Cardinality(Passed) <= rolls * SlotsPerSector + unread
      BY <1>8 DEF FewPassed
    <2>2. /\ rolls * SlotsPerSector \in Nat
          /\ (rolls + 1) * SlotsPerSector = rolls * SlotsPerSector + SlotsPerSector
      BY <1>3, RollsCount
    <2>3. ASSUME NEW r \in Passed', r \notin Passed PROVE \E n \in offset + 1 .. offset + gone : r = log[n]
      <3>1. /\ r \in kept /\ r \in Elements(log') /\ r \notin Elements(got)
            /\ \A n \in 1 .. Len(log') : log'[n] = r => n <= offset
        BY <1>2, <2>3 DEF Passed, Missed
      <3>2. PICK n \in 1 .. Len(log') : log'[n] = r
        BY <3>1 DEF Elements
      <3>3. n + gone \in 1 .. Len(log) /\ r = log[n + gone] /\ n <= offset
        BY <1>7, <1>8, <3>1, <3>2
      <3>4. PICK m \in 1 .. Len(log) : log[m] = r /\ ~(m <= offset)
        BY <2>3, <3>1 DEF Passed, Missed
      <3>5. m = n + gone
        <4>1. log[m] = log[n + gone] /\ log[m] # Hole
          BY <1>4, <3>1, <3>3, <3>4
        <4> QED BY <3>3, <4>1, StandsOnce
      <3>6. m \in offset + 1 .. offset + gone
        BY <1>3, <3>3, <3>4, <3>5
      <3> QED BY <3>4, <3>6
    <2>4. CASE gone = Capacity
      <3>1. \A r \in Passed' : FALSE
        BY <1>1, <1>2, <2>4, EmptySeq DEF Passed, Missed, Elements
      <3>2. Passed' = {}
        BY <3>1
      <3>3. Cardinality(Passed') = 0
        BY <3>2, FS_EmptySet
      <3>4. rolls' * SlotsPerSector \in Nat
        BY <1>2, <1>3, RollsCount
      <3> QED BY <1>2, <1>3, <3>3, <3>4
    <2>5. CASE gone = 0 \/ (gone = SlotsPerSector /\ Ring!Roll)
      <3>0. Passed' \ Passed \subseteq {log[n] : n \in offset + 1 .. offset + gone}
        BY <2>3
      <3>1. Cardinality(Passed') <= Cardinality(Passed) + gone /\ IsFiniteSet(Passed')
        BY <1>3, <1>4, <3>0, GrowsBy
      <3>2. Cardinality(Passed') \in Nat
        BY <3>1, FS_CardinalityType
      <3>3. CASE Ring!Roll
        BY <1>2, <1>3, <1>4, <1>8, <2>1, <2>2, <2>5, <3>1, <3>2, <3>3
      <3>4. CASE ~Ring!Roll
        BY <1>2, <1>3, <1>4, <1>8, <2>1, <2>2, <2>5, <3>1, <3>2, <3>4
      <3> QED BY <3>3, <3>4
    <2> QED BY <1>1, <2>4, <2>5
  <1>9. ASSUME pc = "more", NEW n \in 1 .. Len(log'), log'[n] \in kept' PROVE n <= total
    <2>1. Reading /\ log'[n] \in kept
      BY <1>2, <1>9 DEF Reading
    <2>2. n + gone \in 1 .. Len(log) /\ log'[n] = log[n + gone]
      BY <1>7, <2>1
    <2>3. n + gone <= total
      BY <1>9, <2>1, <2>2 DEF FewPassed
    <2> QED BY <1>3, <2>3
  <1>10. MissesOnlyRolled'
    BY <1>2 DEF MissesOnlyRolled
  <1> QED BY <1>2, <1>5, <1>6, <1>8, <1>9, <1>10 DEF FewPassed, Reading

\* Nothing has passed a reader that begins.
LEMMA BeginPasses ==
  ASSUME TypeOK, NEW first \in Nat, Begin(first), pc' \in {"first", "more", "done"},
         pc' = "more" => total' = Len(log), pc' = "done" => first >= Len(log)
  PROVE FewPassed'
  <1>1. Len(log) \in Nat /\ \A n \in 1 .. Len(log) : log[n] \in Nat \/ log[n] = Hole
    BY TypeFacts
  <1>2. /\ UNCHANGED log /\ offset' = first /\ rolls' = 0 /\ unread' = 0
        /\ kept' = {log[n] : n \in {m \in 1 .. Len(log) : m > first}} \ {Hole}
    BY DEF Begin, ring
  <1>3. kept' \subseteq Elements(log') /\ \A r \in kept' : \E n \in 1 .. Len(log) : n > first /\ r = log[n]
    BY <1>2 DEF Elements
  <1>4. IsFiniteSet(kept')
    <2>1. IsFiniteSet({})
      BY FS_EmptySet
    <2>2. kept' \ {} \subseteq {log[n] : n \in 0 + 1 .. 0 + Len(log)}
      BY <1>1, <1>3
    <2> QED BY <1>1, <2>1, <2>2, GrowsBy
  <1>5. Passed' = {}
    <2>1. ASSUME NEW r \in Passed' PROVE FALSE
      <3>1. r \in kept' /\ \A n \in 1 .. Len(log) : log[n] = r => n <= first
        BY <1>2, <2>1 DEF Passed, Missed
      <3>2. PICK n \in 1 .. Len(log) : n > first /\ r = log[n]
        BY <1>3, <3>1
      <3> QED BY <1>1, <3>1, <3>2
    <2> QED BY <2>1
  <1>6. Cardinality({}) = 0 /\ 0 * SlotsPerSector = 0
    BY FS_EmptySet, RingSizes, RollsCount
  <1>7. Cardinality(Passed') <= rolls' * SlotsPerSector + unread'
    BY <1>2, <1>5, <1>6
  <1>8. pc' = "more" => \A n \in 1 .. Len(log') : log'[n] \in kept' => n <= total'
    BY <1>1, <1>2
  <1>9. MissesOnlyRolled'
    <2> SUFFICES ASSUME pc' = "done" PROVE Cardinality(Missed') <= rolls' * SlotsPerSector + unread'
      BY DEF MissesOnlyRolled
    <2>1. \A r \in kept' : FALSE
      BY <1>1, <1>3
    <2>2. Missed' = {}
      BY <2>1 DEF Missed
    <2> QED BY <1>2, <1>6, <2>2
  <1> QED BY <1>3, <1>4, <1>7, <1>8, <1>9 DEF FewPassed

\* A page shows all its slots but those that a failing flash read kept back.
LEMMA PagePasses ==
  ASSUME TypeOK, LogInOrder, FewPassed, ReadPage
  PROVE FewPassed'
  <1>1. PICK slots \in Covered(PageLimit) :
          /\ got' = got \o Page(slots) /\ offset' = offset + PageLimit
          /\ unread' = unread + Slots(PageLimit) - slots
    BY DEF ReadPage, Advance
  <1>2. /\ UNCHANGED <<log, next, pending, reader, kept, rolls>> /\ Reading
        /\ total' = IF pc = "first" THEN Len(log) ELSE total
        /\ pc' = IF offset' < total' THEN "more" ELSE "done"
    BY DEF ReadPage, ring
  <1>3. /\ Len(log) \in Nat /\ offset \in Nat /\ total \in Nat /\ rolls \in Nat /\ unread \in Nat
        /\ PageLimit \in Nat /\ SlotsPerSector \in Nat
    BY TypeFacts, RingSizes, PageSizes
  <1>4. /\ slots \in Nat /\ Slots(PageLimit) \in Nat /\ slots <= Slots(PageLimit) /\ Slots(PageLimit) <= PageLimit
        /\ \A n \in 1 .. Len(log) : n > offset /\ n <= offset + PageLimit => n <= offset + Slots(PageLimit)
    BY CoveredFacts
  <1>5. /\ IsFiniteSet(kept) /\ IsFiniteSet(Passed) /\ Cardinality(Passed) \in Nat
        /\ \A r \in kept : r \in Nat /\ r # Hole
    BY KeptFacts
  <1>6. kept \subseteq Elements(log) /\ Cardinality(Passed) <= rolls * SlotsPerSector + unread
    BY <1>2 DEF FewPassed
  <1>7. /\ Elements(got) \subseteq Elements(got')
        /\ \A m \in 1 .. Len(log) : offset < m /\ m <= offset + slots /\ log[m] # Hole => log[m] \in Elements(got')
    <2>1. Page(slots) \in Seq(Nat)
      BY PageFacts
    <2>2. /\ Len(got') = Len(got) + Len(Page(slots)) /\ Len(got) \in Nat /\ Len(Page(slots)) \in Nat
          /\ \A n \in 1 .. Len(got) : got'[n] = got[n]
          /\ \A n \in 1 .. Len(Page(slots)) : got'[Len(got) + n] = Page(slots)[n]
      BY <1>1, <2>1, GotFacts
    <2>3. \A n \in 1 .. Len(got) : n \in 1 .. Len(got') /\ got'[n] = got[n]
      BY <2>2
    <2>4. \A n \in 1 .. Len(Page(slots)) : Len(got) + n \in 1 .. Len(got')
      BY <2>2
    <2>5. ASSUME NEW m \in 1 .. Len(log), offset < m, m <= offset + slots, log[m] # Hole
          PROVE log[m] \in Elements(got')
      <3>1. PICK n \in 1 .. Len(Page(slots)) : Page(slots)[n] = log[m]
        BY <2>5, PageFacts
      <3> QED BY <2>2, <2>4, <3>1 DEF Elements
    <2> QED BY <2>3, <2>5 DEF Elements
  <1>8. Cardinality(Passed') <= rolls' * SlotsPerSector + unread'
    <2>1. ASSUME NEW r \in Passed', r \notin Passed
          PROVE \E n \in (offset + slots) + 1 .. (offset + slots) + (Slots(PageLimit) - slots) : r = log[n]
      <3>1. /\ r \in kept /\ r \notin Elements(got') /\ r \notin Elements(got)
            /\ \A n \in 1 .. Len(log) : log[n] = r => n <= offset + PageLimit
        BY <1>1, <1>2, <1>7, <2>1 DEF Passed, Missed
      <3>2. PICK n \in 1 .. Len(log) : log[n] = r /\ ~(n <= offset)
        BY <2>1, <3>1 DEF Passed, Missed
      <3>3. n <= offset + Slots(PageLimit)
        BY <1>3, <1>4, <3>1, <3>2
      <3>4. ~(n <= offset + slots)
        BY <1>3, <1>5, <1>7, <3>1, <3>2
      <3>5. n \in (offset + slots) + 1 .. (offset + slots) + (Slots(PageLimit) - slots)
        BY <1>3, <1>4, <3>3, <3>4
      <3> QED BY <3>2, <3>5
    <2>2. Passed' \ Passed \subseteq {log[n] : n \in (offset + slots) + 1 .. (offset + slots) + (Slots(PageLimit) - slots)}
      BY <2>1
    <2>3. offset + slots \in Nat /\ Slots(PageLimit) - slots \in Nat
      BY <1>3, <1>4
    <2>4. IsFiniteSet(Passed') /\ Cardinality(Passed') <= Cardinality(Passed) + (Slots(PageLimit) - slots)
      BY <1>5, <2>2, <2>3, GrowsBy
    <2>5. Cardinality(Passed') \in Nat /\ rolls * SlotsPerSector \in Nat
      BY <1>3, <2>4, FS_CardinalityType, RollsCount
    <2> QED BY <1>1, <1>2, <1>3, <1>4, <1>5, <1>6, <2>4, <2>5
  <1>9. \A n \in 1 .. Len(log) : log[n] \in kept => n <= total'
    BY <1>2, <1>3 DEF FewPassed, Reading
  \* The last page leaves nothing for a later one.
  <1>10. MissesOnlyRolled'
    <2> SUFFICES ASSUME pc' = "done" PROVE Missed' = Passed'
      BY <1>8 DEF MissesOnlyRolled
    <2>1. total' <= offset'
      BY <1>1, <1>2, <1>3
    <2>2. ASSUME NEW r \in Missed', NEW n \in 1 .. Len(log), log[n] = r PROVE n <= offset'
      <3>1. n <= total'
        BY <1>2, <1>9, <2>2 DEF Missed
      <3> QED BY <1>1, <1>2, <1>3, <2>1, <3>1
    <2> QED BY <1>2, <2>2 DEF Passed
  <1> QED BY <1>2, <1>5, <1>6, <1>8, <1>9, <1>10 DEF FewPassed, Reading

LEMMA PassedStep == OrderInv /\ FewPassed /\ [Next]_vars => FewPassed'
  <1> SUFFICES ASSUME TypeOK, LogInOrder, FewPassed, [Next]_vars PROVE FewPassed'
    BY DEF OrderInv
  <1>0. Len(log) \in Nat /\ Newest(Len(log)) \in Nat
    BY TypeFacts, NewestFacts
  <1>1. CASE LogMoves
    BY <1>1, MovedPasses
  <1>2. CASE StartAll
    <2>1. Begin(0) /\ pc' = "first"
      BY <1>2 DEF StartAll
    <2> QED BY <2>1, BeginPasses
  <1>3. CASE StartLast
    <2>1. Begin(Newest(Len(log))) /\ pc' = "first"
      BY <1>3 DEF StartLast
    <2> QED BY <1>0, <2>1, BeginPasses
  <1>4. CASE StartWeb
    <2>1. /\ Begin(Newest(Len(log))) /\ total' = Len(log)
          /\ pc' = IF Newest(Len(log)) < Len(log) THEN "more" ELSE "done"
      BY <1>4 DEF StartWeb
    <2>2. pc' = "done" => Newest(Len(log)) >= Len(log)
      BY <1>0, <2>1
    <2> QED BY <1>0, <2>1, <2>2, BeginPasses
  <1>5. CASE ReadPage
    BY <1>5, PagePasses
  <1>6. CASE ReadFailed \/ Finish
    <2>1. kept' = {} /\ pc' \in {"failed", "idle"} /\ IsFiniteSet({})
      BY <1>6, FS_EmptySet DEF ReadFailed, Finish
    <2> QED BY <2>1 DEF FewPassed, Reading, MissesOnlyRolled
  <1>7. CASE UNCHANGED vars
    BY <1>7 DEF vars, ring, FewPassed, Reading, MissesOnlyRolled, Passed, Missed
  <1> QED BY <1>1, <1>2, <1>3, <1>4, <1>5, <1>6, <1>7 DEF Next

\* A reader that is done misses nothing of what stayed in the log but what rolls moved
\* out of its way, at most a sector's slots for each, and what a failing flash read
\* kept back.
THEOREM RollsBoundMisses == Spec => []MissesOnlyRolled
  <1>1. Init => OrderInv /\ FewPassed
    <2> SUFFICES ASSUME Init PROVE FewPassed
      BY PagedInitTypes DEF OrderInv
    <2>1. kept = {} /\ pc = "idle" /\ IsFiniteSet({})
      BY FS_EmptySet DEF Init
    <2> QED BY <2>1 DEF FewPassed, Reading, MissesOnlyRolled
  <1>2. OrderInv /\ FewPassed => MissesOnlyRolled
    BY DEF FewPassed
  <1> QED BY <1>1, <1>2, OrderStep, PassedStep, PTL DEF Spec
================================================================================
