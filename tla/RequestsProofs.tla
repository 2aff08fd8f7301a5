----------------------------- MODULE RequestsProofs -----------------------------
(***************************************************************************)
(* Proofs about JsonMini and Requests: for every object whose names are    *)
(* plain words, whatever its strings hold and however it is spaced, the    *)
(* search of json-mini.c finds in its text what the object has.            *)
(***************************************************************************)
EXTENDS Requests, SequenceTheorems, FiniteSetTheorems, NaturalsInduction, WellFoundedInduction, TLAPS

(***************************************************************************)
(* Sequences.                                                              *)
(***************************************************************************)
LEMMA LeastExists ==
  ASSUME NEW S \in SUBSET Nat, S # {}
  PROVE \E n \in S : \A m \in S : n <= m
  <1> DEFINE R == OpToRel(<, Nat)
  <1>1. IsWellFoundedOn(R, Nat)
    BY NatLessThanWellFounded
  <1>2. ASSUME NEW m \in Nat, NEW n \in Nat, m < n PROVE <<m, n>> \in R
    BY <1>2 DEF OpToRel
  <1> HIDE DEF R
  <1>3. PICK n \in S : \A m \in S : ~(<<m, n>> \in R)
    BY <1>1, WFMin
  <1>4. ASSUME NEW m \in S PROVE n <= m
    <2>1. ~(<<m, n>> \in R) /\ m \in Nat /\ n \in Nat
      BY <1>3
    <2>2. ~(m < n)
      BY <2>1, <1>2
    <2> QED BY <2>1, <2>2
  <1> QED BY <1>3, <1>4

LEMMA MinIs ==
  ASSUME NEW S \in SUBSET Int, NEW m \in S, \A n \in S : m <= n
  PROVE Min(S) = m
  <1>1. \A x \in S : (\A y \in S : x =< y) => x = m
    OBVIOUS
  <1> QED BY <1>1 DEF Min

\* Where the two parts of a concatenation stand.
LEMMA Cat ==
  ASSUME NEW T, NEW s \in Seq(T), NEW t \in Seq(T)
  PROVE /\ s \o t \in Seq(T)
        /\ Len(s) \in Nat /\ Len(t) \in Nat /\ Len(s \o t) = Len(s) + Len(t)
        /\ \A i \in 1 .. Len(s) : (s \o t)[i] = s[i]
        /\ \A i \in 1 .. Len(t) : (s \o t)[Len(s) + i] = t[i]
  BY ConcatProperties, LenProperties

\* The loop of FlattenSeq, up to part n.
Flats(seqs, n, f) ==
  \A m \in 1 .. n : f[m] = IF m = 1 THEN seqs[m] ELSE f[m - 1] \o seqs[m]

\* s holds the first n parts one after the other, part m after the first at[m] elements.
Laid(seqs, n, at, s) ==
  /\ at \in [1 .. n + 1 -> Nat] /\ at[1] = 0 /\ Len(s) = at[n + 1]
  /\ \A m \in 1 .. n : at[m + 1] = at[m] + Len(seqs[m])
  /\ \A m \in 1 .. n : \A k \in 1 .. Len(seqs[m]) : at[m] + k \in 1 .. Len(s) /\ s[at[m] + k] = seqs[m][k]
  /\ \A i \in 1 .. Len(s) : \E m \in 1 .. n : \E k \in 1 .. Len(seqs[m]) : i = at[m] + k

LEMMA LaidFirst ==
  ASSUME NEW T, NEW seqs \in Seq(Seq(T)), 1 <= Len(seqs)
  PROVE Laid(seqs, 1, [k \in 1 .. 2 |-> IF k = 1 THEN 0 ELSE Len(seqs[1])], seqs[1])
  <1> DEFINE at == [k \in 1 .. 2 |-> IF k = 1 THEN 0 ELSE Len(seqs[1])]
  <1>1. Len(seqs) \in Nat /\ seqs[1] \in Seq(T) /\ Len(seqs[1]) \in Nat
    BY LenProperties, ElementOfSeq
  <1>2. at \in [1 .. 2 -> Nat] /\ at[1] = 0 /\ at[2] = Len(seqs[1]) /\ 1 + 1 = 2
    BY <1>1
  <1> HIDE DEF at
  <1>3. \A m \in 1 .. 1 : m = 1
    OBVIOUS
  <1>4. \A k \in 1 .. Len(seqs[1]) : 0 + k = k
    BY <1>1
  <1>5. Laid(seqs, 1, at, seqs[1])
    BY <1>1, <1>2, <1>3, <1>4 DEF Laid
  <1> QED BY <1>5 DEF at

LEMMA LaidNext ==
  ASSUME NEW T, NEW seqs \in Seq(Seq(T)), NEW n \in Nat, n + 1 <= Len(seqs),
         NEW at, NEW s \in Seq(T), Laid(seqs, n, at, s)
  PROVE Laid(seqs, n + 1,
             [k \in 1 .. n + 2 |-> IF k = n + 2 THEN Len(s) + Len(seqs[n + 1]) ELSE at[k]],
             s \o seqs[n + 1])
  <1> DEFINE part == seqs[n + 1]
             bt == [k \in 1 .. n + 2 |-> IF k = n + 2 THEN Len(s) + Len(part) ELSE at[k]]
             t == s \o part
  <1>1. Len(seqs) \in Nat /\ part \in Seq(T) /\ \A m \in 1 .. n : m \in 1 .. n + 1 /\ seqs[m] \in Seq(T) /\ Len(seqs[m]) \in Nat
    <2>1. Len(seqs) \in Nat
      BY LenProperties
    <2>2. \A m \in 1 .. n + 1 : seqs[m] \in Seq(T)
      BY <2>1, ElementOfSeq
    <2> QED BY <2>1, <2>2, LenProperties
  <1> HIDE DEF part
  <1>2. /\ t \in Seq(T)
        /\ Len(s) \in Nat /\ Len(part) \in Nat /\ Len(t) = Len(s) + Len(part)
        /\ \A i \in 1 .. Len(s) : t[i] = s[i]
        /\ \A i \in 1 .. Len(part) : t[Len(s) + i] = part[i]
    BY <1>1, Cat
  <1> HIDE DEF t
  <1>3. /\ at \in [1 .. n + 1 -> Nat] /\ at[1] = 0 /\ Len(s) = at[n + 1]
        /\ \A m \in 1 .. n : at[m + 1] = at[m] + Len(seqs[m])
        /\ \A m \in 1 .. n : \A k \in 1 .. Len(seqs[m]) : at[m] + k \in 1 .. Len(s) /\ s[at[m] + k] = seqs[m][k]
        /\ \A i \in 1 .. Len(s) : \E m \in 1 .. n : \E k \in 1 .. Len(seqs[m]) : i = at[m] + k
    BY DEF Laid
  <1>4. /\ bt \in [1 .. n + 1 + 1 -> Nat] /\ bt[n + 1 + 1] = Len(s) + Len(part)
        /\ \A k \in 1 .. n + 1 : bt[k] = at[k]
    BY <1>2, <1>3
  <1> HIDE DEF bt
  <1>5. bt[1] = 0 /\ bt[n + 1] = Len(s)
    <2>1. 1 \in 1 .. n + 1 /\ n + 1 \in 1 .. n + 1
      OBVIOUS
    <2> QED BY <1>3, <1>4, <2>1
  <1>6. ASSUME NEW m \in 1 .. n + 1
        PROVE /\ bt[m + 1] = bt[m] + Len(seqs[m])
              /\ \A k \in 1 .. Len(seqs[m]) : bt[m] + k \in 1 .. Len(t) /\ t[bt[m] + k] = seqs[m][k]
    <2>1. CASE m = n + 1
      <3>1. seqs[m] = part /\ bt[m] = Len(s) /\ bt[m + 1] = Len(s) + Len(part)
        BY <1>4, <1>5, <2>1 DEF part
      <3>2. \A k \in 1 .. Len(part) : Len(s) + k \in 1 .. Len(t)
        BY <1>2
      <3> QED BY <1>2, <3>1, <3>2
    <2>2. CASE m # n + 1
      <3>1. m \in 1 .. n /\ m + 1 \in 1 .. n + 1
        BY <2>2
      <3>2. bt[m] = at[m] /\ bt[m + 1] = at[m + 1] /\ at[m] \in Nat /\ at[m + 1] \in Nat
        BY <1>3, <1>4, <3>1
      <3>3. Len(seqs[m]) \in Nat /\ at[m + 1] = at[m] + Len(seqs[m])
        BY <1>1, <1>3, <3>1
      <3>5. \A k \in 1 .. Len(seqs[m]) : at[m] + k \in 1 .. Len(s) /\ s[at[m] + k] = seqs[m][k]
        BY <1>3, <3>1
      <3>6. \A k \in 1 .. Len(seqs[m]) : bt[m] + k \in 1 .. Len(t) /\ t[bt[m] + k] = seqs[m][k]
        <4>1. \A i \in 1 .. Len(s) : i \in 1 .. Len(t) /\ t[i] = s[i]
          BY <1>2
        <4> QED BY <3>2, <3>5, <4>1
      <3> QED BY <3>2, <3>3, <3>6
    <2> QED BY <2>1, <2>2
  <1>7. ASSUME NEW i \in 1 .. Len(t)
        PROVE \E m \in 1 .. n + 1 : \E k \in 1 .. Len(seqs[m]) : i = bt[m] + k
    <2>1. CASE i \in 1 .. Len(s)
      <3>1. PICK m \in 1 .. n : \E k \in 1 .. Len(seqs[m]) : i = at[m] + k
        BY <1>3, <2>1
      <3>2. m \in 1 .. n + 1 /\ bt[m] = at[m]
        BY <1>4
      <3> QED BY <3>1, <3>2
    <2>2. CASE ~(i \in 1 .. Len(s))
      <3>1. i - Len(s) \in 1 .. Len(seqs[n + 1]) /\ i = bt[n + 1] + (i - Len(s))
        BY <1>2, <1>5, <2>2 DEF part
      <3>2. n + 1 \in 1 .. n + 1
        OBVIOUS
      <3> QED BY <3>1, <3>2
    <2> QED BY <2>1, <2>2
  <1>8. Laid(seqs, n + 1, bt, t)
    BY <1>2, <1>4, <1>5, <1>6, <1>7 DEF Laid
  <1> QED BY <1>8 DEF bt, t, part

LEMMA FlatsExist ==
  ASSUME NEW T, NEW seqs \in Seq(Seq(T)), NEW n \in 1 .. Len(seqs)
  PROVE \E f, at : f \in [1 .. n -> Seq(T)] /\ Flats(seqs, n, f) /\ Laid(seqs, n, at, f[n])
  <1> DEFINE P(m, f, at) == f \in [1 .. m -> Seq(T)] /\ Flats(seqs, m, f) /\ Laid(seqs, m, at, f[m])
             Bad == {m \in 1 .. Len(seqs) : ~\E f, at : P(m, f, at)}
  <1>1. Len(seqs) \in Nat /\ \A m \in 1 .. Len(seqs) : seqs[m] \in Seq(T)
    BY LenProperties, ElementOfSeq
  <1> SUFFICES ASSUME Bad # {} PROVE FALSE
    OBVIOUS
  <1>2. Bad \in SUBSET Nat
    BY <1>1
  <1>3. PICK m \in Bad : \A k \in Bad : m <= k
    BY <1>2, LeastExists
  <1>4. m \in 1 .. Len(seqs) /\ ~\E f, at : P(m, f, at)
    BY <1>3
  <1>5. CASE m = 1
    <2> DEFINE f == [k \in 1 .. 1 |-> seqs[1]]
    <2>0. 1 <= Len(seqs) /\ seqs[1] \in Seq(T)
      BY <1>1, <1>4, <1>5
    <2>1. f \in [1 .. 1 -> Seq(T)] /\ f[1] = seqs[1] /\ \A k \in 1 .. 1 : k = 1
      BY <2>0
    <2> HIDE DEF f
    <2>2. Flats(seqs, 1, f)
      BY <2>1 DEF Flats
    <2>3. \E at : Laid(seqs, 1, at, f[1])
      BY <2>0, <2>1, LaidFirst
    <2> QED BY <1>4, <1>5, <2>1, <2>2, <2>3
  <1>6. CASE m # 1
    <2>1. /\ m - 1 \in 1 .. Len(seqs) /\ ~(m <= m - 1) /\ m - 1 \in Nat /\ (m - 1) + 1 = m
          /\ m <= Len(seqs)
      BY <1>1, <1>4, <1>6
    <2>2. PICK f, at : P(m - 1, f, at)
      BY <1>3, <2>1
    <2> DEFINE g == [k \in 1 .. m |-> IF k = m THEN f[m - 1] \o seqs[m] ELSE f[k]]
    <2>3. f[m - 1] \in Seq(T) /\ f[m - 1] \o seqs[m] \in Seq(T)
      <3>1. m - 1 \in 1 .. m - 1
        BY <2>1
      <3> QED BY <1>1, <1>4, <2>2, <3>1, Cat
    <2>4. /\ g \in [1 .. m -> Seq(T)] /\ g[m] = f[m - 1] \o seqs[m]
          /\ \A k \in 1 .. m : k # m => g[k] = f[k]
      <3>1. m \in 1 .. m /\ \A k \in 1 .. m : k # m => k \in 1 .. m - 1
        BY <2>1
      <3> QED BY <2>2, <2>3, <3>1
    <2> HIDE DEF g
    <2>5. \E bt : Laid(seqs, m, bt, f[m - 1] \o seqs[m])
      <3>1. \E bt : Laid(seqs, (m - 1) + 1, bt, f[m - 1] \o seqs[(m - 1) + 1])
        <4>1. Laid(seqs, m - 1, at, f[m - 1]) /\ (m - 1) + 1 <= Len(seqs) /\ m - 1 \in Nat /\ f[m - 1] \in Seq(T)
          BY <2>1, <2>2, <2>3
        <4> QED BY <4>1, LaidNext
      <3> QED BY <2>1, <3>1
    <2>6. ASSUME NEW k \in 1 .. m PROVE g[k] = IF k = 1 THEN seqs[k] ELSE g[k - 1] \o seqs[k]
      <3>1. CASE k = m
        <4>1. g[m - 1] = f[m - 1]
          BY <2>1, <2>4
        <4> QED BY <1>6, <2>4, <3>1, <4>1
      <3>2. CASE k # m
        <4>1. k \in 1 .. m - 1 /\ (k # 1 => k - 1 \in 1 .. m /\ k - 1 # m)
          BY <2>1, <3>2
        <4>2. f[k] = IF k = 1 THEN seqs[k] ELSE f[k - 1] \o seqs[k]
          BY <2>2, <4>1 DEF Flats
        <4> QED BY <2>4, <3>2, <4>1, <4>2
      <3> QED BY <3>1, <3>2
    <2>7. Flats(seqs, m, g)
      BY <2>6 DEF Flats
    <2> QED BY <1>4, <2>4, <2>3, <2>5, <2>7
  <1> QED BY <1>5, <1>6

\* FlattenSeq lays the parts one after the other.
LEMMA Flattened ==
  ASSUME NEW T, NEW seqs \in Seq(Seq(T))
  PROVE FlattenSeq(seqs) \in Seq(T) /\ \E at : Laid(seqs, Len(seqs), at, FlattenSeq(seqs))
  <1>0. CASE Len(seqs) = 0
    <2>1. FlattenSeq(seqs) = <<>> /\ <<>> \in Seq(T) /\ Len(<<>>) = 0
      BY <1>0, EmptySeq DEF FlattenSeq
    <2>2. Laid(seqs, 0, [k \in 1 .. 1 |-> 0], <<>>)
      <3> DEFINE at == [k \in 1 .. 1 |-> 0]
      <3>1. at \in [1 .. 0 + 1 -> Nat] /\ at[1] = 0 /\ at[0 + 1] = 0
        OBVIOUS
      <3> HIDE DEF at
      <3>2. Laid(seqs, 0, at, <<>>)
        BY <2>1, <3>1 DEF Laid
      <3> QED BY <3>2 DEF at
    <2> QED BY <1>0, <2>1, <2>2
  <1> SUFFICES ASSUME Len(seqs) # 0
               PROVE FlattenSeq(seqs) \in Seq(T) /\ \E at : Laid(seqs, Len(seqs), at, FlattenSeq(seqs))
    BY <1>0
  <1> DEFINE Step(f, n) == IF n = 1 THEN seqs[n] ELSE f[n - 1] \o seqs[n]
             flatten == CHOOSE f : f = [n \in 1 .. Len(seqs) |-> Step(f, n)]
  <1>1. FlattenSeq(seqs) = flatten[Len(seqs)]
    BY DEF FlattenSeq
  <1>2. Len(seqs) \in Nat /\ Len(seqs) \in 1 .. Len(seqs)
    BY LenProperties
  <1>3. PICK f, at : /\ f \in [1 .. Len(seqs) -> Seq(T)] /\ Flats(seqs, Len(seqs), f)
                     /\ Laid(seqs, Len(seqs), at, f[Len(seqs)])
    BY <1>2, FlatsExist
  <1>4. f = [n \in 1 .. Len(seqs) |-> Step(f, n)]
    BY <1>3 DEF Flats
  <1>5. flatten = [n \in 1 .. Len(seqs) |-> Step(flatten, n)]
    BY <1>4
  <1>6. /\ \A n \in 1 .. Len(seqs) : f[n] = Step(f, n)
        /\ \A n \in 1 .. Len(seqs) : flatten[n] = Step(flatten, n)
    BY <1>3, <1>5 DEF Flats
  <1> HIDE DEF flatten
  <1>7. flatten[Len(seqs)] = f[Len(seqs)]
    <2> DEFINE Differ == {n \in 1 .. Len(seqs) : flatten[n] # f[n]}
    <2> SUFFICES ASSUME Differ # {} PROVE FALSE
      BY <1>2
    <2>1. Differ \in SUBSET Nat
      BY <1>2
    <2>2. PICK n \in Differ : \A k \in Differ : n <= k
      BY <2>1, LeastExists
    <2>3. CASE n = 1
      BY <1>6, <2>2, <2>3
    <2>4. CASE n # 1
      <3>1. n - 1 \in 1 .. Len(seqs) /\ ~(n <= n - 1)
        BY <1>2, <2>2, <2>4
      <3>2. flatten[n - 1] = f[n - 1]
        BY <2>2, <3>1
      <3> QED BY <1>6, <2>2, <2>4, <3>2
    <2> QED BY <2>3, <2>4
  <1> QED BY <1>1, <1>2, <1>3, <1>7

(***************************************************************************)
(* Texts.                                                                  *)
(***************************************************************************)
\* A name is a plain word: none of the tokens that give a text its form.
Marks == {"open", "close", "comma", Quote, Backslash, Colon, Space, End}
Alphabet(T) == Marks \cup DOMAIN Numerals \subseteq T
Words(T) == T \ Marks
Members(T) ==
  [key : Words(T), string : {TRUE}, value : Seq(T \ {End})]
    \cup [key : Words(T), string : {FALSE}, value : {<<n>> : n \in DOMAIN Numerals}]

LEMMA TokenFacts ==
  /\ \A t \in DOMAIN Numerals : t \notin Marks /\ IsNumeral(t)
  /\ ~IsNumeral(Quote)
  /\ Quote # Backslash /\ Quote # Colon /\ Quote # Space /\ Quote # End /\ Quote # "open"
  /\ Quote # "close" /\ Quote # "comma" /\ Backslash # "open" /\ Backslash # "comma" /\ Backslash # "close"
  /\ Colon # Space /\ Colon # "close" /\ Colon # "comma" /\ Space # "close" /\ Space # "comma" /\ Space # "open"
  /\ Backslash # Space /\ Backslash # Colon /\ Backslash # End /\ Colon # "open" /\ Space # End
  BY DEF Marks, Quote, Backslash, Colon, Space, End, Numerals, IsNumeral

\* The characters of a string, and between them no quote that is not escaped.
LEMMA EscapeFacts ==
  ASSUME NEW T, Alphabet(T), NEW t \in T
  PROVE /\ Escape(t) \in Seq(T)
        /\ t \in {Quote, Backslash} => Len(Escape(t)) = 2 /\ Escape(t)[1] = Backslash /\ Escape(t)[2] = t
        /\ t \notin {Quote, Backslash} => Len(Escape(t)) = 1 /\ Escape(t)[1] = t
  <1>1. Backslash \in T
    BY DEF Alphabet, Marks
  <1> QED BY <1>1 DEF Escape

\* Where each character of a string stands in its quotes.
Spelt(T, value, at, q) ==
  /\ q \in Seq(T) /\ at \in [1 .. Len(value) + 1 -> Nat] /\ at[1] = 0 /\ Len(q) = at[Len(value) + 1] + 2
  /\ q[1] = Quote /\ q[Len(q)] = Quote
  /\ \A m \in 1 .. Len(value) :
       /\ at[m + 1] + 2 <= Len(q)
       /\ IF value[m] \in {Quote, Backslash}
            THEN at[m + 1] = at[m] + 2 /\ q[at[m] + 2] = Backslash /\ q[at[m] + 3] = value[m]
            ELSE at[m + 1] = at[m] + 1 /\ q[at[m] + 2] = value[m]
  /\ \A i \in 2 .. Len(q) - 1 : q[i] = Quote => q[i - 1] = Backslash

LEMMA QuotedFacts ==
  ASSUME NEW T, Alphabet(T), NEW value \in Seq(T)
  PROVE \E at : Spelt(T, value, at, Quoted(value))
  <1> DEFINE parts == [i \in DOMAIN value |-> Escape(value[i])]
             s == FlattenSeq(parts)
  <1>1. Len(value) \in Nat /\ DOMAIN value = 1 .. Len(value) /\ \A m \in 1 .. Len(value) : value[m] \in T
    BY LenProperties, ElementOfSeq
  <1>2. /\ parts \in Seq(Seq(T)) /\ Len(parts) = Len(value)
        /\ \A m \in 1 .. Len(value) : parts[m] = Escape(value[m])
    <2>1. \A m \in 1 .. Len(value) : Escape(value[m]) \in Seq(T)
      BY <1>1, EscapeFacts
    <2>2. parts \in [1 .. Len(value) -> Seq(T)]
      BY <1>1, <2>1
    <2> QED BY <1>1, <2>2, IsASeq
  <1> HIDE DEF parts
  <1>3. s \in Seq(T) /\ \E at : Laid(parts, Len(value), at, s)
    BY <1>2, Flattened
  <1>4. PICK at : Laid(parts, Len(value), at, s)
    BY <1>3
  <1> HIDE DEF s
  <1> DEFINE q == (<<Quote>> \o s) \o <<Quote>>
  <1>5. Quoted(value) = q
    BY DEF Quoted, s, parts
  <1>6. /\ q \in Seq(T) /\ Len(s) \in Nat /\ Len(q) = Len(s) + 2 /\ q[1] = Quote /\ q[Len(s) + 2] = Quote
        /\ \A i \in 1 .. Len(s) : q[i + 1] = s[i]
    <2>1. <<Quote>> \in Seq(T) /\ Len(<<Quote>>) = 1 /\ <<Quote>>[1] = Quote
      BY DEF Alphabet, Marks
    <2>2. /\ <<Quote>> \o s \in Seq(T) /\ Len(s) \in Nat /\ Len(<<Quote>> \o s) = 1 + Len(s)
          /\ (<<Quote>> \o s)[1] = Quote /\ \A i \in 1 .. Len(s) : (<<Quote>> \o s)[1 + i] = s[i]
      BY <1>3, <2>1, Cat
    <2>3. /\ q \in Seq(T) /\ Len(q) = Len(<<Quote>> \o s) + 1
          /\ \A i \in 1 .. Len(<<Quote>> \o s) : q[i] = (<<Quote>> \o s)[i]
          /\ q[Len(<<Quote>> \o s) + 1] = Quote
      <3>1. 1 \in 1 .. 1
        OBVIOUS
      <3> QED BY <2>1, <2>2, <3>1, Cat
    <2> QED BY <2>2, <2>3
  <1> HIDE DEF q
  <1>7. /\ at \in [1 .. Len(value) + 1 -> Nat] /\ at[1] = 0 /\ Len(s) = at[Len(value) + 1]
        /\ \A m \in 1 .. Len(value) : at[m + 1] = at[m] + Len(parts[m])
        /\ \A m \in 1 .. Len(value) : \A k \in 1 .. Len(parts[m]) : at[m] + k \in 1 .. Len(s) /\ s[at[m] + k] = parts[m][k]
        /\ \A i \in 1 .. Len(s) : \E m \in 1 .. Len(value) : \E k \in 1 .. Len(parts[m]) : i = at[m] + k
    BY <1>4 DEF Laid
  <1>8. ASSUME NEW m \in 1 .. Len(value)
        PROVE /\ at[m] \in Nat
              /\ value[m] \in {Quote, Backslash} =>
                   /\ Len(parts[m]) = 2 /\ at[m + 1] = at[m] + 2 /\ at[m] + 2 \in 1 .. Len(s) /\ at[m] + 1 \in 1 .. Len(s)
                   /\ s[at[m] + 1] = Backslash /\ s[at[m] + 2] = value[m]
              /\ value[m] \notin {Quote, Backslash} =>
                   /\ Len(parts[m]) = 1 /\ at[m + 1] = at[m] + 1 /\ at[m] + 1 \in 1 .. Len(s) /\ s[at[m] + 1] = value[m]
    <2>1. at[m] \in Nat
      <3>1. m \in 1 .. Len(value) + 1
        BY <1>1
      <3> QED BY <1>7, <3>1
    <2>2. /\ at[m + 1] = at[m] + Len(parts[m])
          /\ \A k \in 1 .. Len(parts[m]) : at[m] + k \in 1 .. Len(s) /\ s[at[m] + k] = parts[m][k]
      BY <1>7
    <2>3. parts[m] = Escape(value[m]) /\ value[m] \in T
      BY <1>1, <1>2
    <2>4. CASE value[m] \in {Quote, Backslash}
      <3>1. Len(parts[m]) = 2 /\ parts[m][1] = Backslash /\ parts[m][2] = value[m]
        BY <2>3, <2>4, EscapeFacts
      <3> QED BY <2>1, <2>2, <2>4, <3>1
    <2>5. CASE value[m] \notin {Quote, Backslash}
      <3>1. Len(parts[m]) = 1 /\ parts[m][1] = value[m]
        BY <2>3, <2>5, EscapeFacts
      <3> QED BY <2>1, <2>2, <2>5, <3>1
    <2> QED BY <2>4, <2>5
  <1>9. ASSUME NEW m \in 1 .. Len(value)
        PROVE /\ at[m + 1] + 2 <= Len(q)
              /\ IF value[m] \in {Quote, Backslash}
                   THEN at[m + 1] = at[m] + 2 /\ q[at[m] + 2] = Backslash /\ q[at[m] + 3] = value[m]
                   ELSE at[m + 1] = at[m] + 1 /\ q[at[m] + 2] = value[m]
    <2>1. at[m] \in Nat
      BY <1>8
    <2>2. CASE value[m] \in {Quote, Backslash}
      <3>1. q[(at[m] + 1) + 1] = s[at[m] + 1] /\ q[(at[m] + 2) + 1] = s[at[m] + 2]
        BY <1>6, <1>8, <2>2
      <3>2. (at[m] + 1) + 1 = at[m] + 2 /\ (at[m] + 2) + 1 = at[m] + 3
        BY <2>1
      <3>3. at[m + 1] + 2 <= Len(q) /\ at[m + 1] = at[m] + 2
        BY <1>6, <1>8, <2>1, <2>2
      <3>4. q[at[m] + 2] = Backslash /\ q[at[m] + 3] = value[m]
        BY <1>8, <2>2, <3>1, <3>2
      <3> QED BY <2>2, <3>3, <3>4
    <2>3. CASE value[m] \notin {Quote, Backslash}
      <3>1. q[(at[m] + 1) + 1] = s[at[m] + 1] /\ (at[m] + 1) + 1 = at[m] + 2
        BY <1>6, <1>8, <2>1, <2>3
      <3> QED BY <1>6, <1>8, <2>1, <2>3, <3>1
    <2> QED BY <2>2, <2>3
  <1>10. ASSUME NEW i \in 2 .. Len(q) - 1, q[i] = Quote PROVE q[i - 1] = Backslash
    <2>1. i - 1 \in 1 .. Len(s) /\ (i - 1) + 1 = i
      BY <1>6
    <2>2. s[i - 1] = Quote
      BY <1>6, <1>10, <2>1
    <2>3. PICK m \in 1 .. Len(value) : \E k \in 1 .. Len(parts[m]) : i - 1 = at[m] + k
      BY <1>7, <2>1
    <2>4. PICK k \in 1 .. Len(parts[m]) : i - 1 = at[m] + k
      BY <2>3
    <2>5. value[m] = Quote /\ k = 2
      <3>1. CASE value[m] \in {Quote, Backslash}
        <4>0. Len(parts[m]) = 2
          BY <1>8, <3>1
        <4>1. k = 1 \/ k = 2
          BY <2>4, <4>0
        <4> QED BY <1>8, <2>2, <2>4, <3>1, <4>1, TokenFacts
      <3>2. CASE value[m] \notin {Quote, Backslash}
        <4>0. Len(parts[m]) = 1
          BY <1>8, <3>2
        <4>1. k = 1
          BY <2>4, <4>0
        <4> QED BY <1>8, <2>2, <2>4, <3>2, <4>1
      <3> QED BY <3>1, <3>2
    <2>6. i - 1 = (at[m] + 1) + 1 /\ at[m] + 1 \in 1 .. Len(s) /\ s[at[m] + 1] = Backslash
      BY <1>8, <2>4, <2>5
    <2> QED BY <1>6, <2>6
  <1>11. Spelt(T, value, at, q)
    BY <1>6, <1>7, <1>9, <1>10 DEF Spelt
  <1> QED BY <1>5, <1>11

\* A member's value as it is written.
Written(m) == IF m.string THEN Quoted(m.value) ELSE m.value

LEMMA MemberTypes ==
  ASSUME NEW T, Alphabet(T), NEW m \in Members(T)
  PROVE /\ m.key \in T /\ m.key \notin Marks /\ m.string \in BOOLEAN
        /\ Written(m) \in Seq(T) /\ Len(Written(m)) \in Nat /\ Len(Written(m)) > 0
        /\ m.string => m.value \in Seq(T \ {End}) /\ m.value \in Seq(T) /\ Written(m)[1] = Quote
        /\ ~m.string => /\ m.value[1] \in DOMAIN Numerals
                        /\ Len(Written(m)) = 1 /\ Written(m)[1] = m.value[1]
  <1>1. CASE m.string
    <2>1. m.key \in T \ Marks /\ m.string = TRUE /\ m.value \in Seq(T \ {End})
      BY <1>1 DEF Members, Words
    <2>2. m.value \in Seq(T)
      <3>1. T \ {End} \subseteq T
        OBVIOUS
      <3> QED BY <2>1, <3>1, SeqMonotonic
    <2>3. PICK at : Spelt(T, m.value, at, Quoted(m.value))
      BY <2>2, QuotedFacts
    <2>4. /\ Quoted(m.value) \in Seq(T) /\ Len(Quoted(m.value)) = at[Len(m.value) + 1] + 2 /\ at[Len(m.value) + 1] \in Nat
          /\ Quoted(m.value)[1] = Quote
      <3>1. Len(m.value) \in Nat /\ Len(m.value) + 1 \in 1 .. Len(m.value) + 1
        BY <2>2, LenProperties
      <3> QED BY <2>3, <3>1 DEF Spelt
    <2> QED BY <1>1, <2>1, <2>2, <2>4 DEF Written
  <1>2. CASE ~m.string
    <2>1. m.key \in T \ Marks /\ m.string = FALSE /\ \E n \in DOMAIN Numerals : m.value = <<n>>
      BY <1>2 DEF Members, Words
    <2>2. PICK n \in DOMAIN Numerals : m.value = <<n>>
      BY <2>1
    <2>3. n \in T
      BY DEF Alphabet
    <2>4. m.value[1] = n /\ Len(m.value) = 1 /\ m.value \in Seq(T)
      BY <2>2, <2>3
    <2>5. Written(m) = m.value
      BY <1>2 DEF Written
    <2>6. /\ Written(m) \in Seq(T) /\ Len(Written(m)) = 1 /\ Written(m)[1] = m.value[1]
          /\ m.value[1] \in DOMAIN Numerals
      BY <2>2, <2>4, <2>5
    <2>7. m.key \in T /\ m.key \notin Marks /\ m.string \in BOOLEAN
      BY <2>1
    <2>8. Len(Written(m)) \in Nat /\ Len(Written(m)) > 0
      BY <2>6
    <2> QED BY <1>2, <2>6, <2>7, <2>8
  <1> QED BY <1>1, <1>2

\* A member and the mark after it, with `width` spaces on either side of the colon.
Stands(m, width, t, mark) ==
  /\ Len(t) = Len(Written(m)) + 2 * width + 5
  /\ t[1] = Quote /\ t[2] = m.key /\ t[3] = Quote /\ t[4 + width] = Colon /\ t[Len(t)] = mark
  /\ \A k \in 1 .. width : t[3 + k] = Space /\ t[4 + width + k] = Space
  /\ \A k \in 1 .. Len(Written(m)) : t[4 + 2 * width + k] = Written(m)[k]

LEMMA MemberStands ==
  ASSUME NEW T, Alphabet(T), NEW m \in Members(T), NEW pad \in Seq({Space}), NEW mark \in {"close", "comma"}
  PROVE /\ MemberText(m, pad) \o <<mark>> \in Seq(T)
        /\ Stands(m, Len(pad), MemberText(m, pad) \o <<mark>>, mark)
  <1>1. /\ {Quote, Colon, Space, mark, m.key} \subseteq T
        /\ m.key \notin Marks /\ Written(m) \in Seq(T) /\ Len(Written(m)) \in Nat
    <2>1. {Quote, Colon, Space, mark} \subseteq T
      BY DEF Alphabet, Marks
    <2>2. m.key \in T /\ m.key \notin Marks /\ Written(m) \in Seq(T) /\ Len(Written(m)) \in Nat
      BY MemberTypes
    <2> QED BY <2>1, <2>2
  <1>2. pad \in Seq(T) /\ Len(pad) \in Nat /\ \A k \in 1 .. Len(pad) : pad[k] = Space
    <2>1. {Space} \subseteq T
      BY <1>1
    <2> QED BY <2>1, SeqMonotonic, LenProperties, ElementOfSeq
  <1> DEFINE s1 == <<Quote, m.key, Quote>>
  <1>3. Quoted(<<m.key>>) = s1
    <2>1. Escape(m.key) = <<m.key>>
      BY <1>1 DEF Marks, Escape
    <2> DEFINE parts == [i \in DOMAIN <<m.key>> |-> Escape(<<m.key>>[i])]
    <2>2. parts = <<<<m.key>>>>
      BY <2>1
    <2>3. parts \in Seq(Seq(T)) /\ Len(parts) = 1 /\ parts[1] = <<m.key>>
      <3>1. <<m.key>> \in Seq(T)
        BY <1>1
      <3>2. <<<<m.key>>>> \in Seq(Seq(T)) /\ Len(<<<<m.key>>>>) = 1
        BY <3>1
      <3> QED BY <2>2, <3>2
    <2> HIDE DEF parts
    <2>4. PICK at : Laid(parts, 1, at, FlattenSeq(parts))
      BY <2>3, Flattened
    <2>5. FlattenSeq(parts) \in Seq(T)
      BY <2>3, Flattened
    <2>6. Len(FlattenSeq(parts)) = 1 /\ FlattenSeq(parts)[1] = m.key
      <3>1. 1 \in 1 .. 1 /\ at[1] = 0 /\ at[2] = at[1] + Len(parts[1]) /\ Len(FlattenSeq(parts)) = at[1 + 1]
        BY <2>4 DEF Laid
      <3>2. Len(parts[1]) = 1 /\ parts[1][1] = m.key
        BY <2>3
      <3>3. FlattenSeq(parts)[at[1] + 1] = parts[1][1]
        BY <2>4, <3>1, <3>2 DEF Laid
      <3> QED BY <3>1, <3>2, <3>3
    <2>7. FlattenSeq(parts) = <<m.key>>
      BY <2>5, <2>6, SeqEqual
    <2>8. Quoted(<<m.key>>) = <<Quote>> \o <<m.key>> \o <<Quote>>
      BY <2>7 DEF Quoted, parts
    <2> QED BY <1>1, <2>8
  <1>4. s1 \in Seq(T) /\ Len(s1) = 3 /\ s1[1] = Quote /\ s1[2] = m.key /\ s1[3] = Quote
    BY <1>1
  <1>5. /\ <<Colon>> \in Seq(T) /\ Len(<<Colon>>) = 1 /\ <<Colon>>[1] = Colon
        /\ <<mark>> \in Seq(T) /\ Len(<<mark>>) = 1 /\ <<mark>>[1] = mark
    BY <1>1
  <1> HIDE DEF s1
  <1>6. PICK P \in Nat : P = Len(pad)
    BY <1>2
  <1>7. PICK v \in Seq(T) : v = Written(m)
    BY <1>1
  <1>8. PICK V \in Nat : V = Len(v)
    BY <1>1, <1>7
  <1> DEFINE s2 == s1 \o pad
             s3 == s2 \o <<Colon>>
             s4 == s3 \o pad
             s5 == s4 \o v
             s6 == s5 \o <<mark>>
  <1>9. MemberText(m, pad) \o <<mark>> = s6
    BY <1>3, <1>7 DEF MemberText, Written
  <1>10. /\ s2 \in Seq(T) /\ Len(s2) = 3 + P
         /\ \A i \in 1 .. 3 : s2[i] = s1[i]
         /\ \A i \in 1 .. P : s2[3 + i] = Space
    <2>0. s1 \in Seq(T) /\ pad \in Seq(T)
      BY <1>2, <1>4
    <2>1. /\ s2 \in Seq(T) /\ Len(s2) = Len(s1) + Len(pad)
          /\ \A i \in 1 .. Len(s1) : s2[i] = s1[i]
          /\ \A i \in 1 .. Len(pad) : s2[Len(s1) + i] = pad[i]
      BY <2>0, Cat
    <2> QED BY <1>2, <1>4, <1>6, <2>1
  <1> HIDE DEF s2
  <1>11. /\ s3 \in Seq(T) /\ Len(s3) = 4 + P
         /\ \A i \in 1 .. 3 + P : s3[i] = s2[i]
         /\ s3[4 + P] = Colon
    <2>0. s2 \in Seq(T) /\ <<Colon>> \in Seq(T)
      BY <1>5, <1>10
    <2>1. /\ s3 \in Seq(T) /\ Len(s3) = Len(s2) + Len(<<Colon>>)
          /\ \A i \in 1 .. Len(s2) : s3[i] = s2[i]
          /\ \A i \in 1 .. Len(<<Colon>>) : s3[Len(s2) + i] = <<Colon>>[i]
      BY <2>0, Cat
    <2>2. 1 \in 1 .. Len(<<Colon>>) /\ Len(s2) + 1 = 4 + P
      BY <1>5, <1>10
    <2>3. s3[Len(s2) + 1] = Colon
      BY <1>5, <2>1, <2>2
    <2> QED BY <1>5, <1>10, <2>1, <2>2, <2>3
  <1> HIDE DEF s3
  <1>12. /\ s4 \in Seq(T) /\ Len(s4) = 4 + 2 * P
         /\ \A i \in 1 .. 4 + P : s4[i] = s3[i]
         /\ \A i \in 1 .. P : s4[4 + P + i] = Space
    <2>0. s3 \in Seq(T) /\ pad \in Seq(T)
      BY <1>2, <1>11
    <2>1. /\ s4 \in Seq(T) /\ Len(s4) = Len(s3) + Len(pad)
          /\ \A i \in 1 .. Len(s3) : s4[i] = s3[i]
          /\ \A i \in 1 .. Len(pad) : s4[Len(s3) + i] = pad[i]
      BY <2>0, Cat
    <2> QED BY <1>2, <1>6, <1>11, <2>1
  <1> HIDE DEF s4
  <1>13. /\ s5 \in Seq(T) /\ Len(s5) = 4 + 2 * P + V
         /\ \A i \in 1 .. 4 + 2 * P : s5[i] = s4[i]
         /\ \A i \in 1 .. V : s5[4 + 2 * P + i] = v[i]
    <2>0. s4 \in Seq(T) /\ v \in Seq(T)
      BY <1>12
    <2>1. /\ s5 \in Seq(T) /\ Len(s5) = Len(s4) + Len(v)
          /\ \A i \in 1 .. Len(s4) : s5[i] = s4[i]
          /\ \A i \in 1 .. Len(v) : s5[Len(s4) + i] = v[i]
      BY <2>0, Cat
    <2> QED BY <1>8, <1>12, <2>1
  <1> HIDE DEF s5
  <1>14. /\ s6 \in Seq(T) /\ Len(s6) = 5 + 2 * P + V
         /\ \A i \in 1 .. 4 + 2 * P + V : s6[i] = s5[i]
         /\ s6[5 + 2 * P + V] = mark
    <2>0. s5 \in Seq(T) /\ <<mark>> \in Seq(T)
      BY <1>5, <1>13
    <2>1. /\ s6 \in Seq(T) /\ Len(s6) = Len(s5) + Len(<<mark>>)
          /\ \A i \in 1 .. Len(s5) : s6[i] = s5[i]
          /\ \A i \in 1 .. Len(<<mark>>) : s6[Len(s5) + i] = <<mark>>[i]
      BY <2>0, Cat
    <2>2. 1 \in 1 .. Len(<<mark>>) /\ Len(s5) + 1 = 5 + 2 * P + V
      BY <1>5, <1>13
    <2>3. s6[Len(s5) + 1] = mark
      BY <1>5, <2>1, <2>2
    <2> QED BY <1>5, <1>13, <2>1, <2>2, <2>3
  <1> HIDE DEF s6
  <1>15. \A i \in 1 .. 4 + 2 * P : i \in 1 .. 4 + 2 * P + V /\ s6[i] = s4[i]
    BY <1>13, <1>14
  <1>16. \A i \in 1 .. 4 + P : i \in 1 .. 4 + 2 * P /\ s6[i] = s3[i]
    BY <1>12, <1>15
  <1>17. \A i \in 1 .. 3 + P : i \in 1 .. 4 + P /\ s6[i] = s2[i]
    BY <1>11, <1>16
  <1>18. s6[1] = Quote /\ s6[2] = m.key /\ s6[3] = Quote /\ s6[4 + P] = Colon
    <2>1. s6[1] = s1[1] /\ s6[2] = s1[2] /\ s6[3] = s1[3]
      BY <1>10, <1>17
    <2>2. 4 + P \in 1 .. 4 + P
      OBVIOUS
    <2> QED BY <1>4, <1>11, <1>16, <2>1, <2>2
  <1>19. ASSUME NEW k \in 1 .. P PROVE s6[3 + k] = Space /\ s6[4 + P + k] = Space
    <2>1. 3 + k \in 1 .. 3 + P /\ 4 + P + k \in 1 .. 4 + 2 * P
      OBVIOUS
    <2> QED BY <1>10, <1>12, <1>15, <1>17, <2>1
  <1>20. ASSUME NEW k \in 1 .. V PROVE s6[4 + 2 * P + k] = v[k]
    <2>1. 4 + 2 * P + k \in 1 .. 4 + 2 * P + V
      OBVIOUS
    <2> QED BY <1>13, <1>14, <2>1
  <1>21. Stands(m, P, s6, mark)
    BY <1>7, <1>8, <1>14, <1>18, <1>19, <1>20 DEF Stands
  <1> QED BY <1>6, <1>9, <1>14, <1>21

\* Where an object's members stand in its text, each after at[j] tokens.
MembersStand(T, object, width, at, text) ==
  /\ text \in Seq(T) /\ Len(text) \in Nat /\ text[1] = "open"
  /\ at \in [1 .. Len(object) + 1 -> Nat] /\ at[1] = 1 /\ at[Len(object) + 1] = Len(text)
  /\ \A j \in 1 .. Len(object) :
       /\ at[j + 1] = at[j] + Len(Written(object[j])) + 2 * width + 5 /\ at[j + 1] <= Len(text)
       /\ text[at[j] + 1] = Quote /\ text[at[j] + 2] = object[j].key /\ text[at[j] + 3] = Quote
       /\ text[at[j] + 4 + width] = Colon /\ text[at[j + 1]] \in {"close", "comma"}
       /\ \A k \in 1 .. width : text[at[j] + 3 + k] = Space /\ text[at[j] + 4 + width + k] = Space
       /\ \A k \in 1 .. Len(Written(object[j])) : text[at[j] + 4 + 2 * width + k] = Written(object[j])[k]
  /\ \A i \in 2 .. Len(text) : \E j \in 1 .. Len(object) : at[j] < i /\ i <= at[j + 1]

LEMMA TextStands ==
  ASSUME NEW T, Alphabet(T), NEW object \in Seq(Members(T)), NEW pad \in Seq({Space})
  PROVE \E at : MembersStand(T, object, Len(pad), at, ObjectText(object, pad))
  <1> DEFINE mark(i) == IF i = Len(object) THEN "close" ELSE "comma"
             parts == [i \in DOMAIN object |-> MemberText(object[i], pad) \o <<mark(i)>>]
             s == FlattenSeq(parts)
             text == <<"open">> \o s
  <1>1. /\ Len(object) \in Nat /\ DOMAIN object = 1 .. Len(object)
        /\ \A j \in 1 .. Len(object) : object[j] \in Members(T)
        /\ Len(pad) \in Nat
    BY LenProperties, ElementOfSeq
  <1>2. \A j \in 1 .. Len(object) : mark(j) \in {"close", "comma"}
    OBVIOUS
  <1>3. \A j \in 1 .. Len(object) : /\ MemberText(object[j], pad) \o <<mark(j)>> \in Seq(T)
                                    /\ Stands(object[j], Len(pad), MemberText(object[j], pad) \o <<mark(j)>>, mark(j))
    BY <1>1, <1>2, MemberStands
  <1> HIDE DEF mark
  <1>4. /\ parts \in Seq(Seq(T)) /\ Len(parts) = Len(object)
        /\ \A j \in 1 .. Len(object) : parts[j] = MemberText(object[j], pad) \o <<mark(j)>>
    <2>1. parts \in [1 .. Len(object) -> Seq(T)]
      BY <1>1, <1>3
    <2> QED BY <1>1, <2>1, IsASeq
  <1>5. \A j \in 1 .. Len(object) : Stands(object[j], Len(pad), parts[j], mark(j))
    BY <1>3, <1>4
  <1>6. ObjectText(object, pad) = text
    BY DEF ObjectText, mark
  <1> HIDE DEF parts
  <1>7. s \in Seq(T)
    BY <1>4, Flattened
  <1>8. PICK bt : Laid(parts, Len(object), bt, s)
    BY <1>4, Flattened
  <1> HIDE DEF s
  <1>9. /\ text \in Seq(T) /\ Len(s) \in Nat /\ Len(text) = Len(s) + 1 /\ text[1] = "open"
        /\ \A i \in 1 .. Len(s) : text[i + 1] = s[i]
    <2>1. <<"open">> \in Seq(T) /\ Len(<<"open">>) = 1 /\ <<"open">>[1] = "open"
      BY DEF Alphabet, Marks
    <2>2. /\ text \in Seq(T) /\ Len(s) \in Nat /\ Len(text) = Len(<<"open">>) + Len(s)
          /\ \A i \in 1 .. Len(<<"open">>) : text[i] = <<"open">>[i]
          /\ \A i \in 1 .. Len(s) : text[Len(<<"open">>) + i] = s[i]
      BY <1>7, <2>1, Cat
    <2> QED BY <2>1, <2>2
  <1> HIDE DEF text
  <1>10. /\ bt \in [1 .. Len(object) + 1 -> Nat] /\ bt[1] = 0 /\ Len(s) = bt[Len(object) + 1]
         /\ \A j \in 1 .. Len(object) : bt[j + 1] = bt[j] + Len(parts[j])
         /\ \A j \in 1 .. Len(object) : \A k \in 1 .. Len(parts[j]) : bt[j] + k \in 1 .. Len(s) /\ s[bt[j] + k] = parts[j][k]
         /\ \A i \in 1 .. Len(s) : \E j \in 1 .. Len(object) : \E k \in 1 .. Len(parts[j]) : i = bt[j] + k
    BY <1>8 DEF Laid
  <1> DEFINE at == [j \in 1 .. Len(object) + 1 |-> bt[j] + 1]
  <1>11. at \in [1 .. Len(object) + 1 -> Nat] /\ \A j \in 1 .. Len(object) + 1 : at[j] = bt[j] + 1 /\ bt[j] \in Nat
    BY <1>10
  <1> HIDE DEF at
  <1>12. at[1] = 1 /\ at[Len(object) + 1] = Len(text)
    <2>1. 1 \in 1 .. Len(object) + 1 /\ Len(object) + 1 \in 1 .. Len(object) + 1
      BY <1>1
    <2> QED BY <1>9, <1>10, <1>11, <2>1
  <1>13. PICK width \in Nat : width = Len(pad)
    BY <1>1
  <1>14. ASSUME NEW j \in 1 .. Len(object)
         PROVE /\ at[j + 1] = at[j] + Len(Written(object[j])) + 2 * width + 5 /\ at[j + 1] <= Len(text)
               /\ text[at[j] + 1] = Quote /\ text[at[j] + 2] = object[j].key /\ text[at[j] + 3] = Quote
               /\ text[at[j] + 4 + width] = Colon /\ text[at[j + 1]] \in {"close", "comma"}
               /\ \A k \in 1 .. width : text[at[j] + 3 + k] = Space /\ text[at[j] + 4 + width + k] = Space
               /\ \A k \in 1 .. Len(Written(object[j])) : text[at[j] + 4 + 2 * width + k] = Written(object[j])[k]
    <2>1. PICK w \in Nat : w = Len(Written(object[j]))
      BY <1>1, MemberTypes
    <2>2. PICK p : p = parts[j]
      OBVIOUS
    <2>3. /\ Len(p) = w + 2 * width + 5
          /\ p[1] = Quote /\ p[2] = object[j].key /\ p[3] = Quote /\ p[4 + width] = Colon /\ p[Len(p)] = mark(j)
          /\ \A k \in 1 .. width : p[3 + k] = Space /\ p[4 + width + k] = Space
          /\ \A k \in 1 .. w : p[4 + 2 * width + k] = Written(object[j])[k]
      BY <1>5, <1>13, <2>1, <2>2 DEF Stands
    <2>4. PICK size \in Nat : size = Len(p) /\ size = w + 2 * width + 5
      BY <2>3
    <2>5. at[j] = bt[j] + 1 /\ at[j + 1] = bt[j + 1] + 1 /\ bt[j] \in Nat /\ bt[j + 1] = bt[j] + Len(p)
      <3>1. j \in 1 .. Len(object) + 1 /\ j + 1 \in 1 .. Len(object) + 1
        BY <1>1
      <3> QED BY <1>10, <1>11, <2>2, <3>1
    <2>6. ASSUME NEW k \in 1 .. Len(p) PROVE at[j] + k <= Len(text) /\ text[at[j] + k] = p[k]
      <3>1. bt[j] + k \in 1 .. Len(s) /\ s[bt[j] + k] = p[k]
        BY <1>10, <2>2, <2>6
      <3>2. (bt[j] + k) + 1 = at[j] + k
        BY <2>3, <2>5
      <3> QED BY <1>9, <3>1, <3>2
    <2>7. at[j + 1] = at[j] + (w + 2 * width + 5) /\ at[j] \in Nat
      BY <2>3, <2>5
    <2>8. at[j + 1] <= Len(text) /\ text[at[j + 1]] = mark(j)
      <3>1. Len(p) \in 1 .. Len(p) /\ at[j + 1] = at[j] + Len(p)
        BY <2>4, <2>7
      <3> QED BY <2>3, <2>6, <3>1
    <2>9. text[at[j] + 1] = Quote /\ text[at[j] + 2] = object[j].key /\ text[at[j] + 3] = Quote /\ text[at[j] + 4 + width] = Colon
      <3>1. 1 \in 1 .. Len(p) /\ 2 \in 1 .. Len(p) /\ 3 \in 1 .. Len(p) /\ 4 + width \in 1 .. Len(p)
        BY <2>4
      <3>2. at[j] + (4 + width) = at[j] + 4 + width
        <4>1. at[j] \in Nat
          BY <2>7
        <4> QED BY <4>1
      <3> QED BY <2>3, <2>6, <3>1, <3>2
    <2>10. ASSUME NEW k \in 1 .. width PROVE text[at[j] + 3 + k] = Space /\ text[at[j] + 4 + width + k] = Space
      <3>1. 3 + k \in 1 .. Len(p) /\ 4 + width + k \in 1 .. Len(p)
        <4>1. 3 + k \in 1 .. size /\ 4 + width + k \in 1 .. size
          BY <2>4
        <4> QED BY <2>4, <4>1
      <3>2. at[j] + (3 + k) = at[j] + 3 + k /\ at[j] + (4 + width + k) = at[j] + 4 + width + k
        BY <2>7
      <3>3. p[3 + k] = Space /\ p[4 + width + k] = Space
        BY <2>3
      <3> QED BY <2>6, <3>1, <3>2, <3>3
    <2>11. ASSUME NEW k \in 1 .. w PROVE text[at[j] + 4 + 2 * width + k] = Written(object[j])[k]
      <3>1. 4 + 2 * width + k \in 1 .. Len(p)
        <4>1. 4 + 2 * width + k \in 1 .. size
          BY <2>4
        <4> QED BY <2>4, <4>1
      <3>2. at[j] + (4 + 2 * width + k) = at[j] + 4 + 2 * width + k
        BY <2>7
      <3>3. p[4 + 2 * width + k] = Written(object[j])[k]
        BY <2>3
      <3> QED BY <2>6, <3>1, <3>2, <3>3
    <2>12. mark(j) \in {"close", "comma"}
      BY <1>2
    <2>13. at[j + 1] = at[j] + Len(Written(object[j])) + 2 * width + 5
      <3>1. at[j] \in Nat /\ at[j + 1] = at[j] + (w + 2 * width + 5)
        BY <2>7
      <3>2. at[j] + (w + 2 * width + 5) = at[j] + w + 2 * width + 5
        BY <3>1
      <3> QED BY <2>1, <3>1, <3>2
    <2>14. text[at[j + 1]] \in {"close", "comma"}
      BY <2>8, <2>12
    <2> QED BY <2>1, <2>8, <2>9, <2>10, <2>11, <2>13, <2>14
  <1>15. ASSUME NEW i \in 2 .. Len(text) PROVE \E j \in 1 .. Len(object) : at[j] < i /\ i <= at[j + 1]
    <2>1. i - 1 \in 1 .. Len(s)
      BY <1>9
    <2>2. PICK j \in 1 .. Len(object) : \E k \in 1 .. Len(parts[j]) : i - 1 = bt[j] + k
      BY <1>10, <2>1
    <2>3. PICK k \in 1 .. Len(parts[j]) : i - 1 = bt[j] + k
      BY <2>2
    <2>4. at[j] = bt[j] + 1 /\ at[j + 1] = bt[j + 1] + 1 /\ bt[j] \in Nat /\ bt[j + 1] = bt[j] + Len(parts[j])
      <3>1. j \in 1 .. Len(object) + 1 /\ j + 1 \in 1 .. Len(object) + 1
        BY <1>1
      <3> QED BY <1>10, <1>11, <3>1
    <2>5. PICK size \in Nat : size = Len(parts[j])
      BY <1>4, LenProperties, ElementOfSeq
    <2>6. PICK before \in Nat : before = bt[j]
      BY <2>4
    <2>7. before + 1 < i /\ i <= before + size + 1
      BY <2>3, <2>5, <2>6
    <2>8. at[j] = before + 1 /\ at[j + 1] = before + size + 1
      BY <2>4, <2>5, <2>6
    <2> QED BY <2>7, <2>8
  <1>16. MembersStand(T, object, width, at, text)
    BY <1>9, <1>11, <1>12, <1>14, <1>15 DEF MembersStand
  <1> QED BY <1>6, <1>13, <1>16

(***************************************************************************)
(* The search finds the members of the name, and only those.               *)
(***************************************************************************)
LEMMA AtFacts ==
  ASSUME NEW T, NEW text \in Seq(T)
  PROVE /\ \A i \in 1 .. Len(text) : At(text, i) = text[i]
        /\ \A i : i \notin 1 .. Len(text) => At(text, i) = End
  <1>1. DOMAIN text = 1 .. Len(text)
    BY LenProperties
  <1> QED BY <1>1 DEF At

LEMMA Skips ==
  ASSUME NEW text, Len(text) \in Nat, NEW i \in Nat, NEW n \in Nat, i <= n, n <= Len(text) + 1,
         \A k \in i .. n - 1 : At(text, k) = Space, At(text, n) # Space
  PROVE SkipSpaces(text, i) = n
  <1> DEFINE S == {k \in i .. Len(text) + 1 : At(text, k) # Space}
  <1>1. S \in SUBSET Int /\ n \in S
    OBVIOUS
  <1>2. ASSUME NEW k \in S PROVE n <= k
    <2>1. k \in Int /\ i <= k /\ ~(k \in i .. n - 1)
      BY <1>2
    <2> QED BY <2>1
  <1>3. Min(S) = n
    BY <1>1, <1>2, MinIs
  <1> QED BY <1>3 DEF SkipSpaces

\* The members' offsets and the marks between members.
LEMMA Offsets ==
  ASSUME NEW T, NEW object \in Seq(Members(T)), NEW width \in Nat, NEW at, NEW text,
         MembersStand(T, object, width, at, text)
  PROVE /\ Len(object) \in Nat
        /\ \A j \in 1 .. Len(object) : at[j] \in Nat /\ at[j + 1] \in Nat
        /\ \A j \in 1 .. Len(object) : text[at[j]] \in {"open", "close", "comma"}
        /\ \A j, k \in 1 .. Len(object) : j <= k => at[j] <= at[k]
  <1>1. Len(object) \in Nat
    BY LenProperties
  <1>2. \A j \in 1 .. Len(object) + 1 : at[j] \in Nat
    BY DEF MembersStand
  <1>3. \A j \in 1 .. Len(object) : at[j] \in Nat /\ at[j + 1] \in Nat
    <2> SUFFICES ASSUME NEW j \in 1 .. Len(object) PROVE at[j] \in Nat /\ at[j + 1] \in Nat
      OBVIOUS
    <2>1. j \in 1 .. Len(object) + 1 /\ j + 1 \in 1 .. Len(object) + 1
      BY <1>1
    <2> QED BY <1>2, <2>1
  <1>4. ASSUME NEW j \in 1 .. Len(object) PROVE text[at[j]] \in {"open", "close", "comma"}
    <2>1. CASE j = 1
      BY <2>1 DEF MembersStand
    <2>2. CASE j # 1
      <3>1. j - 1 \in 1 .. Len(object) /\ (j - 1) + 1 = j
        BY <1>1, <2>2
      <3>2. text[at[(j - 1) + 1]] \in {"close", "comma"}
        BY <3>1 DEF MembersStand
      <3> QED BY <3>1, <3>2
    <2> QED BY <2>1, <2>2
  <1>5. ASSUME NEW j \in 1 .. Len(object), NEW k \in 1 .. Len(object), j <= k PROVE at[j] <= at[k]
    <2> DEFINE Bad == {d \in Nat : d <= k - j /\ ~(at[j] <= at[j + d])}
    <2> SUFFICES ASSUME Bad # {} PROVE FALSE
      <3>1. k - j \in Nat /\ j + (k - j) = k
        BY <1>1, <1>5
      <3>2. k - j \notin Bad
        OBVIOUS
      <3> QED BY <3>1, <3>2
    <2>1. PICK d \in Bad : \A e \in Bad : d <= e
      BY LeastExists
    <2>2. d \in Nat /\ d <= k - j /\ ~(at[j] <= at[j + d])
      BY <2>1
    <2>3. at[j] \in Nat
      BY <1>3
    <2>4. d # 0
      <3>1. j + 0 = j
        BY <1>1
      <3> QED BY <2>2, <2>3, <3>1
    <2>5. d - 1 \in Nat /\ d - 1 <= k - j /\ ~(d <= d - 1)
      BY <1>1, <2>2, <2>4
    <2>6. at[j] <= at[j + (d - 1)]
      BY <2>1, <2>5
    <2>7. j + (d - 1) \in 1 .. Len(object) /\ (j + (d - 1)) + 1 = j + d
      BY <1>1, <2>2, <2>5
    <2>8. PICK l \in 1 .. Len(object) : l = j + (d - 1)
      BY <2>7
    <2>9. at[l + 1] = at[l] + Len(Written(object[l])) + 2 * width + 5 /\ at[l] \in Nat /\ at[l + 1] \in Nat
      BY <1>3 DEF MembersStand
    <2>10. at[l] <= at[l + 1]
      <3>1. object[l] \in Members(T)
        BY <1>1, ElementOfSeq
      <3> QED BY <2>9, <3>1
    <2> QED BY <2>2, <2>3, <2>6, <2>7, <2>8, <2>9, <2>10
  <1> QED BY <1>1, <1>3, <1>4, <1>5

\* Only a member's name is a place of the name: what stands in a string is read differently.
LEMMA PlacesAreNames ==
  ASSUME NEW T, Alphabet(T), NEW object \in Seq(Members(T)), NEW width \in Nat, NEW at, NEW text,
         MembersStand(T, object, width, at, text), NEW key \in Words(T), NEW i \in KeyPlaces(text, key)
  PROVE \E j \in Named(object, key) : i = at[j] + 1
  <1>0. text \in Seq(T) /\ Len(text) \in Nat /\ text[1] = "open"
    BY DEF MembersStand
  <1>1. /\ \A n \in 1 .. Len(text) : At(text, n) = text[n]
        /\ \A n : n \notin 1 .. Len(text) => At(text, n) = End
        /\ DOMAIN text = 1 .. Len(text)
    BY <1>0, AtFacts, LenProperties
  <1>2. /\ i \in 1 .. Len(text) /\ text[i] = Quote /\ At(text, i + 1) = key /\ At(text, i + 2) = Quote
        /\ At(text, SkipSpaces(text, i + 3)) = Colon
    BY <1>1 DEF KeyPlaces
  <1>3. key \notin Marks
    BY DEF Words
  <1>4. i + 2 \in 2 .. Len(text) /\ i + 1 \in 1 .. Len(text) /\ text[i + 1] = key /\ text[i + 2] = Quote
    <2>1. i + 2 \in 1 .. Len(text)
      BY <1>1, <1>2, TokenFacts
    <2>2. i + 1 \in 1 .. Len(text) /\ i + 2 \in 2 .. Len(text)
      BY <1>0, <1>2, <2>1
    <2> QED BY <1>1, <1>2, <2>1, <2>2
  <1>5. PICK j \in 1 .. Len(object) : at[j] < i + 2 /\ i + 2 <= at[j + 1]
    BY <1>4 DEF MembersStand
  <1>6. /\ at[j] \in Nat /\ at[j + 1] \in Nat /\ text[at[j]] \in {"open", "close", "comma"}
        /\ Len(object) \in Nat
    BY Offsets
  <1>7. object[j] \in Members(T)
    BY <1>6, ElementOfSeq
  <1>8. PICK m : m = object[j]
    OBVIOUS
  <1>9. PICK q : q = Written(m)
    OBVIOUS
  <1>10. PICK w \in Nat : w = Len(q) /\ w > 0
    BY <1>7, <1>8, <1>9, MemberTypes
  <1>11. PICK a \in Nat : a = at[j]
    BY <1>6
  <1>12. PICK b \in Nat : b = at[j + 1]
    BY <1>6
  <1>13. PICK L \in Nat : L = Len(text)
    BY <1>0
  <1>14. /\ i \in 1 .. L /\ i + 2 \in 2 .. L /\ i + 1 \in 1 .. L
         /\ a < i + 2 /\ i + 2 <= b /\ text[a] \in {"open", "close", "comma"}
         /\ \A n \in 1 .. L : At(text, n) = text[n]
    BY <1>1, <1>2, <1>4, <1>5, <1>6, <1>11, <1>12, <1>13
  <1>15. i \in Nat
    BY <1>2
  <1>16. /\ b = a + w + 2 * width + 5 /\ b <= L
         /\ text[a + 1] = Quote /\ text[a + 2] = m.key /\ text[a + 3] = Quote
         /\ text[a + 4 + width] = Colon /\ text[b] \in {"close", "comma"}
         /\ \A k \in 1 .. width : text[a + 3 + k] = Space /\ text[a + 4 + width + k] = Space
         /\ \A k \in 1 .. w : text[a + 4 + 2 * width + k] = q[k]
    BY <1>8, <1>9, <1>10, <1>11, <1>12, <1>13 DEF MembersStand
  <1>17. b = a + w + 2 * width + 5 /\ b <= L
    BY <1>16
  <1>18. PICK o \in Nat : i + 2 = a + o /\ o \in 1 .. w + 2 * width + 5 /\ i = a + o - 2
    <2>1. i + 2 - a \in Nat /\ i + 2 = a + (i + 2 - a)
      BY <1>14, <1>15
    <2>2. i + 2 - a \in 1 .. w + 2 * width + 5
      BY <1>14, <1>15, <1>17
    <2>3. i = a + (i + 2 - a) - 2
      BY <1>15
    <2> QED BY <2>1, <2>2, <2>3
  <1>19. CASE o = 1
    <2>1. i + 1 = a
      BY <1>18, <1>19, <1>15
    <2> QED BY <1>3, <1>4, <1>14, <2>1 DEF Marks
  <1>20. CASE o = 2
    <2>1. m.key \notin Marks
      BY <1>7, <1>8, MemberTypes
    <2> QED BY <1>4, <1>16, <1>18, <1>20, <2>1 DEF Marks
  <1>21. CASE o = 3
    <2>1. i = a + 1 /\ i + 1 = a + 2
      BY <1>18, <1>21, <1>15
    <2>2. m.key = key
      BY <1>4, <1>16, <2>1
    <2>3. DOMAIN object = 1 .. Len(object)
      BY LenProperties
    <2>4. j \in Named(object, key)
      BY <1>8, <2>2, <2>3 DEF Named
    <2> QED BY <1>11, <2>1, <2>4
  <1>22. CASE o \in 4 .. 3 + width
    <2>1. o - 3 \in 1 .. width /\ a + 3 + (o - 3) = i + 2
      BY <1>18, <1>22, <1>15
    <2>2. text[a + 3 + (o - 3)] = Space
      BY <1>16, <2>1
    <2> QED BY <1>4, <2>1, <2>2, TokenFacts
  <1>23. CASE o = 4 + width
    <2>1. a + 4 + width = i + 2
      BY <1>18, <1>23, <1>15
    <2> QED BY <1>4, <1>16, <2>1, TokenFacts
  <1>24. CASE o \in 5 + width .. 4 + 2 * width
    <2>1. o - 4 - width \in 1 .. width /\ a + 4 + width + (o - 4 - width) = i + 2
      BY <1>18, <1>24, <1>15
    <2>2. text[a + 4 + width + (o - 4 - width)] = Space
      BY <1>16, <2>1
    <2> QED BY <1>4, <2>1, <2>2, TokenFacts
  <1>25. CASE o \in 5 + 2 * width .. 4 + 2 * width + w
    <2>1. PICK k \in Nat : k = o - 4 - 2 * width
      BY <1>25
    <2>2. k \in 1 .. w /\ a + 4 + 2 * width + k = i + 2
      BY <1>18, <1>25, <1>15, <2>1
    <2>3. q[k] = Quote
      BY <1>4, <1>16, <2>2
    <2>4. m.string
      <3> SUFFICES ASSUME ~m.string PROVE FALSE
        OBVIOUS
      <3>1. m.value[1] \in DOMAIN Numerals /\ Len(q) = 1 /\ q[1] = m.value[1]
        BY <1>7, <1>8, <1>9, MemberTypes
      <3>2. k = 1
        BY <1>10, <2>2, <3>1
      <3> QED BY <2>3, <3>1, <3>2, TokenFacts DEF Marks
    <2>5. PICK vat : Spelt(T, m.value, vat, q)
      <3>1. m.value \in Seq(T)
        BY <1>7, <1>8, <2>4, MemberTypes
      <3> QED BY <1>9, <2>4, <3>1, QuotedFacts DEF Written
    <2>6. CASE k = 1
      <3>1. i + 1 = a + 4 + 2 * width
        BY <1>15, <2>2, <2>6
      <3>2. CASE width = 0
        <4>1. i + 1 = a + 4 + width
          BY <3>1, <3>2
        <4> QED BY <1>3, <1>4, <1>16, <4>1 DEF Marks
      <3>3. CASE width # 0
        <4>1. width \in 1 .. width /\ i + 1 = a + 4 + width + width
          BY <3>1, <3>3
        <4> QED BY <1>3, <1>4, <1>16, <4>1 DEF Marks
      <3> QED BY <3>2, <3>3
    <2>7. CASE k = w
      <3>1. i + 3 = b /\ i + 3 \in 1 .. L
        BY <1>15, <1>17, <2>2, <2>7
      <3>2. At(text, i + 3) \in {"close", "comma"}
        BY <1>16, <1>14, <3>1
      <3>3. SkipSpaces(text, i + 3) = i + 3
        <4>1. /\ i + 3 \in Nat /\ i + 3 <= i + 3 /\ i + 3 <= L + 1 /\ At(text, i + 3) # Space
              /\ \A n \in i + 3 .. (i + 3) - 1 : At(text, n) = Space
          BY <1>15, <3>1, <3>2, TokenFacts
        <4> QED BY <1>0, <1>13, <4>1, Skips
      <3> QED BY <1>2, <3>2, <3>3, TokenFacts
    <2>8. CASE k # 1 /\ k # w
      <3>1. k \in 2 .. Len(q) - 1 /\ k - 1 \in 1 .. w
        BY <1>10, <2>2, <2>8
      <3>2. q[k - 1] = Backslash
        BY <2>3, <2>5, <3>1 DEF Spelt
      <3>3. i + 1 = a + 4 + 2 * width + (k - 1)
        BY <1>15, <2>2
      <3>4. text[i + 1] = Backslash
        BY <1>16, <3>1, <3>2, <3>3
      <3> QED BY <1>3, <1>4, <3>4 DEF Marks
    <2> QED BY <2>6, <2>7, <2>8
  <1>26. CASE o = 5 + 2 * width + w
    <2>1. i + 2 = b
      BY <1>18, <1>26, <1>15, <1>17
    <2> QED BY <1>4, <1>16, <2>1, TokenFacts
  <1>27. \/ o = 1 \/ o = 2 \/ o = 3 \/ o \in 4 .. 3 + width \/ o = 4 + width
         \/ o \in 5 + width .. 4 + 2 * width \/ o \in 5 + 2 * width .. 4 + 2 * width + w
         \/ o = 5 + 2 * width + w
    BY <1>18
  <1> QED BY <1>19, <1>20, <1>21, <1>22, <1>23, <1>24, <1>25, <1>26, <1>27

\* After a member's name the colon is found, and after it the value.
LEMMA NamesArePlaces ==
  ASSUME NEW T, Alphabet(T), NEW object \in Seq(Members(T)), NEW width \in Nat, NEW at, NEW text,
         MembersStand(T, object, width, at, text), NEW key, NEW j \in Named(object, key)
  PROVE /\ j \in 1 .. Len(object) /\ at[j] + 1 \in KeyPlaces(text, key)
        /\ SkipSpaces(text, at[j] + 1 + 3) = at[j] + 4 + width
        /\ SkipSpaces(text, at[j] + 4 + width + 1) = at[j] + 5 + 2 * width
  <1>0. text \in Seq(T) /\ Len(text) \in Nat
    BY DEF MembersStand
  <1>1. /\ \A n \in 1 .. Len(text) : At(text, n) = text[n]
        /\ DOMAIN text = 1 .. Len(text)
    BY <1>0, AtFacts, LenProperties
  <1>2. j \in 1 .. Len(object) /\ object[j].key = key
    <2>1. DOMAIN object = 1 .. Len(object)
      BY LenProperties
    <2> QED BY <2>1 DEF Named
  <1>3. at[j] \in Nat /\ at[j + 1] \in Nat /\ Len(object) \in Nat
    BY <1>2, Offsets
  <1>4. object[j] \in Members(T)
    BY <1>2, <1>3, ElementOfSeq
  <1>5. PICK q : q = Written(object[j])
    OBVIOUS
  <1>6. PICK w \in Nat : w = Len(q) /\ w > 0
    BY <1>4, <1>5, MemberTypes
  <1>7. PICK a \in Nat : a = at[j]
    BY <1>3
  <1>8. PICK b \in Nat : b = at[j + 1]
    BY <1>3
  <1>9. PICK L \in Nat : L = Len(text)
    BY <1>0
  <1>10. \A n \in 1 .. L : At(text, n) = text[n] /\ n \in DOMAIN text
    BY <1>1, <1>9
  <1>11. /\ b = a + w + 2 * width + 5 /\ b <= L
         /\ text[a + 1] = Quote /\ text[a + 2] = key /\ text[a + 3] = Quote
         /\ text[a + 4 + width] = Colon
         /\ \A k \in 1 .. width : text[a + 3 + k] = Space /\ text[a + 4 + width + k] = Space
         /\ \A k \in 1 .. w : text[a + 4 + 2 * width + k] = q[k]
    BY <1>2, <1>5, <1>6, <1>7, <1>8, <1>9 DEF MembersStand
  <1>12. b = a + w + 2 * width + 5 /\ b <= L
    BY <1>11
  <1>13. q[1] # Space
    <2>1. CASE object[j].string
      BY <1>4, <1>5, <2>1, MemberTypes, TokenFacts
    <2>2. CASE ~object[j].string
      <3>1. q[1] \in DOMAIN Numerals
        BY <1>4, <1>5, <2>2, MemberTypes
      <3> QED BY <3>1, TokenFacts DEF Marks
    <2> QED BY <2>1, <2>2
  <1>14. SkipSpaces(text, a + 1 + 3) = a + 4 + width
    <2>1. /\ a + 1 + 3 \in Nat /\ a + 4 + width \in Nat /\ a + 1 + 3 <= a + 4 + width
          /\ a + 4 + width <= L + 1 /\ a + 4 + width \in 1 .. L
      BY <1>6, <1>12
    <2>2. At(text, a + 4 + width) # Space
      BY <1>11, <1>10, <2>1, TokenFacts
    <2>3. ASSUME NEW k \in a + 1 + 3 .. (a + 4 + width) - 1 PROVE At(text, k) = Space
      <3>1. k \in 1 .. L /\ k - a - 3 \in 1 .. width /\ k = a + 3 + (k - a - 3)
        BY <1>6, <1>12
      <3>2. text[a + 3 + (k - a - 3)] = Space
        BY <1>11, <3>1
      <3> QED BY <1>10, <3>1, <3>2
    <2> QED BY <1>0, <1>9, <2>1, <2>2, <2>3, Skips
  <1>15. SkipSpaces(text, a + 4 + width + 1) = a + 5 + 2 * width
    <2>1. /\ a + 4 + width + 1 \in Nat /\ a + 5 + 2 * width \in Nat
          /\ a + 4 + width + 1 <= a + 5 + 2 * width
          /\ a + 5 + 2 * width <= L + 1 /\ a + 5 + 2 * width \in 1 .. L
          /\ a + 5 + 2 * width = a + 4 + 2 * width + 1
      BY <1>6, <1>12
    <2>2. At(text, a + 5 + 2 * width) # Space
      <3>1. 1 \in 1 .. w
        BY <1>6
      <3> QED BY <1>10, <1>11, <1>13, <2>1, <3>1
    <2>3. ASSUME NEW k \in a + 4 + width + 1 .. (a + 5 + 2 * width) - 1 PROVE At(text, k) = Space
      <3>1. /\ k \in 1 .. L /\ k - a - 4 - width \in 1 .. width
            /\ k = a + 4 + width + (k - a - 4 - width)
        BY <1>6, <1>12
      <3>2. text[a + 4 + width + (k - a - 4 - width)] = Space
        BY <1>11, <3>1
      <3> QED BY <1>10, <3>1, <3>2
    <2> QED BY <1>0, <1>9, <2>1, <2>2, <2>3, Skips
  <1>16. a + 1 \in KeyPlaces(text, key)
    <2>1. /\ a + 1 \in 1 .. L /\ a + 2 \in 1 .. L /\ a + 3 \in 1 .. L
          /\ a + 4 + width \in 1 .. L
      BY <1>6, <1>12
    <2>2. a + 1 + 1 = a + 2 /\ a + 1 + 2 = a + 3
      OBVIOUS
    <2>3. At(text, a + 1 + 1) = key /\ At(text, a + 1 + 2) = Quote /\ At(text, a + 4 + width) = Colon
      BY <1>11, <1>10, <2>1, <2>2
    <2> QED BY <1>11, <1>14, <1>10, <2>1, <2>3 DEF KeyPlaces
  <1> QED BY <1>2, <1>14, <1>15, <1>16, <1>7

\* The search finds the value of the first member of the name.
LEMMA Finds ==
  ASSUME NEW T, Alphabet(T), NEW object \in Seq(Members(T)), NEW width \in Nat, NEW at, NEW text,
         MembersStand(T, object, width, at, text), NEW key \in Words(T)
  PROVE /\ Named(object, key) = {} => FindValue(text, key) = NotFound
        /\ Named(object, key) # {} =>
             /\ Min(Named(object, key)) \in Named(object, key)
             /\ FindValue(text, key) = at[Min(Named(object, key))] + 5 + 2 * width
  <1>1. CASE Named(object, key) = {}
    <2>1. KeyPlaces(text, key) = {}
      BY <1>1, PlacesAreNames
    <2> QED BY <1>1, <2>1 DEF FindValue
  <1>2. CASE Named(object, key) # {}
    <2>1. Len(object) \in Nat /\ Named(object, key) \subseteq 1 .. Len(object) /\ Named(object, key) \in SUBSET Int
      <3>1. Len(object) \in Nat /\ DOMAIN object = 1 .. Len(object)
        BY LenProperties
      <3> QED BY <3>1 DEF Named
    <2>2. PICK j \in Named(object, key) : \A k \in Named(object, key) : j <= k
      <3>1. Named(object, key) \in SUBSET Nat
        BY <2>1
      <3> QED BY <1>2, <3>1, LeastExists
    <2>3. Min(Named(object, key)) = j
      BY <2>1, <2>2, MinIs
    <2>4. at[j] \in Nat /\ \A k \in Named(object, key) : at[k] \in Nat /\ at[j] <= at[k]
      BY <2>1, <2>2, Offsets
    <2>5. at[j] + 1 \in KeyPlaces(text, key) /\ KeyPlaces(text, key) \in SUBSET Int
      <3>1. at[j] + 1 \in KeyPlaces(text, key)
        BY NamesArePlaces
      <3>2. \A i \in KeyPlaces(text, key) : \E k \in Named(object, key) : i = at[k] + 1
        BY PlacesAreNames
      <3> QED BY <2>4, <3>1, <3>2
    <2>6. ASSUME NEW i \in KeyPlaces(text, key) PROVE at[j] + 1 <= i
      <3>1. PICK k \in Named(object, key) : i = at[k] + 1
        BY PlacesAreNames
      <3> QED BY <2>4, <3>1
    <2>7. Min(KeyPlaces(text, key)) = at[j] + 1
      BY <2>5, <2>6, MinIs
    <2>8. FindValue(text, key) = SkipSpaces(text, SkipSpaces(text, at[j] + 1 + 3) + 1)
      BY <2>5, <2>7 DEF FindValue
    <2>9. /\ SkipSpaces(text, at[j] + 1 + 3) = at[j] + 4 + width
          /\ SkipSpaces(text, at[j] + 4 + width + 1) = at[j] + 5 + 2 * width
      BY NamesArePlaces
    <2>10. FindValue(text, key) = at[j] + 5 + 2 * width
      BY <2>8, <2>9
    <2> QED BY <1>2, <2>3, <2>10
  <1> QED BY <1>1, <1>2

(***************************************************************************)
(* A string is read as it was meant.                                       *)
(***************************************************************************)
\* The loop of Unescaped at token n.
Preceded(token, rest) == IF rest = Unreadable THEN rest ELSE <<token>> \o rest
Reads(text, read, n) ==
  IF At(text, n) = End THEN Unreadable
  ELSE IF At(text, n) = Quote THEN <<>>
  ELSE IF At(text, n) # Backslash THEN Preceded(text[n], read[n + 1])
  ELSE IF At(text, n + 1) \in {Quote, Backslash} THEN Preceded(text[n + 1], read[n + 2])
  ELSE Unreadable

\* The loop looks only ahead, and not past the terminator.
LEMMA ReadsAhead ==
  ASSUME NEW T, NEW text \in Seq(T), NEW f, NEW g, NEW n \in Nat, n <= Len(text) + 2,
         \A k \in n + 1 .. Len(text) + 2 : f[k] = g[k]
  PROVE Reads(text, f, n) = Reads(text, g, n)
  <1>1. Len(text) \in Nat /\ \A k : k \notin 1 .. Len(text) => At(text, k) = End
    BY LenProperties, AtFacts
  <1>2. CASE At(text, n) = End
    BY <1>2 DEF Reads
  <1>3. CASE At(text, n) # End
    <2>1. n \in 1 .. Len(text)
      BY <1>1, <1>3
    <2>2. n + 1 \in n + 1 .. Len(text) + 2 /\ n + 2 \in n + 1 .. Len(text) + 2
      BY <1>1, <2>1
    <2>3. f[n + 1] = g[n + 1] /\ f[n + 2] = g[n + 2]
      BY <2>2
    <2> QED BY <2>3 DEF Reads
  <1> QED BY <1>2, <1>3

LEMMA ReadExists ==
  ASSUME NEW T, NEW text \in Seq(T), NEW i \in Nat, i <= Len(text) + 2
  PROVE \E f : f = [n \in i .. Len(text) + 2 |-> Reads(text, f, n)]
  <1>0. PICK L \in Nat : L = Len(text)
    BY LenProperties
  <1> DEFINE P(m) == \E f : f = [n \in m .. L + 2 |-> Reads(text, f, n)]
             Bad == {d \in Nat : d <= L + 3 /\ ~P(L + 3 - d)}
  <1>1. Bad = {}
    <2> SUFFICES ASSUME Bad # {} PROVE FALSE
      OBVIOUS
    <2>1. PICK d \in Bad : \A e \in Bad : d <= e
      BY LeastExists
    <2>2. d \in Nat /\ d <= L + 3 /\ ~P(L + 3 - d)
      BY <2>1
    <2>3. CASE d = 0
      <3>1. P(L + 3)
        <4> DEFINE f == [n \in {} |-> 0]
        <4>1. f = [n \in {} |-> Reads(text, f, n)]
          OBVIOUS
        <4>2. L + 3 .. L + 2 = {}
          OBVIOUS
        <4> QED BY <4>1, <4>2
      <3>2. L + 3 - d = L + 3
        BY <2>3
      <3> QED BY <2>2, <3>1, <3>2
    <2>4. CASE d # 0
      <3>1. PICK m \in Nat : m = L + 3 - d
        BY <2>2
      <3>2. d - 1 \in Nat /\ d - 1 <= L + 3 /\ ~(d <= d - 1) /\ L + 3 - (d - 1) = m + 1 /\ m <= L + 2
        BY <2>2, <2>4, <3>1
      <3>3. P(m + 1)
        <4> HIDE DEF P
        <4>1. d - 1 \notin Bad
          BY <2>1, <3>2
        <4>2. P(L + 3 - (d - 1))
          BY <3>2, <4>1
        <4> QED BY <3>2, <4>2
      <3>4. PICK f : f = [n \in m + 1 .. L + 2 |-> Reads(text, f, n)]
        BY <3>3
      <3> DEFINE g == [n \in m .. L + 2 |-> IF n = m THEN Reads(text, f, m) ELSE f[n]]
      <3>5. \A n \in m + 1 .. L + 2 : g[n] = f[n] /\ f[n] = Reads(text, f, n)
        <4>1. \A n \in m + 1 .. L + 2 : n \in m .. L + 2 /\ n # m
          OBVIOUS
        <4> QED BY <3>4, <4>1
      <3>6. g[m] = Reads(text, f, m) /\ \A n \in m .. L + 2 : n = m \/ n \in m + 1 .. L + 2
        BY <3>2
      <3>7. g = [n \in m .. L + 2 |-> g[n]]
        OBVIOUS
      <3> HIDE DEF g
      <3>8. ASSUME NEW n \in m .. L + 2 PROVE g[n] = Reads(text, g, n)
        <4>1. n \in Nat /\ n <= Len(text) + 2
          BY <1>0
        <4>2. \A k \in n + 1 .. Len(text) + 2 : f[k] = g[k]
          <5>1. \A k \in n + 1 .. L + 2 : k \in m + 1 .. L + 2
            OBVIOUS
          <5> QED BY <1>0, <3>5, <5>1
        <4>3. Reads(text, f, n) = Reads(text, g, n)
          BY <4>1, <4>2, ReadsAhead
        <4> QED BY <3>5, <3>6, <4>3
      <3>9. P(m)
        BY <3>7, <3>8
      <3> QED BY <2>2, <3>1, <3>9
    <2> QED BY <2>3, <2>4
  <1>2. L + 3 - i \in Nat /\ L + 3 - i <= L + 3 /\ L + 3 - (L + 3 - i) = i
    BY <1>0
  <1>3. P(i)
    <2> HIDE DEF P
    <2>1. P(L + 3 - (L + 3 - i))
      BY <1>1, <1>2
    <2> QED BY <1>2, <2>1
  <1> QED BY <1>0, <1>3

\* From the first character of a string that stands in a text, the string is read, and no more.
LEMMA Unescapes ==
  ASSUME NEW T, Alphabet(T), NEW value \in Seq(T \ {End}), NEW vat, NEW q, Spelt(T, value, vat, q),
         NEW text \in Seq(T), NEW p \in Nat, p + Len(q) <= Len(text),
         \A k \in 1 .. Len(q) : text[p + k] = q[k]
  PROVE Unescaped(text, p + 2) = value
  <1> DEFINE read == CHOOSE f : f = [n \in p + 2 .. Len(text) + 2 |-> Reads(text, f, n)]
  <1>1. Unescaped(text, p + 2) = read[p + 2]
    BY DEF Unescaped, Reads, Preceded
  <1>2. PICK L \in Nat : L = Len(text)
    BY LenProperties
  <1>3. PICK W \in Nat : W = Len(value)
    BY LenProperties
  <1>4. PICK Q \in Nat : Q = Len(q)
    BY LenProperties DEF Spelt
  <1>5. /\ vat \in [1 .. W + 1 -> Nat] /\ vat[1] = 0 /\ Q = vat[W + 1] + 2 /\ q[Q] = Quote
        /\ \A m \in 1 .. W :
             /\ vat[m + 1] + 2 <= Q
             /\ IF value[m] \in {Quote, Backslash}
                  THEN vat[m + 1] = vat[m] + 2 /\ q[vat[m] + 2] = Backslash /\ q[vat[m] + 3] = value[m]
                  ELSE vat[m + 1] = vat[m] + 1 /\ q[vat[m] + 2] = value[m]
    BY <1>3, <1>4 DEF Spelt
  <1>6. p + Q <= L /\ \A k \in 1 .. Q : text[p + k] = q[k]
    BY <1>2, <1>4
  <1>7. \A n \in 1 .. L : At(text, n) = text[n]
    BY <1>2, AtFacts
  <1>8. \A n \in p + 2 .. L + 2 : read[n] = Reads(text, read, n)
    <2>1. vat[W + 1] \in Nat
      <3>1. W + 1 \in 1 .. W + 1
        OBVIOUS
      <3> QED BY <1>5, <3>1
    <2>2. p + 2 \in Nat /\ p + 2 <= Len(text) + 2
      BY <1>2, <1>5, <1>6, <2>1
    <2>3. \E f : f = [n \in p + 2 .. Len(text) + 2 |-> Reads(text, f, n)]
      BY <2>2, ReadExists
    <2>4. read = [n \in p + 2 .. Len(text) + 2 |-> Reads(text, read, n)]
      BY <2>3
    <2> HIDE DEF read
    <2> QED BY <1>2, <2>4
  <1> HIDE DEF read
  <1>9. \A m \in 1 .. W : value[m] \in T /\ value[m] # End
    BY <1>3, ElementOfSeq
  <1> DEFINE Left(n) == SubSeq(value, n, W)
             Bad == {d \in Nat : d <= W /\ read[p + 2 + vat[W + 1 - d]] # Left(W + 1 - d)}
  <1>10. Bad = {}
    <2> SUFFICES ASSUME Bad # {} PROVE FALSE
      OBVIOUS
    <2>1. PICK d \in Bad : \A e \in Bad : d <= e
      BY LeastExists
    <2>2. PICK n \in Nat : n = W + 1 - d
      BY <2>1
    <2>3. d \in Nat /\ d <= W /\ n \in 1 .. W + 1 /\ read[p + 2 + vat[n]] # Left(n)
      BY <2>1, <2>2
    <2>4. PICK a \in Nat : a = vat[n]
      BY <1>5, <2>3
    <2>5. CASE d = 0
      <3>1. n = W + 1 /\ Q = a + 2
        BY <1>5, <2>2, <2>4, <2>5
      <3>2. Q \in 1 .. Q /\ p + Q \in 1 .. L /\ p + Q \in p + 2 .. L + 2 /\ p + 2 + a = p + Q
        BY <1>6, <3>1
      <3>3. At(text, p + Q) = Quote
        BY <1>5, <1>6, <1>7, <3>2
      <3>4. read[p + Q] = <<>>
        BY <1>8, <3>2, <3>3, TokenFacts DEF Reads
      <3>5. Left(n) = <<>>
        <4>1. n \in Int /\ W \in Int /\ W < n
          BY <3>1
        <4> QED BY <4>1, SubSeqEmpty
      <3> QED BY <2>3, <2>4, <3>2, <3>4, <3>5
    <2>6. CASE d # 0
      <3>1. n \in 1 .. W /\ n + 1 \in 1 .. W + 1 /\ d - 1 \in Nat /\ d - 1 <= W /\ ~(d <= d - 1) /\ W + 1 - (d - 1) = n + 1
        BY <2>2, <2>3, <2>6
      <3>2. PICK b \in Nat : b = vat[n + 1]
        BY <1>5, <3>1
      <3>3. read[p + 2 + b] = Left(n + 1)
        BY <2>1, <3>1, <3>2
      <3>4. /\ b + 2 <= Q
            /\ value[n] \in {Quote, Backslash} => b = a + 2 /\ q[a + 2] = Backslash /\ q[a + 3] = value[n]
            /\ value[n] \notin {Quote, Backslash} => b = a + 1 /\ q[a + 2] = value[n]
        BY <1>5, <2>4, <3>1, <3>2
      <3>5. Left(n) = <<value[n]>> \o Left(n + 1)
        <4>1. n \in 1 .. Len(value) /\ W \in n .. Len(value)
          BY <1>3, <3>1
        <4> QED BY <4>1, SubSeqRecursiveFirst
      <3>6. Left(n + 1) # Unreadable
        <4>1. \A k \in n + 1 .. W : value[k] \in T \ {End}
          <5>1. \A k \in n + 1 .. W : k \in 1 .. W
            BY <3>1
          <5> QED BY <1>9, <5>1
        <4>2. n + 1 \in Int /\ W \in Int
          OBVIOUS
        <4>3. Left(n + 1) \in Seq(T \ {End})
          BY <4>1, <4>2, SubSeqProperties
        <4>4. Len(Unreadable) = 1 /\ Unreadable[1] = End
          BY DEF Unreadable
        <4> HIDE DEF Left
        <4>5. ASSUME Left(n + 1) = Unreadable PROVE FALSE
          <5>1. Unreadable \in Seq(T \ {End}) /\ 1 \in 1 .. Len(Unreadable)
            BY <4>3, <4>4, <4>5
          <5>2. Unreadable[1] \in T \ {End}
            BY <5>1, ElementOfSeq
          <5> QED BY <4>4, <5>2
        <4> QED BY <4>5
      <3> HIDE DEF Left
      <3>7. CASE value[n] \in {Quote, Backslash}
        <4>1. /\ a + 2 \in 1 .. Q /\ a + 3 \in 1 .. Q /\ p + (a + 2) = p + 2 + a /\ p + (a + 3) = p + 2 + a + 1
              /\ p + 2 + a \in 1 .. L /\ p + 2 + a + 1 \in 1 .. L /\ p + 2 + a \in p + 2 .. L + 2
              /\ p + 2 + a + 2 = p + 2 + b
          <5>1. p + Q <= L /\ b + 2 <= Q /\ b = a + 2
            BY <1>6, <3>4, <3>7
          <5> QED BY <5>1
        <4>2. /\ text[p + 2 + a] = Backslash /\ text[p + 2 + a + 1] = value[n]
          BY <1>6, <3>4, <3>7, <4>1
        <4>3. At(text, p + 2 + a) = Backslash /\ At(text, p + 2 + a + 1) = value[n]
          BY <1>7, <4>1, <4>2
        <4>4. read[p + 2 + a] = Preceded(text[p + 2 + a + 1], read[p + 2 + a + 2])
          BY <1>8, <3>7, <4>1, <4>3, TokenFacts DEF Reads
        <4>5. read[p + 2 + a] = <<value[n]>> \o Left(n + 1)
          BY <3>3, <3>6, <4>1, <4>2, <4>4 DEF Preceded
        <4> QED BY <2>3, <2>4, <3>5, <4>5
      <3>8. CASE value[n] \notin {Quote, Backslash}
        <4>1. /\ a + 2 \in 1 .. Q /\ p + (a + 2) = p + 2 + a
              /\ p + 2 + a \in 1 .. L /\ p + 2 + a \in p + 2 .. L + 2
              /\ p + 2 + a + 1 = p + 2 + b
          <5>1. p + Q <= L /\ b + 2 <= Q /\ b = a + 1
            BY <1>6, <3>4, <3>8
          <5> QED BY <5>1
        <4>2. text[p + 2 + a] = value[n]
          BY <1>6, <3>4, <3>8, <4>1
        <4>3. At(text, p + 2 + a) = value[n] /\ value[n] # End
          BY <1>7, <1>9, <3>1, <4>1, <4>2
        <4>4. read[p + 2 + a] = Preceded(text[p + 2 + a], read[p + 2 + a + 1])
          BY <1>8, <3>8, <4>1, <4>3 DEF Reads
        <4>5. read[p + 2 + a] = <<value[n]>> \o Left(n + 1)
          BY <3>3, <3>6, <4>1, <4>2, <4>4 DEF Preceded
        <4> QED BY <2>3, <2>4, <3>5, <4>5
      <3> QED BY <3>7, <3>8
    <2> QED BY <2>5, <2>6
  <1>11. read[p + 2] = SubSeq(value, 1, Len(value))
    <2>1. W \in Nat /\ W <= W /\ W + 1 - W = 1 /\ p + 2 + 0 = p + 2
      OBVIOUS
    <2>2. read[p + 2 + vat[W + 1 - W]] = Left(W + 1 - W)
      BY <1>10, <2>1
    <2>3. read[p + 2 + vat[1]] = Left(1)
      BY <2>1, <2>2
    <2> QED BY <1>3, <1>5, <2>1, <2>3
  <1> QED BY <1>1, <1>11, SubSeqFull

\* Whatever the strings of an object hold and however it is spaced, the search of its text reads
\* what the object has.
LEMMA ReadsTheObject ==
  ASSUME NEW T, Alphabet(T), NEW object \in Seq(Members(T)), NEW pad \in Seq({Space}),
         NEW key \in Words(T), NEW size
  PROVE /\ HasKey(ObjectText(object, pad), key) <=> Named(object, key) # {}
        /\ GetString(ObjectText(object, pad), key, size) = StringOf(object, key, size)
        /\ GetUint(ObjectText(object, pad), key) = NumberOf(object, key)
  <1>1. PICK text : text = ObjectText(object, pad)
    OBVIOUS
  <1>2. PICK width \in Nat : width = Len(pad)
    BY LenProperties
  <1>3. PICK at : MembersStand(T, object, width, at, text)
    BY <1>1, <1>2, TextStands
  <1>4. text \in Seq(T)
    BY <1>3 DEF MembersStand
  <1>5. PICK L \in Nat : L = Len(text)
    BY <1>4, LenProperties
  <1>6. /\ \A n \in 1 .. L : At(text, n) = text[n]
        /\ \A n : n \notin 1 .. L => At(text, n) = End
    BY <1>4, <1>5, AtFacts
  <1>7. CASE Named(object, key) = {}
    <2>1. FindValue(text, key) = NotFound
      BY <1>3, <1>7, Finds
    <2>2. At(text, NotFound) = End
      <3>1. NotFound \notin 1 .. L
        BY DEF NotFound
      <3> QED BY <1>6, <3>1
    <2>3. ~IsNumeral(End)
      BY DEF IsNumeral, Numerals, End
    <2>4. HasKey(text, key) <=> Named(object, key) # {}
      BY <1>7, <2>1 DEF HasKey
    <2>5. GetString(text, key, size) = StringOf(object, key, size)
      BY <1>7, <2>1 DEF GetString, StringOf
    <2>6. GetUint(text, key) = NumberOf(object, key)
      BY <1>7, <2>1, <2>2, <2>3 DEF GetUint, NumberOf
    <2> QED BY <1>1, <2>4, <2>5, <2>6
  <1>8. CASE Named(object, key) # {}
    <2>1. PICK j : j = Min(Named(object, key))
      OBVIOUS
    <2>2. /\ j \in Named(object, key)
          /\ FindValue(text, key) = at[j] + 5 + 2 * width
      BY <1>3, <1>8, <2>1, Finds
    <2>3. j \in 1 .. Len(object)
      <3>1. DOMAIN object = 1 .. Len(object)
        BY LenProperties
      <3> QED BY <2>2, <3>1 DEF Named
    <2>4. PICK m \in Members(T) : m = object[j]
      BY <2>3, ElementOfSeq
    <2>5. First(object, key) = m
      BY <2>1, <2>4 DEF First
    <2>6. PICK q : q = Written(m)
      OBVIOUS
    <2>7. PICK w \in Nat : w = Len(q) /\ w > 0
      BY <2>6, MemberTypes
    <2>8. PICK a \in Nat : a = at[j]
      BY <1>3, <2>3, Offsets
    <2>9. at[j + 1] \in Nat
      BY <1>3, <2>3, Offsets
    <2>10. /\ at[j + 1] = a + w + 2 * width + 5 /\ at[j + 1] <= L
           /\ \A k \in 1 .. w : text[a + 4 + 2 * width + k] = q[k]
      BY <1>3, <1>5, <2>3, <2>4, <2>6, <2>7, <2>8 DEF MembersStand
    <2>11. a + w + 2 * width + 5 <= L
      BY <2>10
    <2>12. PICK p \in Nat : p = a + 4 + 2 * width
      OBVIOUS
    <2>13. FindValue(text, key) = p + 1 /\ p + 1 \in 1 .. L /\ p + w <= L /\ p + 1 # NotFound
      <3>1. a + 5 + 2 * width = p + 1 /\ p + 1 \in 1 .. L /\ p + w <= L
        BY <2>7, <2>11, <2>12
      <3> QED BY <2>2, <2>8, <3>1 DEF NotFound
    <2>14. \A k \in 1 .. w : text[p + k] = q[k]
      BY <2>10, <2>12
    <2>15. At(text, p + 1) = q[1]
      <3>1. 1 \in 1 .. w
        BY <2>7
      <3> QED BY <1>6, <2>13, <2>14, <3>1
    <2>16. HasKey(text, key) <=> Named(object, key) # {}
      BY <1>8, <2>13 DEF HasKey
    <2>17. CASE m.string
      <3>1. /\ m.value \in Seq(T \ {End}) /\ m.value \in Seq(T) /\ q[1] = Quote
        BY <2>6, <2>17, MemberTypes
      <3>2. PICK vat : Spelt(T, m.value, vat, q)
        BY <2>6, <2>17, <3>1, QuotedFacts DEF Written
      <3>3. Unescaped(text, p + 2) = m.value
        <4>1. p + Len(q) <= Len(text) /\ \A k \in 1 .. Len(q) : text[p + k] = q[k]
          BY <1>5, <2>7, <2>13, <2>14
        <4> QED BY <1>4, <3>1, <3>2, <4>1, Unescapes
      <3>4. (p + 1) + 1 = p + 2
        OBVIOUS
      <3>5. GetString(text, key, size) = StringOf(object, key, size)
        <4>1. GetString(text, key, size) = IF StrLen(m.value) < size THEN m.value ELSE Unreadable
          BY <2>13, <2>15, <3>1, <3>3, <3>4 DEF GetString
        <4> QED BY <1>8, <2>5, <2>17, <4>1 DEF StringOf
      <3>6. GetUint(text, key) = NumberOf(object, key)
        BY <1>8, <2>5, <2>13, <2>15, <2>17, <3>1, TokenFacts DEF GetUint, NumberOf
      <3> QED BY <1>1, <2>16, <3>5, <3>6
    <2>18. CASE ~m.string
      <3>1. m.value[1] \in DOMAIN Numerals /\ q[1] = m.value[1]
        BY <2>6, <2>18, MemberTypes
      <3>2. q[1] # Quote /\ IsNumeral(q[1])
        BY <3>1, TokenFacts DEF Marks
      <3>3. GetString(text, key, size) = StringOf(object, key, size)
        BY <2>5, <2>13, <2>15, <2>18, <3>2 DEF GetString, StringOf
      <3>4. GetUint(text, key) = NumberOf(object, key)
        BY <1>8, <2>5, <2>13, <2>15, <2>18, <3>1, <3>2 DEF GetUint, NumberOf
      <3> QED BY <1>1, <2>16, <3>3, <3>4
    <2> QED BY <2>17, <2>18
  <1> QED BY <1>7, <1>8

\* The names that a request is read by.
Keys == {"cmd", "epoch", "interval_s", "offset", "limit", "ssid", "password"}

\* So what protocol_handle_line makes of a line is what its object says, for every object whose
\* names and strings are sequences of the alphabet, quotes and backslashes in them included.
THEOREM ParsedIsMeant ==
  ASSUME NEW T, Alphabet(T), Keys \subseteq T, NEW object \in Seq(Members(T)), NEW pad \in Seq({Space})
  PROVE Parsed(ObjectText(object, pad)) = Meant(object)
  <1> DEFINE line == [line |-> TRUE, it |-> ObjectText(object, pad)]
             meant == [line |-> FALSE, it |-> object]
  <1>1. line.line = TRUE /\ line.it = ObjectText(object, pad) /\ meant.line = FALSE /\ meant.it = object
    OBVIOUS
  <1> HIDE DEF line, meant
  <1>2. Keys \subseteq Words(T)
    <2>1. \A key \in Keys : key \notin Marks
      BY DEF Keys, Marks, Quote, Backslash, Colon, Space, End
    <2> QED BY <2>1 DEF Words
  <1>3. ASSUME NEW key \in Keys
        PROVE /\ StringIn(line, key) = StringIn(meant, key)
              /\ NumberIn(line, key) = NumberIn(meant, key)
              /\ KeyIn(line, key) <=> KeyIn(meant, key)
    <2>1. key \in Words(T)
      BY <1>2
    <2>2. /\ HasKey(ObjectText(object, pad), key) <=> Named(object, key) # {}
          /\ GetString(ObjectText(object, pad), key, Room(key)) = StringOf(object, key, Room(key))
          /\ GetUint(ObjectText(object, pad), key) = NumberOf(object, key)
      BY <2>1, ReadsTheObject
    <2> QED BY <1>1, <2>2 DEF StringIn, NumberIn, KeyIn
  <1>4. /\ StringIn(line, "cmd") = StringIn(meant, "cmd")
        /\ NumberIn(line, "epoch") = NumberIn(meant, "epoch")
        /\ NumberIn(line, "interval_s") = NumberIn(meant, "interval_s")
        /\ NumberIn(line, "offset") = NumberIn(meant, "offset")
        /\ NumberIn(line, "limit") = NumberIn(meant, "limit")
    BY <1>3 DEF Keys
  <1>5. Wifi(line) = Wifi(meant)
    <2>1. /\ StringIn(line, "ssid") = StringIn(meant, "ssid")
          /\ StringIn(line, "password") = StringIn(meant, "password")
          /\ KeyIn(line, "password") <=> KeyIn(meant, "password")
      BY <1>3 DEF Keys
    <2> QED BY <2>1 DEF Wifi
  <1>6. Asks(line) = Asks(meant)
    BY <1>4, <1>5 DEF Asks
  <1> QED BY <1>6 DEF Parsed, Meant, line, meant

(***************************************************************************)
(* The lines of the two who ask.                                           *)
(***************************************************************************)
\* The tokens of the requests.
Tokens == Marks \cup DOMAIN Numerals \cup Keys \cup CmdWords \cup {"x", "w7", "w8", "w32", "w33", "w63"}

LEMMA TokensFacts ==
  /\ Alphabet(Tokens) /\ Keys \subseteq Words(Tokens) /\ "x" \in Words(Tokens)
  /\ CmdWords \subseteq Tokens \ {End} /\ Empty \notin CmdWords
  /\ {Quote, Backslash, "cmd", "epoch", "n60", "w7", "w8", "w32", "w33", "w63"} \subseteq Tokens \ {End}
  <1>1. Alphabet(Tokens)
    BY DEF Alphabet, Tokens
  <1>2. \A key \in Keys : key \notin Marks
    BY DEF Keys, Marks, Quote, Backslash, Colon, Space, End
  <1>3. "x" \notin Marks
    BY DEF Marks, Quote, Backslash, Colon, Space, End
  <1>4. CmdWords \subseteq Tokens \ {End} /\ Empty \notin CmdWords
    BY DEF Tokens, CmdWords, Commands, End, Empty
  <1>5. {Quote, Backslash, "cmd", "epoch", "w7", "w8", "w32", "w33", "w63"} \subseteq Tokens \ {End}
    BY DEF Tokens, Keys, Marks, Quote, Backslash, Colon, Space, End
  <1>6. "n60" \in Tokens \ {End}
    BY DEF Tokens, Numerals, End
  <1> QED BY <1>1, <1>2, <1>3, <1>4, <1>5, <1>6 DEF Words, Tokens

\* Strings and numbers under the names of requests are members.
LEMMA MembersOfRequests ==
  /\ \A key \in Keys \cup {"x"} : \A value \in Seq(Tokens \ {End}) : StringMember(key, value) \in Members(Tokens)
  /\ \A key \in Keys \cup {"x"} : \A n \in DOMAIN Numerals : NumberMember(key, n) \in Members(Tokens)
  /\ \A word \in CmdWords : Cmd(word) \in Members(Tokens)
  <1>1. \A key \in Keys \cup {"x"} : \A value \in Seq(Tokens \ {End}) : StringMember(key, value) \in Members(Tokens)
    BY TokensFacts DEF StringMember, Members
  <1>2. \A key \in Keys \cup {"x"} : \A n \in DOMAIN Numerals : NumberMember(key, n) \in Members(Tokens)
    BY TokensFacts DEF NumberMember, Members
  <1>3. ASSUME NEW word \in CmdWords PROVE Cmd(word) \in Members(Tokens)
    <2>1. word \in Tokens \ {End} /\ "cmd" \in Keys
      BY TokensFacts DEF Keys
    <2>2. <<word>> \in Seq(Tokens \ {End})
      BY <2>1
    <2> QED BY <1>1, <2>1, <2>2 DEF Cmd, Text
  <1> QED BY <1>1, <1>2, <1>3

LEMMA ListIsSeq ==
  ASSUME NEW S, NEW n \in Nat, NEW f \in [1 .. n -> S]
  PROVE f \in Seq(S) /\ Len(f) = n
  <1>1. f \in Seq(S)
    BY SeqDef
  <1>2. DOMAIN f = 1 .. n
    OBVIOUS
  <1>3. PICK m \in Nat : m = Len(f) /\ DOMAIN f = 1 .. m
    BY <1>1, LenProperties
  <1>4. 1 .. m = 1 .. n
    BY <1>2, <1>3
  <1>5. m = n
    <2>1. (m < n => n \in 1 .. n /\ n \notin 1 .. m) /\ (n < m => m \in 1 .. m /\ m \notin 1 .. n)
      OBVIOUS
    <2>2. ~(m < n) /\ ~(n < m)
      BY <1>4, <2>1
    <2> QED BY <2>2
  <1> QED BY <1>1, <1>3, <1>5

LEMMA MaxIs ==
  ASSUME NEW S \in SUBSET Int, NEW m \in S, \A n \in S : n <= m
  PROVE Max(S) = m
  <1>1. \A x \in S : (\A y \in S : x >= y) => x = m
    OBVIOUS
  <1>2. \A y \in S : m >= y
    OBVIOUS
  <1> QED BY <1>1, <1>2 DEF Max

\* Two objects that have the same first member of every name that a request is read by mean the same.
Same(one, other, key) ==
  /\ Named(one, key) = {} <=> Named(other, key) = {}
  /\ Named(one, key) # {} => First(one, key) = First(other, key)

LEMMA SameMeant ==
  ASSUME NEW one, NEW other, \A key \in Keys : Same(one, other, key)
  PROVE Meant(one) = Meant(other)
  <1> DEFINE a == [line |-> FALSE, it |-> one]
             b == [line |-> FALSE, it |-> other]
  <1>1. a.line = FALSE /\ a.it = one /\ b.line = FALSE /\ b.it = other
    OBVIOUS
  <1> HIDE DEF a, b
  <1>2. ASSUME NEW key \in Keys
        PROVE /\ StringIn(a, key) = StringIn(b, key)
              /\ NumberIn(a, key) = NumberIn(b, key)
              /\ KeyIn(a, key) <=> KeyIn(b, key)
    <2>1. /\ Named(one, key) # {} <=> Named(other, key) # {}
          /\ Named(one, key) # {} => First(one, key) = First(other, key)
      BY DEF Same
    <2>2. StringOf(one, key, Room(key)) = StringOf(other, key, Room(key))
      BY <2>1 DEF StringOf
    <2>3. NumberOf(one, key) = NumberOf(other, key)
      BY <2>1 DEF NumberOf
    <2> QED BY <1>1, <2>1, <2>2, <2>3 DEF StringIn, NumberIn, KeyIn
  <1>3. /\ StringIn(a, "cmd") = StringIn(b, "cmd")
        /\ NumberIn(a, "epoch") = NumberIn(b, "epoch")
        /\ NumberIn(a, "interval_s") = NumberIn(b, "interval_s")
        /\ NumberIn(a, "offset") = NumberIn(b, "offset")
        /\ NumberIn(a, "limit") = NumberIn(b, "limit")
    BY <1>2 DEF Keys
  <1>4. Wifi(a) = Wifi(b)
    <2>1. /\ StringIn(a, "ssid") = StringIn(b, "ssid")
          /\ StringIn(a, "password") = StringIn(b, "password")
          /\ KeyIn(a, "password") <=> KeyIn(b, "password")
      BY <1>2 DEF Keys
    <2> QED BY <2>1 DEF Wifi
  <1>5. Asks(a) = Asks(b)
    BY <1>3, <1>4 DEF Asks
  <1> QED BY <1>5 DEF Meant, a, b

\* The parameter that counts for a name.
Counts(query, key, meant, m) ==
  query[m].key = key /\ Value(query, key) = query[m].value /\ First(meant, key) = Parameter(query[m])

\* What the reversed query has of a name is its last parameter of that name.
LEMMA PageHas ==
  ASSUME NEW n \in Nat, NEW query \in [1 .. n -> Parameters], NEW key, NEW meant,
         meant = Reverse([i \in DOMAIN query |-> Parameter(query[i])])
  PROVE /\ (\A i \in 1 .. n : query[i].key # key) => Named(meant, key) = {} /\ Value(query, key) = Empty
        /\ (\E i \in 1 .. n : query[i].key = key) =>
             /\ Named(meant, key) # {}
             /\ \E m \in 1 .. n : Counts(query, key, meant, m)
  <1> DEFINE given == {i \in DOMAIN query : query[i].key = key}
             list == [i \in DOMAIN query |-> Parameter(query[i])]
  <1>1. DOMAIN query = 1 .. n
    OBVIOUS
  <1>2. Len(list) = n
    <2>0. PICK S : S = {Parameter(query[i]) : i \in 1 .. n}
      OBVIOUS
    <2>1. list \in [1 .. n -> S]
      BY <1>1, <2>0
    <2> HIDE DEF list
    <2> QED BY <2>1, ListIsSeq
  <1>3. \A i \in 1 .. n : list[i] = Parameter(query[i])
    BY <1>1
  <1>4. DOMAIN meant = 1 .. n /\ \A i \in 1 .. n : meant[i] = list[(n - i) + 1]
    BY <1>2 DEF Reverse
  <1> HIDE DEF list
  <1>5. ASSUME NEW i \in 1 .. n PROVE (n - i) + 1 \in 1 .. n /\ meant[i] = Parameter(query[(n - i) + 1])
    <2>1. (n - i) + 1 \in 1 .. n
      OBVIOUS
    <2> QED BY <1>3, <1>4, <2>1
  <1>6. \A p : Parameter(p).key = p.key
    BY DEF Parameter, Cmd, StringMember, NumberMember
  <1>7. Named(meant, key) = {i \in 1 .. n : query[(n - i) + 1].key = key}
    BY <1>4, <1>5, <1>6 DEF Named
  <1>8. CASE \A i \in 1 .. n : query[i].key # key
    <2>1. Named(meant, key) = {}
      BY <1>5, <1>7, <1>8
    <2>2. given = {}
      BY <1>1, <1>8
    <2>3. Value(query, key) = Empty
      BY <2>2 DEF Value
    <2> QED BY <1>8, <2>1, <2>3
  <1>9. CASE \E i \in 1 .. n : query[i].key = key
    <2>1. ASSUME NEW i \in 1 .. n, query[i].key = key PROVE (n - i) + 1 \in Named(meant, key)
      <3>1. (n - i) + 1 \in 1 .. n /\ (n - ((n - i) + 1)) + 1 = i
        OBVIOUS
      <3> QED BY <1>7, <2>1, <3>1
    <2>2. Named(meant, key) # {} /\ Named(meant, key) \in SUBSET Nat /\ Named(meant, key) \in SUBSET Int
      <3>1. PICK i \in 1 .. n : query[i].key = key
        BY <1>9
      <3>2. Named(meant, key) # {}
        BY <2>1, <3>1
      <3>3. Named(meant, key) \subseteq 1 .. n
        BY <1>7
      <3>4. \A x \in 1 .. n : x \in Nat /\ x \in Int
        OBVIOUS
      <3>5. \A x \in Named(meant, key) : x \in Nat /\ x \in Int
        BY <3>3, <3>4
      <3> QED BY <3>2, <3>5
    <2>3. PICK j \in Named(meant, key) : \A k \in Named(meant, key) : j <= k
      BY <2>2, LeastExists
    <2>4. Min(Named(meant, key)) = j
      BY <2>2, <2>3, MinIs
    <2>5. PICK m \in Nat : m = (n - j) + 1 /\ m \in 1 .. n /\ j \in 1 .. n /\ query[m].key = key
      BY <1>5, <1>7, <2>3
    <2>6. m \in given /\ given \in SUBSET Int
      BY <1>1, <2>5
    <2>7. ASSUME NEW i \in given PROVE i <= m
      <3>1. i \in 1 .. n /\ j <= (n - i) + 1
        BY <1>1, <2>1, <2>3
      <3> QED BY <2>5, <3>1
    <2>8. Max(given) = m
      <3> HIDE DEF given
      <3> QED BY <2>6, <2>7, MaxIs
    <2>9. Value(query, key) = query[m].value
      BY <2>6, <2>8 DEF Value
    <2>10. First(meant, key) = Parameter(query[m])
      BY <1>5, <2>4, <2>5 DEF First
    <2>11. Counts(query, key, meant, m)
      BY <2>5, <2>9, <2>10 DEF Counts
    <2> QED BY <1>9, <2>2, <2>5, <2>11
  <1> QED BY <1>8, <1>9

\* The numbers of a request.
LEMMA NumbersAre ==
  /\ DOMAIN Numbers = 1 .. 3 /\ Numbers[1] = "offset" /\ Numbers[2] = "limit" /\ Numbers[3] = "epoch"
  /\ \A n \in 1 .. 3 : Numbers[n] \in Keys /\ Numbers[n] # "cmd"
  /\ \A m, n \in 1 .. 3 : Numbers[m] = Numbers[n] => m = n
  /\ \A key \in {"interval_s", "ssid", "password"} : key # "cmd" /\ \A n \in 1 .. 3 : Numbers[n] # key
  /\ Keys = {"cmd"} \cup {Numbers[n] : n \in 1 .. 3} \cup {"interval_s", "ssid", "password"}
  <1>1. DOMAIN Numbers = 1 .. 3 /\ Numbers[1] = "offset" /\ Numbers[2] = "limit" /\ Numbers[3] = "epoch"
    BY DEF Numbers
  <1>2. \A n \in 1 .. 3 : n = 1 \/ n = 2 \/ n = 3
    OBVIOUS
  <1>3. 1 \in 1 .. 3 /\ 2 \in 1 .. 3 /\ 3 \in 1 .. 3
    OBVIOUS
  <1>4. \A n \in 1 .. 3 : Numbers[n] \in Keys /\ Numbers[n] # "cmd"
    BY <1>1, <1>2 DEF Keys
  <1>5. \A m, n \in 1 .. 3 : Numbers[m] = Numbers[n] => m = n
    BY <1>1, <1>2
  <1>6. \A key \in {"interval_s", "ssid", "password"} : key # "cmd" /\ \A n \in 1 .. 3 : Numbers[n] # key
    BY <1>1, <1>2
  <1>7. Keys = {"cmd"} \cup {Numbers[n] : n \in 1 .. 3} \cup {"interval_s", "ssid", "password"}
    <2>1. {Numbers[n] : n \in 1 .. 3} = {"offset", "limit", "epoch"}
      BY <1>1, <1>2, <1>3
    <2> QED BY <2>1 DEF Keys
  <1> QED BY <1>1, <1>4, <1>5, <1>6, <1>7

\* What the line of a query has of a name is the last value that the query gives it.
LEMMA BuiltHas ==
  ASSUME NEW query, Value(query, "cmd") \in CmdWords,
         \A n \in 1 .. 3 : Value(query, Numbers[n]) = Empty \/ Digits(Value(query, Numbers[n]))
  PROVE /\ Built(query) \in Seq(Members(Tokens))
        /\ Named(Built(query), "cmd") # {} /\ First(Built(query), "cmd") = Cmd(Value(query, "cmd"))
        /\ \A n \in 1 .. 3 :
             IF Value(query, Numbers[n]) = Empty THEN Named(Built(query), Numbers[n]) = {}
             ELSE /\ Named(Built(query), Numbers[n]) # {}
                  /\ First(Built(query), Numbers[n]) = NumberMember(Numbers[n], Value(query, Numbers[n]))
        /\ \A key \in {"interval_s", "ssid", "password"} : Named(Built(query), key) = {}
  <1> DEFINE M == Members(Tokens)
             cmd == Cmd(Value(query, "cmd"))
             number(n) == NumberMember(Numbers[n], Value(query, Numbers[n]))
             empty(n) == Value(query, Numbers[n]) = Empty
             parts == [n \in DOMAIN Numbers |-> IF Value(query, Numbers[n]) = Empty THEN <<>>
                                                ELSE <<NumberMember(Numbers[n], Value(query, Numbers[n]))>>]
             s == FlattenSeq(parts)
  <1>1. cmd \in M
    BY MembersOfRequests
  <1>2. cmd.key = "cmd" /\ \A n \in 1 .. 3 : number(n).key = Numbers[n]
    BY DEF Cmd, StringMember, NumberMember
  <1>3. \A n \in 1 .. 3 : ~empty(n) => number(n) \in M
    BY MembersOfRequests, NumbersAre DEF Digits, IsNumeral
  <1>4. Built(query) = <<cmd>> \o s
    BY DEF Built
  <1>5. \A n \in 1 .. 3 : IF empty(n) THEN parts[n] = <<>> ELSE parts[n] = <<number(n)>>
    BY NumbersAre
  <1>6. DOMAIN parts = 1 .. 3 /\ parts = [n \in 1 .. 3 |-> parts[n]]
    BY NumbersAre
  <1> HIDE DEF M, cmd, number, empty, parts
  <1>7. \A n \in 1 .. 3 : /\ parts[n] \in Seq(M)
                          /\ empty(n) => Len(parts[n]) = 0
                          /\ ~empty(n) => Len(parts[n]) = 1 /\ parts[n][1] = number(n)
    <2> SUFFICES ASSUME NEW n \in 1 .. 3
                 PROVE /\ parts[n] \in Seq(M)
                       /\ empty(n) => Len(parts[n]) = 0
                       /\ ~empty(n) => Len(parts[n]) = 1 /\ parts[n][1] = number(n)
      OBVIOUS
    <2>1. CASE empty(n)
      BY <1>5, <2>1, EmptySeq
    <2>2. CASE ~empty(n)
      <3>1. parts[n] = <<number(n)>> /\ number(n) \in M
        BY <1>3, <1>5, <2>2
      <3> QED BY <2>2, <3>1
    <2> QED BY <2>1, <2>2
  <1>8. parts \in Seq(Seq(M)) /\ Len(parts) = 3
    <2>1. parts \in [1 .. 3 -> Seq(M)]
      BY <1>6, <1>7
    <2>2. 3 \in Nat
      OBVIOUS
    <2> QED BY <2>1, <2>2, ListIsSeq
  <1>9. s \in Seq(M)
    BY <1>8, Flattened
  <1>10. PICK at : Laid(parts, 3, at, s)
    BY <1>8, Flattened
  <1> HIDE DEF s
  <1>11. /\ \A m \in 1 .. 3 : \A k \in 1 .. Len(parts[m]) : at[m] + k \in 1 .. Len(s) /\ s[at[m] + k] = parts[m][k]
         /\ \A i \in 1 .. Len(s) : \E m \in 1 .. 3 : \E k \in 1 .. Len(parts[m]) : i = at[m] + k
         /\ \A m \in 1 .. 3 : at[m] \in Nat
    <2>1. \A m \in 1 .. 3 : at[m] \in Nat
      <3>1. \A m \in 1 .. 3 : m \in 1 .. 3 + 1
        OBVIOUS
      <3> QED BY <1>10, <3>1 DEF Laid
    <2> QED BY <1>10, <2>1 DEF Laid
  <1>12. PICK b : b = Built(query)
    OBVIOUS
  <1>13. PICK L \in Nat : L = Len(s)
    BY <1>9, LenProperties
  <1>14. /\ b \in Seq(M) /\ DOMAIN b = 1 .. L + 1 /\ b[1] = cmd
         /\ \A i \in 1 .. L : b[1 + i] = s[i]
    <2>1. <<cmd>> \in Seq(M) /\ Len(<<cmd>>) = 1 /\ <<cmd>>[1] = cmd
      BY <1>1
    <2>2. /\ <<cmd>> \o s \in Seq(M) /\ Len(<<cmd>> \o s) = Len(<<cmd>>) + Len(s)
          /\ \A i \in 1 .. Len(<<cmd>>) : (<<cmd>> \o s)[i] = <<cmd>>[i]
          /\ \A i \in 1 .. Len(s) : (<<cmd>> \o s)[Len(<<cmd>>) + i] = s[i]
      BY <1>9, <2>1, Cat
    <2>3. b \in Seq(M) /\ Len(b) = L + 1 /\ b[1] = cmd /\ \A i \in 1 .. L : b[1 + i] = s[i]
      BY <1>4, <1>12, <1>13, <2>1, <2>2
    <2> QED BY <2>3, LenProperties
  \* Each number that is given stands once, after the command.
  <1>15. ASSUME NEW m \in 1 .. 3, ~empty(m)
         PROVE at[m] + 2 \in 1 .. L + 1 /\ b[at[m] + 2] = number(m)
    <2>1. Len(parts[m]) = 1 /\ parts[m][1] = number(m) /\ at[m] \in Nat
      BY <1>7, <1>11, <1>15
    <2>2. 1 \in 1 .. Len(parts[m])
      BY <2>1
    <2>3. at[m] + 1 \in 1 .. L /\ s[at[m] + 1] = number(m)
      BY <1>11, <1>13, <2>1, <2>2
    <2>4. 1 + (at[m] + 1) = at[m] + 2
      BY <2>1
    <2>5. at[m] + 2 \in 1 .. L + 1
      BY <2>1, <2>3
    <2> QED BY <1>14, <2>3, <2>4, <2>5
  <1>16. ASSUME NEW i \in 1 .. L + 1, i # 1
         PROVE \E m \in 1 .. 3 : ~empty(m) /\ i = at[m] + 2 /\ b[i] = number(m)
    <2>1. i - 1 \in 1 .. L
      BY <1>16
    <2>2. PICK m \in 1 .. 3 : \E k \in 1 .. Len(parts[m]) : i - 1 = at[m] + k
      BY <1>11, <1>13, <2>1
    <2>3. PICK k \in 1 .. Len(parts[m]) : i - 1 = at[m] + k
      BY <2>2
    <2>4. ~empty(m) /\ k = 1
      <3>1. empty(m) => Len(parts[m]) = 0
        BY <1>7
      <3>2. ~empty(m) => Len(parts[m]) = 1
        BY <1>7
      <3>3. CASE empty(m)
        BY <2>3, <3>1, <3>3
      <3>4. CASE ~empty(m)
        <4>1. Len(parts[m]) = 1
          BY <3>2, <3>4
        <4>2. k = 1
          BY <2>3, <4>1
        <4> QED BY <3>4, <4>2
      <3> QED BY <3>3, <3>4
    <2>5. i = at[m] + 2
      BY <1>11, <2>1, <2>3, <2>4
    <2> QED BY <1>15, <2>4, <2>5
  <1>17. Named(b, "cmd") # {} /\ First(b, "cmd") = cmd
    <2>1. 1 \in Named(b, "cmd") /\ Named(b, "cmd") \in SUBSET Int /\ \A i \in Named(b, "cmd") : 1 <= i
      BY <1>2, <1>14 DEF Named
    <2>2. Min(Named(b, "cmd")) = 1
      BY <2>1, MinIs
    <2> QED BY <1>14, <2>1, <2>2 DEF First
  <1>18. ASSUME NEW n \in 1 .. 3
         PROVE IF empty(n) THEN Named(b, Numbers[n]) = {}
               ELSE Named(b, Numbers[n]) # {} /\ First(b, Numbers[n]) = number(n)
    <2>1. ASSUME NEW i \in Named(b, Numbers[n]) PROVE ~empty(n) /\ i = at[n] + 2
      <3>1. i \in 1 .. L + 1 /\ b[i].key = Numbers[n] /\ i # 1
        BY <1>2, <1>14, NumbersAre DEF Named
      <3>2. PICK m \in 1 .. 3 : ~empty(m) /\ i = at[m] + 2 /\ b[i] = number(m)
        BY <1>16, <3>1
      <3>3. m = n
        BY <1>2, <3>1, <3>2, NumbersAre
      <3> QED BY <3>2, <3>3
    <2>2. CASE empty(n)
      BY <2>1, <2>2
    <2>3. CASE ~empty(n)
      <3>1. PICK j \in Nat : j = at[n] + 2
        BY <1>11
      <3>2. j \in 1 .. L + 1 /\ b[j] = number(n) /\ b[j].key = Numbers[n]
        BY <1>2, <1>15, <2>3, <3>1
      <3>3. j \in Named(b, Numbers[n])
        BY <1>14, <3>2 DEF Named
      <3>4. Named(b, Numbers[n]) = {j}
        BY <2>1, <3>1, <3>3
      <3>5. Min({j}) = j
        BY MinIs
      <3> QED BY <2>3, <3>2, <3>4, <3>5 DEF First
    <2> QED BY <2>2, <2>3
  <1>19. ASSUME NEW key \in {"interval_s", "ssid", "password"} PROVE Named(b, key) = {}
    <2> SUFFICES ASSUME NEW i \in Named(b, key) PROVE FALSE
      OBVIOUS
    <2>1. i \in 1 .. L + 1 /\ b[i].key = key /\ i # 1
      BY <1>2, <1>14, NumbersAre DEF Named
    <2>2. PICK m \in 1 .. 3 : b[i] = number(m)
      BY <1>16, <2>1
    <2> QED BY <1>2, <2>1, <2>2, NumbersAre
  <1> QED BY <1>12, <1>14, <1>17, <1>18, <1>19 DEF M, cmd, empty, number

\* The page is answered as its query says.
LEMMA PageParsedIsMeant ==
  ASSUME NEW query \in Queries, NEW method, Buildable(method, query)
  PROVE /\ Parsed(Line(query)) = PageMeant(query)
        /\ Parsed(Line(query)) = Meant(Built(query))
  <1>1. PICK n \in Nat : query \in [1 .. n -> Parameters]
    BY DEF Queries
  <1>2. PICK meant : meant = Reverse([i \in DOMAIN query |-> Parameter(query[i])])
    OBVIOUS
  <1>3. /\ Value(query, "cmd") \in CmdWords
        /\ \A m \in 1 .. 3 : Value(query, Numbers[m]) = Empty \/ Digits(Value(query, Numbers[m]))
        /\ \A i \in 1 .. n : query[i].value # Empty /\ query[i].key \in {"cmd"} \cup {Numbers[m] : m \in 1 .. 3}
    BY <1>1, NumbersAre DEF Buildable
  <1>4. PICK b : b = Built(query)
    OBVIOUS
  <1>5. /\ b \in Seq(Members(Tokens))
        /\ Named(b, "cmd") # {} /\ First(b, "cmd") = Cmd(Value(query, "cmd"))
        /\ \A m \in 1 .. 3 :
             IF Value(query, Numbers[m]) = Empty THEN Named(b, Numbers[m]) = {}
             ELSE /\ Named(b, Numbers[m]) # {}
                  /\ First(b, Numbers[m]) = NumberMember(Numbers[m], Value(query, Numbers[m]))
        /\ \A key \in {"interval_s", "ssid", "password"} : Named(b, key) = {}
    BY <1>3, <1>4, BuiltHas
  <1>6. Same(b, meant, "cmd")
    <2>1. \E i \in 1 .. n : query[i].key = "cmd"
      <3> SUFFICES ASSUME \A i \in 1 .. n : query[i].key # "cmd" PROVE FALSE
        OBVIOUS
      <3>1. Value(query, "cmd") = Empty
        BY <1>1, <1>2, PageHas
      <3> QED BY <1>3, <3>1, TokensFacts
    <2>2. Named(meant, "cmd") # {}
      BY <1>1, <1>2, <2>1, PageHas
    <2>3. PICK m \in 1 .. n : Counts(query, "cmd", meant, m)
      BY <1>1, <1>2, <2>1, PageHas
    <2>4. First(meant, "cmd") = Cmd(Value(query, "cmd"))
      BY <2>3 DEF Counts, Parameter
    <2> QED BY <1>5, <2>2, <2>4 DEF Same
  <1>7. ASSUME NEW k \in 1 .. 3 PROVE Same(b, meant, Numbers[k])
    <2>0. Numbers[k] # "cmd"
      BY NumbersAre
    <2>1. CASE \A i \in 1 .. n : query[i].key # Numbers[k]
      <3>1. Named(meant, Numbers[k]) = {} /\ Value(query, Numbers[k]) = Empty
        BY <1>1, <1>2, <2>1, PageHas
      <3> QED BY <1>5, <3>1 DEF Same
    <2>2. CASE \E i \in 1 .. n : query[i].key = Numbers[k]
      <3>1. Named(meant, Numbers[k]) # {}
        BY <1>1, <1>2, <2>2, PageHas
      <3>2. PICK m \in 1 .. n : Counts(query, Numbers[k], meant, m)
        BY <1>1, <1>2, <2>2, PageHas
      <3>3. Value(query, Numbers[k]) # Empty
        BY <1>3, <3>2 DEF Counts
      <3>4. First(meant, Numbers[k]) = NumberMember(Numbers[k], Value(query, Numbers[k]))
        BY <2>0, <3>2 DEF Counts, Parameter
      <3> QED BY <1>5, <3>1, <3>3, <3>4 DEF Same
    <2> QED BY <2>1, <2>2
  <1>8. ASSUME NEW key \in {"interval_s", "ssid", "password"} PROVE Same(b, meant, key)
    <2>1. \A i \in 1 .. n : query[i].key # key
      BY <1>3, NumbersAre
    <2>2. Named(meant, key) = {}
      BY <1>1, <1>2, <2>1, PageHas
    <2> QED BY <1>5, <2>2 DEF Same
  <1>9. \A key \in Keys : Same(b, meant, key)
    BY <1>6, <1>7, <1>8, NumbersAre
  <1>10. Meant(b) = Meant(meant)
    BY <1>9, SameMeant
  <1>11. Parsed(Line(query)) = Meant(b)
    <2>1. <<>> \in Seq({Space})
      BY EmptySeq
    <2>2. Keys \subseteq Tokens
      BY DEF Tokens
    <2> QED BY <1>4, <1>5, <2>1, <2>2, TokensFacts, ParsedIsMeant DEF Line
  <1> QED BY <1>2, <1>4, <1>10, <1>11 DEF PageMeant

(***************************************************************************)
(* The reply buffer.                                                       *)
(***************************************************************************)
Weight(piece) == IF piece[1] = "record" THEN 2 ELSE 1

\* f holds the sizes of the first pieces.
Weighs(pieces, n, f) ==
  f \in [0 .. n -> Nat] /\ f[0] = 0 /\ \A k \in 1 .. n : f[k] = f[k - 1] + Weight(pieces[k])

LEMMA WeighsNext ==
  ASSUME NEW pieces, NEW n \in Nat, NEW f, Weighs(pieces, n, f)
  PROVE Weighs(pieces, n + 1, [k \in 0 .. n + 1 |-> IF k = n + 1 THEN f[n] + Weight(pieces[n + 1]) ELSE f[k]])
  <1> DEFINE g == [k \in 0 .. n + 1 |-> IF k = n + 1 THEN f[n] + Weight(pieces[n + 1]) ELSE f[k]]
  <1>1. f \in [0 .. n -> Nat] /\ f[0] = 0 /\ \A k \in 1 .. n : f[k] = f[k - 1] + Weight(pieces[k])
    BY DEF Weighs
  <1>2. Weight(pieces[n + 1]) \in Nat
    BY DEF Weight
  <1>3. f[n] \in Nat /\ f[n] + Weight(pieces[n + 1]) \in Nat
    BY <1>1, <1>2
  <1>4. g \in [0 .. n + 1 -> Nat] /\ g[n + 1] = f[n] + Weight(pieces[n + 1]) /\ \A k \in 0 .. n : g[k] = f[k]
    BY <1>1, <1>3
  <1> HIDE DEF g
  <1>5. ASSUME NEW k \in 1 .. n + 1 PROVE g[k] = g[k - 1] + Weight(pieces[k])
    <2>1. CASE k = n + 1
      <3>1. k - 1 = n /\ n \in 0 .. n
        BY <2>1
      <3> QED BY <1>4, <2>1, <3>1
    <2>2. CASE k # n + 1
      <3>1. k \in 1 .. n /\ k \in 0 .. n /\ k - 1 \in 0 .. n
        BY <2>2
      <3> QED BY <1>1, <1>4, <3>1
    <2> QED BY <2>1, <2>2
  <1>6. g[0] = 0
    <2>1. 0 \in 0 .. n
      OBVIOUS
    <2> QED BY <1>1, <1>4, <2>1
  <1>7. Weighs(pieces, n + 1, g)
    BY <1>4, <1>5, <1>6 DEF Weighs
  <1> QED BY <1>7 DEF g

LEMMA SizeIs ==
  ASSUME NEW S, NEW pieces \in Seq(S)
  PROVE \E f : Weighs(pieces, Len(pieces), f) /\ Size(pieces) = f[Len(pieces)]
  <1>1. PICK L \in Nat : L = Len(pieces)
    BY LenProperties
  <1> DEFINE P(n) == \E f : Weighs(pieces, n, f)
             Bad == {n \in Nat : ~P(n)}
  <1>2. P(0)
    <2> DEFINE f == [k \in 0 .. 0 |-> 0]
    <2>1. f \in [0 .. 0 -> Nat] /\ f[0] = 0 /\ 1 .. 0 = {}
      OBVIOUS
    <2> HIDE DEF f
    <2>2. Weighs(pieces, 0, f)
      BY <2>1 DEF Weighs
    <2> QED BY <2>2
  <1>3. ASSUME NEW n \in Nat, P(n) PROVE P(n + 1)
    BY <1>3, WeighsNext
  <1>4. Bad = {}
    <2> SUFFICES ASSUME Bad # {} PROVE FALSE
      OBVIOUS
    <2> HIDE DEF P
    <2>1. PICK n \in Bad : \A m \in Bad : n <= m
      BY LeastExists
    <2>2. n \in Nat /\ ~P(n) /\ n # 0
      BY <1>2, <2>1
    <2>3. n - 1 \in Nat /\ ~(n <= n - 1) /\ (n - 1) + 1 = n
      BY <2>2
    <2>4. P(n - 1)
      BY <2>1, <2>3
    <2>5. P((n - 1) + 1)
      BY <1>3, <2>3, <2>4
    <2> QED BY <2>2, <2>3, <2>5
  <1>5. PICK f : Weighs(pieces, L, f)
    <2>1. P(L)
      BY <1>4
    <2> QED BY <2>1
  <1> DEFINE Step(g, n) == IF n = 0 THEN 0 ELSE g[n - 1] + (IF pieces[n][1] = "record" THEN 2 ELSE 1)
             upTo == CHOOSE g : g = [n \in 0 .. Len(pieces) |-> Step(g, n)]
  <1>6. Size(pieces) = upTo[Len(pieces)]
    BY DEF Size
  <1>7. f = [n \in 0 .. L |-> Step(f, n)]
    <2>1. \A n \in 0 .. L : n = 0 \/ n \in 1 .. L
      OBVIOUS
    <2>2. \A n \in 0 .. L : f[n] = Step(f, n)
      BY <1>5, <2>1 DEF Weighs, Weight
    <2>3. f = [n \in 0 .. L |-> f[n]]
      BY <1>5 DEF Weighs
    <2> QED BY <2>2, <2>3
  <1>8. upTo = [n \in 0 .. L |-> Step(upTo, n)]
    BY <1>1, <1>7
  <1> HIDE DEF upTo
  <1>9. \A n \in 0 .. L : upTo[n] = Step(upTo, n)
    BY <1>8
  <1>10. \A n \in 0 .. L : f[n] = Step(f, n)
    BY <1>7
  <1> DEFINE Differ == {n \in Nat : n <= L /\ upTo[n] # f[n]}
  <1>11. Differ = {}
    <2> SUFFICES ASSUME Differ # {} PROVE FALSE
      OBVIOUS
    <2>1. PICK n \in Differ : \A m \in Differ : n <= m
      BY LeastExists
    <2>2. n \in 0 .. L /\ upTo[n] # f[n]
      BY <2>1
    <2>3. upTo[n] = Step(upTo, n) /\ f[n] = Step(f, n)
      BY <1>9, <1>10, <2>2
    <2>4. CASE n = 0
      BY <2>2, <2>3, <2>4
    <2>5. CASE n # 0
      <3>1. n - 1 \in Nat /\ n - 1 <= L /\ ~(n <= n - 1)
        BY <2>2, <2>5
      <3>2. upTo[n - 1] = f[n - 1]
        BY <2>1, <3>1
      <3> QED BY <2>2, <2>3, <2>5, <3>2
    <2> QED BY <2>4, <2>5
  <1>12. upTo[L] = f[L]
    BY <1>11
  <1> QED BY <1>1, <1>5, <1>6, <1>12

\* A piece more adds what it takes.
LEMMA SizeGrows ==
  ASSUME NEW S, NEW pieces \in Seq(S), NEW piece \in S
  PROVE /\ Size(pieces) \in Nat
        /\ Size(Append(pieces, piece)) = Size(pieces) + Weight(piece)
        /\ Weight(piece) \in Nat /\ Weight(piece) > 0
  <1>1. PICK L \in Nat : L = Len(pieces)
    BY LenProperties
  <1>2. PICK f : Weighs(pieces, L, f) /\ Size(pieces) = f[L]
    BY <1>1, SizeIs
  <1>3. PICK t : t = Append(pieces, piece)
    OBVIOUS
  <1>4. t \in Seq(S) /\ Len(t) = L + 1 /\ t[L + 1] = piece /\ \A k \in 1 .. L : t[k] = pieces[k]
    BY <1>1, <1>3, AppendProperties
  <1>5. PICK g : Weighs(t, L + 1, g) /\ Size(t) = g[L + 1]
    BY <1>4, SizeIs
  <1>6. /\ f \in [0 .. L -> Nat] /\ f[0] = 0 /\ \A k \in 1 .. L : f[k] = f[k - 1] + Weight(pieces[k])
        /\ g \in [0 .. L + 1 -> Nat] /\ g[0] = 0 /\ \A k \in 1 .. L + 1 : g[k] = g[k - 1] + Weight(t[k])
    BY <1>2, <1>5 DEF Weighs
  <1> DEFINE Differ == {n \in Nat : n <= L /\ f[n] # g[n]}
  <1>7. Differ = {}
    <2> SUFFICES ASSUME Differ # {} PROVE FALSE
      OBVIOUS
    <2>1. PICK n \in Differ : \A m \in Differ : n <= m
      BY LeastExists
    <2>2. n \in Nat /\ n <= L /\ f[n] # g[n]
      BY <2>1
    <2>3. n # 0
      BY <1>6, <2>2
    <2>4. n - 1 \in Nat /\ n - 1 <= L /\ ~(n <= n - 1) /\ n \in 1 .. L /\ n \in 1 .. L + 1
      BY <2>2, <2>3
    <2>5. f[n - 1] = g[n - 1]
      BY <2>1, <2>4
    <2>6. f[n] = f[n - 1] + Weight(pieces[n]) /\ g[n] = g[n - 1] + Weight(t[n]) /\ t[n] = pieces[n]
      BY <1>4, <1>6, <2>4
    <2> QED BY <2>2, <2>5, <2>6
  <1>8. f[L] = g[L] /\ f[L] \in Nat
    <2>1. L \in 0 .. L
      OBVIOUS
    <2>2. f[L] \in Nat
      BY <1>6, <2>1
    <2> QED BY <1>7, <2>2
  <1>9. g[L + 1] = g[L] + Weight(piece)
    <2>1. L + 1 \in 1 .. L + 1 /\ (L + 1) - 1 = L
      OBVIOUS
    <2>2. g[L + 1] = g[(L + 1) - 1] + Weight(t[L + 1])
      BY <1>6, <2>1
    <2> QED BY <1>4, <2>1, <2>2
  <1>10. Weight(piece) \in Nat /\ Weight(piece) > 0
    BY DEF Weight
  <1> QED BY <1>2, <1>3, <1>5, <1>8, <1>9, <1>10

\* What is in the buffer after the first n pieces.
Holds(pieces, n, buffer) ==
  IF Size(SubSeq(pieces, 1, n)) > ResponseMax
    THEN \E held : buffer = [held |-> held, full |-> TRUE]
    ELSE buffer = [held |-> SubSeq(pieces, 1, n), full |-> FALSE]

LEMMA TakenHolds ==
  ASSUME NEW S, NEW pieces \in Seq(S), NEW n \in Nat, n + 1 <= Len(pieces), NEW buffer, Holds(pieces, n, buffer)
  PROVE Holds(pieces, n + 1, Taken(buffer, pieces[n + 1]))
  <1>1. PICK L \in Nat : L = Len(pieces)
    BY LenProperties
  <1>2. \A k \in 1 .. L : pieces[k] \in S
    BY <1>1, ElementOfSeq
  <1>3. PICK before : before = SubSeq(pieces, 1, n)
    OBVIOUS
  <1>4. PICK after : after = SubSeq(pieces, 1, n + 1)
    OBVIOUS
  <1>5. before \in Seq(S) /\ pieces[n + 1] \in S
    <2>1. \A k \in 1 .. n : pieces[k] \in S
      <3>1. \A k \in 1 .. n : k \in 1 .. L
        BY <1>1
      <3> QED BY <1>2, <3>1
    <2>2. n + 1 \in 1 .. L
      BY <1>1
    <2> QED BY <1>2, <1>3, <2>1, <2>2, SubSeqProperties
  <1>6. after = Append(before, pieces[n + 1])
    <2>1. 1 \in 1 .. Len(pieces) /\ n + 1 \in 1 .. Len(pieces) /\ (n + 1) - 1 = n
      BY <1>1
    <2>2. SubSeq(pieces, 1, n + 1) = SubSeq(pieces, 1, (n + 1) - 1) \o <<pieces[n + 1]>>
      BY <2>1, SubSeqRecursiveSecond
    <2>3. before \o <<pieces[n + 1]>> = Append(before, pieces[n + 1])
      BY <1>5, AppendIsConcat
    <2> QED BY <1>3, <1>4, <2>1, <2>2, <2>3
  <1>7. /\ Size(before) \in Nat /\ Size(after) = Size(before) + Weight(pieces[n + 1])
        /\ Weight(pieces[n + 1]) \in Nat /\ Weight(pieces[n + 1]) > 0
    BY <1>5, <1>6, SizeGrows
  <1>8. Size(before) > ResponseMax => Size(after) > ResponseMax
    BY <1>7, SizesAssumption
  <1>9. CASE Size(before) > ResponseMax
    <2>1. PICK held : buffer = [held |-> held, full |-> TRUE]
      BY <1>3, <1>9 DEF Holds
    <2>2. Taken(buffer, pieces[n + 1]) = [held |-> held, full |-> TRUE]
      BY <2>1 DEF Taken
    <2> QED BY <1>4, <1>8, <1>9, <2>2 DEF Holds
  <1>10. CASE ~(Size(before) > ResponseMax)
    <2>1. buffer = [held |-> before, full |-> FALSE]
      BY <1>3, <1>10 DEF Holds
    <2>2. buffer.full = FALSE /\ buffer.held = before
      BY <2>1
    <2>3. CASE Size(after) > ResponseMax
      <3>1. Taken(buffer, pieces[n + 1]) = [buffer EXCEPT !.full = TRUE]
        BY <1>6, <2>2, <2>3 DEF Taken
      <3>2. Taken(buffer, pieces[n + 1]) = [held |-> before, full |-> TRUE]
        BY <2>1, <3>1
      <3> QED BY <1>4, <2>3, <3>2 DEF Holds
    <2>4. CASE ~(Size(after) > ResponseMax)
      <3>1. Taken(buffer, pieces[n + 1]) = [buffer EXCEPT !.held = Append(@, pieces[n + 1])]
        BY <1>6, <2>2, <2>4 DEF Taken
      <3>2. Taken(buffer, pieces[n + 1]) = [held |-> after, full |-> FALSE]
        BY <1>6, <2>1, <3>1
      <3> QED BY <1>4, <2>4, <3>2 DEF Holds
    <2> QED BY <2>3, <2>4
  <1> QED BY <1>9, <1>10

\* From an empty buffer: the whole reply, or full exactly if it is longer than the buffer.
LEMMA BufferedIs ==
  ASSUME NEW S, NEW pieces \in Seq(S), resp = <<>>, overflow = FALSE
  PROVE IF Size(pieces) > ResponseMax THEN Buffered(pieces).full = TRUE
        ELSE Buffered(pieces).held = pieces /\ Buffered(pieces).full = FALSE
  <1>1. PICK L \in Nat : L = Len(pieces)
    BY LenProperties
  <1> DEFINE start == [held |-> resp, full |-> overflow]
             Step(f, n) == IF n = 0 THEN start ELSE Taken(f[n - 1], pieces[n])
             P(m) == \E f : f = [n \in 0 .. m |-> f[n]] /\ \A n \in 0 .. m : f[n] = Step(f, n)
             Bad == {m \in Nat : ~P(m)}
             after == CHOOSE f : f = [n \in 0 .. Len(pieces) |-> Step(f, n)]
  <1>2. Buffered(pieces) = after[Len(pieces)]
    BY DEF Buffered
  <1>3. start = [held |-> <<>>, full |-> FALSE]
    OBVIOUS
  <1> HIDE DEF start
  <1>4. P(0)
    <2> DEFINE f == [n \in 0 .. 0 |-> start]
    <2>1. f = [n \in 0 .. 0 |-> f[n]] /\ \A n \in 0 .. 0 : n = 0 /\ f[n] = start
      OBVIOUS
    <2> HIDE DEF f
    <2> QED BY <2>1
  <1>5. ASSUME NEW m \in Nat, P(m) PROVE P(m + 1)
    <2>1. PICK f : f = [n \in 0 .. m |-> f[n]] /\ \A n \in 0 .. m : f[n] = Step(f, n)
      BY <1>5
    <2> DEFINE g == [n \in 0 .. m + 1 |-> IF n = m + 1 THEN Taken(f[m], pieces[m + 1]) ELSE f[n]]
    <2>2. /\ g = [n \in 0 .. m + 1 |-> g[n]] /\ g[m + 1] = Taken(f[m], pieces[m + 1])
          /\ \A n \in 0 .. m : g[n] = f[n]
      OBVIOUS
    <2> HIDE DEF g
    <2>3. ASSUME NEW n \in 0 .. m + 1 PROVE g[n] = Step(g, n)
      <3>1. CASE n = m + 1
        <4>1. n - 1 = m /\ m \in 0 .. m /\ n # 0
          BY <3>1
        <4> QED BY <2>2, <3>1, <4>1
      <3>2. CASE n # m + 1
        <4>1. n \in 0 .. m /\ (n # 0 => n - 1 \in 0 .. m)
          BY <3>2
        <4>2. f[n] = Step(f, n)
          BY <2>1, <4>1
        <4> QED BY <2>2, <4>1, <4>2
      <3> QED BY <3>1, <3>2
    <2> QED BY <2>2, <2>3
  <1>6. Bad = {}
    <2> SUFFICES ASSUME Bad # {} PROVE FALSE
      OBVIOUS
    <2> HIDE DEF P
    <2>1. PICK n \in Bad : \A m \in Bad : n <= m
      BY LeastExists
    <2>2. n \in Nat /\ ~P(n) /\ n # 0
      BY <1>4, <2>1
    <2>3. n - 1 \in Nat /\ ~(n <= n - 1) /\ (n - 1) + 1 = n
      BY <2>2
    <2>4. P(n - 1)
      BY <2>1, <2>3
    <2>5. P((n - 1) + 1)
      BY <1>5, <2>3, <2>4
    <2> QED BY <2>2, <2>3, <2>5
  <1>7. \A n \in 0 .. L : after[n] = Step(after, n)
    <2>1. P(L)
      <3> HIDE DEF P
      <3> QED BY <1>6
    <2>2. PICK f : f = [n \in 0 .. L |-> f[n]] /\ \A n \in 0 .. L : f[n] = Step(f, n)
      BY <2>1
    <2>3. f = [n \in 0 .. Len(pieces) |-> Step(f, n)]
      BY <1>1, <2>2
    <2>4. after = [n \in 0 .. Len(pieces) |-> Step(after, n)]
      BY <2>3
    <2> HIDE DEF after
    <2> QED BY <1>1, <2>4
  <1> HIDE DEF after
  <1> DEFINE Wrong == {n \in Nat : n <= L /\ ~Holds(pieces, n, after[n])}
  <1>8. Wrong = {}
    <2> SUFFICES ASSUME Wrong # {} PROVE FALSE
      OBVIOUS
    <2>1. PICK n \in Wrong : \A m \in Wrong : n <= m
      BY LeastExists
    <2>2. n \in Nat /\ n <= L /\ ~Holds(pieces, n, after[n])
      BY <2>1
    <2>3. CASE n = 0
      <3>1. after[0] = [held |-> <<>>, full |-> FALSE]
        BY <1>3, <1>7
      <3>2. SubSeq(pieces, 1, 0) = <<>>
        <4>1. 1 \in Int /\ 0 \in Int /\ 0 < 1
          OBVIOUS
        <4> QED BY <4>1, SubSeqEmpty
      <3>3. Size(<<>>) = 0
        <4>1. <<>> \in Seq(S) /\ Len(<<>>) = 0
          BY EmptySeq
        <4>2. PICK f : Weighs(<<>>, 0, f) /\ Size(<<>>) = f[0]
          BY <4>1, SizeIs
        <4> QED BY <4>2 DEF Weighs
      <3>4. Holds(pieces, 0, after[0])
        <4>1. ~(Size(SubSeq(pieces, 1, 0)) > ResponseMax)
          <5>1. ResponseMax \in Nat /\ ~(0 > ResponseMax)
            BY SizesAssumption
          <5>2. Size(SubSeq(pieces, 1, 0)) = 0
            BY <3>2, <3>3
          <5> QED BY <5>1, <5>2
        <4> QED BY <3>1, <3>2, <4>1 DEF Holds
      <3> QED BY <2>2, <2>3, <3>4
    <2>4. CASE n # 0
      <3>1. n - 1 \in Nat /\ n - 1 <= L /\ ~(n <= n - 1) /\ (n - 1) + 1 = n /\ n \in 0 .. L
        BY <2>2, <2>4
      <3>2. Holds(pieces, n - 1, after[n - 1])
        BY <2>1, <3>1
      <3>3. Holds(pieces, (n - 1) + 1, Taken(after[n - 1], pieces[(n - 1) + 1]))
        <4>1. (n - 1) + 1 <= Len(pieces)
          BY <1>1, <2>2
        <4> QED BY <3>1, <3>2, <4>1, TakenHolds
      <3>4. after[n] = Taken(after[n - 1], pieces[n])
        BY <1>7, <2>4, <3>1
      <3> QED BY <2>2, <3>1, <3>3, <3>4
    <2> QED BY <2>3, <2>4
  <1>9. Holds(pieces, L, after[L])
    BY <1>8
  <1>10. SubSeq(pieces, 1, L) = pieces
    BY <1>1, SubSeqFull
  <1>11. CASE Size(pieces) > ResponseMax
    <2>1. PICK held : after[L] = [held |-> held, full |-> TRUE]
      BY <1>9, <1>10, <1>11 DEF Holds
    <2> QED BY <1>1, <1>2, <1>11, <2>1
  <1>12. CASE ~(Size(pieces) > ResponseMax)
    <2>1. after[L] = [held |-> pieces, full |-> FALSE]
      BY <1>9, <1>10, <1>12 DEF Holds
    <2> QED BY <1>1, <1>2, <1>12, <2>1
  <1> QED BY <1>11, <1>12

(***************************************************************************)
(* What is asked.                                                          *)
(***************************************************************************)
Objects == Seq(Members(Tokens))

LEMMA RequestObjects == \A object \in Plain \cup Decoys : object \in Objects
  <1>1. /\ \A key \in Keys \cup {"x"} : \A value \in Seq(Tokens \ {End}) : <<StringMember(key, value)>> \in Objects
        /\ \A key \in Keys \cup {"x"} : \A n \in DOMAIN Numerals : <<NumberMember(key, n)>> \in Objects
        /\ \A one \in Objects, other \in Objects : one \o other \in Objects
        /\ <<>> \in Objects
    <2>1. \A m \in Members(Tokens) : <<m>> \in Objects
      BY DEF Objects
    <2>2. \A one \in Objects, other \in Objects : one \o other \in Objects
      BY Cat DEF Objects
    <2>3. <<>> \in Objects
      BY EmptySeq DEF Objects
    <2> QED BY <2>1, <2>2, <2>3, MembersOfRequests
  <1>2. /\ {"cmd", "epoch", "interval_s", "offset", "limit", "ssid", "password", "x"} = Keys \cup {"x"}
        /\ {"n0", "n1", "n2", "n4", "n60", "n5000", Beyond} \subseteq DOMAIN Numerals
    BY DEF Keys, Numerals, Beyond
  <1>3. \A t \in Tokens \ {End} : <<t>> \in Seq(Tokens \ {End}) /\ \A u \in Tokens \ {End} : <<t, u>> \in Seq(Tokens \ {End})
    OBVIOUS
  <1>4. \A s \in WifiStrings \cup {<<"w8">>, <<"n60">>} : s \in Seq(Tokens \ {End})
    BY <1>3, TokensFacts, EmptySeq DEF WifiStrings
  <1>5. \A word \in Commands : <<Cmd(word)>> \in Objects
    BY MembersOfRequests DEF CmdWords, Objects
  <1>6. ASSUME NEW object \in Decoys PROVE object \in Objects
    <2>1. <<"cmd">> \in Seq(Tokens \ {End}) /\ <<Quote, "cmd">> \in Seq(Tokens \ {End}) /\ <<"epoch", Backslash>> \in Seq(Tokens \ {End})
      BY <1>3, TokensFacts
    <2> QED BY <1>1, <1>2, <2>1 DEF Decoys
  <1>7. ASSUME NEW word \in Commands, NEW arguments \in Arguments(word) PROVE arguments \in Objects
    <2>1. CASE word = "set_time"
      <3>1. arguments = <<>> \/ \E n \in {"n1", Beyond} : arguments = <<NumberMember("epoch", n)>>
        BY <2>1 DEF Arguments
      <3> QED BY <1>1, <1>2, <3>1
    <2>2. CASE word = "set_interval"
      <3>1. \/ \E n \in {"n4", "n60", "n5000", Beyond} : arguments = <<NumberMember("interval_s", n)>>
            \/ arguments = <<StringMember("interval_s", <<"n60">>)>>
        BY <2>2 DEF Arguments
      <3>2. \A n \in {"n4", "n60", "n5000", Beyond} : <<NumberMember("interval_s", n)>> \in Objects
        BY <1>1, <1>2
      <3>3. <<StringMember("interval_s", <<"n60">>)>> \in Objects
        BY <1>1, <1>2, <1>4
      <3> QED BY <3>1, <3>2, <3>3
    <2>3. CASE word = "get_log"
      <3>1. \/ arguments = <<>>
            \/ \E n \in {"n0", "n4", Beyond} : arguments = <<NumberMember("limit", n)>>
            \/ \E n \in {"n1", "n60"} : arguments = <<NumberMember("offset", "n1"), NumberMember("limit", n)>>
        BY <2>3 DEF Arguments
      <3>2. \A n \in {"n1", "n60"} : /\ NumberMember("offset", "n1") \in Members(Tokens)
                                     /\ NumberMember("limit", n) \in Members(Tokens)
        BY <1>2, MembersOfRequests
      <3>3. \A n \in {"n1", "n60"} : <<NumberMember("offset", "n1"), NumberMember("limit", n)>> \in Objects
        BY <3>2 DEF Objects
      <3> QED BY <1>1, <1>2, <3>1, <3>3
    <2>4. CASE word = "set_wifi"
      <3>1. \/ arguments = <<>>
            \/ \E s \in WifiStrings : arguments = <<StringMember("ssid", s)>>
            \/ \E s \in WifiStrings : arguments = <<StringMember("password", s), StringMember("ssid", <<"w8">>)>>
            \/ arguments = <<StringMember("ssid", <<"w8">>), NumberMember("password", "n4")>>
        BY <2>4 DEF Arguments
      <3>2. /\ \A s \in WifiStrings : StringMember("password", s) \in Members(Tokens)
            /\ StringMember("ssid", <<"w8">>) \in Members(Tokens) /\ NumberMember("password", "n4") \in Members(Tokens)
        BY <1>2, <1>4, MembersOfRequests
      <3>3. /\ \A s \in WifiStrings : <<StringMember("password", s), StringMember("ssid", <<"w8">>)>> \in Objects
            /\ <<StringMember("ssid", <<"w8">>), NumberMember("password", "n4")>> \in Objects
        BY <3>2 DEF Objects
      <3> QED BY <1>1, <1>2, <1>4, <3>1, <3>3
    <2>5. CASE word \notin {"set_time", "set_interval", "get_log", "set_wifi"}
      <3>1. arguments = <<>>
        BY <2>5 DEF Arguments
      <3> QED BY <1>1, <3>1
    <2> QED BY <2>1, <2>2, <2>3, <2>4, <2>5
  <1>8. ASSUME NEW object \in Plain PROVE object \in Objects
    <2>1. PICK word \in Commands : object \in {<<Cmd(word)>> \o a : a \in Arguments(word)}
      BY DEF Plain
    <2>2. PICK a \in Arguments(word) : object = <<Cmd(word)>> \o a
      BY <2>1
    <2> QED BY <1>1, <1>5, <1>7, <2>2
  <1> QED BY <1>6, <1>8

\* What is asked is what the object of the line means; of a broken line nothing more is said than
\* what the code makes of it.
LEMMA LinesAgree ==
  \A line \in WholeLines \cup BrokenLines : line.op = line.wanted /\ \E text : line.op = Parsed(text)
  <1>1. ASSUME NEW line \in WholeLines PROVE line.op = line.wanted /\ \E text : line.op = Parsed(text)
    <2>1. PICK object \in Plain, decoy \in Decoys :
            line = Asked(decoy \o object, <<Space>>) \/ line = Asked(object \o decoy, <<>>)
      BY DEF WholeLines
    <2>2. decoy \o object \in Objects /\ object \o decoy \in Objects
      <3>1. object \in Seq(Members(Tokens)) /\ decoy \in Seq(Members(Tokens))
        BY RequestObjects DEF Objects
      <3> QED BY <3>1, Cat DEF Objects
    <2>3. <<Space>> \in Seq({Space}) /\ <<>> \in Seq({Space})
      BY EmptySeq
    <2>4. Keys \subseteq Tokens
      BY DEF Tokens
    <2>5. ASSUME NEW o \in Objects, NEW pad \in Seq({Space}), line = Asked(o, pad)
          PROVE line.op = line.wanted /\ \E text : line.op = Parsed(text)
      <3>1. Parsed(ObjectText(o, pad)) = Meant(o)
        BY <2>4, TokensFacts, ParsedIsMeant DEF Objects
      <3>2. line.op = Parsed(ObjectText(o, pad)) /\ line.wanted = Meant(o)
        BY <2>5 DEF Asked
      <3> QED BY <3>1, <3>2
    <2> QED BY <2>1, <2>2, <2>3, <2>5
  <1>2. ASSUME NEW line \in BrokenLines PROVE line.op = line.wanted /\ \E text : line.op = Parsed(text)
    BY DEF BrokenLines
  <1> QED BY <1>1, <1>2

\* What the page may have done (web_bridge's allowed).
PageOps == {"error", "ping", "read_now", "get_status", "get_log", "set_time"}

LEMMA PageAsks ==
  \A request \in PageRequests :
    /\ Parsed(request.line) = request.wanted
    /\ Parsed(request.line)[1] \in PageOps
  <1> SUFFICES ASSUME NEW request \in PageRequests
               PROVE Parsed(request.line) = request.wanted /\ Parsed(request.line)[1] \in PageOps
    OBVIOUS
  <1>1. PICK query \in Queries : /\ \E method \in {"GET", "POST"} : Buildable(method, query)
                                 /\ request = [wanted |-> PageMeant(query), line |-> Line(query)]
    BY DEF PageRequests
  <1>2. PICK method : Buildable(method, query)
    BY <1>1
  <1>3. Parsed(Line(query)) = PageMeant(query) /\ Parsed(Line(query)) = Meant(Built(query))
    BY <1>2, PageParsedIsMeant
  <1>4. Value(query, "cmd") \in CmdWords /\ Allowed(method, Value(query, "cmd"))
    BY <1>2 DEF Buildable
  <1>5. Named(Built(query), "cmd") # {} /\ First(Built(query), "cmd") = Cmd(Value(query, "cmd"))
    <2>1. \A n \in 1 .. 3 : Value(query, Numbers[n]) = Empty \/ Digits(Value(query, Numbers[n]))
      BY <1>2, NumbersAre DEF Buildable
    <2> QED BY <1>4, <2>1, BuiltHas
  <1> DEFINE source == [line |-> FALSE, it |-> Built(query)]
  <1>6. source.line = FALSE /\ source.it = Built(query)
    OBVIOUS
  <1>7. Meant(Built(query)) = Asks(source)
    BY DEF Meant
  <1> HIDE DEF source
  <1>8. StringIn(source, "cmd") \in {Unreadable, <<Value(query, "cmd")>>}
    <2>1. StringIn(source, "cmd") = StringOf(Built(query), "cmd", Room("cmd"))
      BY <1>6 DEF StringIn
    <2>2. First(Built(query), "cmd").value = <<Value(query, "cmd")>>
      BY <1>5 DEF Cmd, StringMember, Text
    <2> QED BY <2>1, <2>2 DEF StringOf
  <1>9. \A code : Refused(code)[1] \in PageOps
    BY DEF Refused, PageOps
  <1>10. Asks(source)[1] \in PageOps
    <2>1. CASE StringIn(source, "cmd") = Unreadable
      BY <1>9, <2>1 DEF Asks
    <2>2. CASE StringIn(source, "cmd") # Unreadable /\ StringIn(source, "cmd") = <<Value(query, "cmd")>>
      <3>1. Value(query, "cmd") \in {"ping", "read_now", "get_status", "get_log", "set_time"}
        BY <1>4 DEF Allowed
      <3>2. PICK c : c = Value(query, "cmd")
        OBVIOUS
      <3>3. CASE c \in {"ping", "read_now", "get_status"}
        <4>1. Asks(source) = <<c>>
          BY <2>2, <3>2, <3>3 DEF Asks
        <4> QED BY <3>3, <4>1 DEF PageOps
      <3>4. CASE c = "set_time"
        <4>1. Asks(source) = Needs("set_time", NumberIn(source, "epoch"))
          BY <2>2, <3>2, <3>4 DEF Asks
        <4>2. \A number : Needs("set_time", number)[1] \in PageOps
          BY <1>9 DEF Needs, PageOps
        <4> QED BY <4>1, <4>2
      <3>5. CASE c = "get_log"
        <4>1. Asks(source) =
                <<"get_log", NumberOr(NumberIn(source, "offset"), 0), NumberOr(NumberIn(source, "limit"), DefaultLimit)>>
          BY <2>2, <3>2, <3>5 DEF Asks
        <4> QED BY <4>1 DEF PageOps
      <3> QED BY <3>1, <3>2, <3>3, <3>4, <3>5
    <2> QED BY <1>8, <2>1, <2>2
  <1> QED BY <1>1, <1>3, <1>7, <1>10

(***************************************************************************)
(* What a handler does.                                                    *)
(***************************************************************************)
\* The numbers that a page of the history is asked for with.
LEMMA LogNumbers ==
  ASSUME NEW text, Parsed(text)[1] = "get_log"
  PROVE Parsed(text)[2] \in Nat /\ Parsed(text)[3] \in Nat
  <1> DEFINE source == [line |-> TRUE, it |-> text]
  <1>1. source.line = TRUE /\ source.it = text
    OBVIOUS
  <1>2. Parsed(text) = Asks(source)
    BY DEF Parsed
  <1> HIDE DEF source
  <1>3. \A key : NumberIn(source, key) \in Nat \cup {NoNumber}
    <2>1. \A token : IsNumeral(token) => Numerals[token] \in Nat \cup {NoNumber}
      BY DEF IsNumeral, Numerals, NoNumber
    <2> QED BY <1>1, <2>1 DEF NumberIn, GetUint
  <1>4. \A key : \A default \in Nat : NumberOr(NumberIn(source, key), default) \in Nat
    BY <1>3 DEF NumberOr
  <1>5. /\ \A code : Refused(code)[1] # "get_log"
        /\ \A number : Needs("set_time", number)[1] # "get_log" /\ Needs("set_interval", number)[1] # "get_log"
    BY DEF Refused, Needs
  <1>6. Wifi(source)[1] # "get_log"
    BY <1>5 DEF Wifi
  <1>7. \A c \in {"ping", "read_now", "get_status", "clear_log"} : <<c>>[1] # "get_log"
    OBVIOUS
  <1>8. Asks(source) = <<"get_log", NumberOr(NumberIn(source, "offset"), 0), NumberOr(NumberIn(source, "limit"), DefaultLimit)>>
    BY <1>2, <1>5, <1>6, <1>7 DEF Asks
  <1>9. DefaultLimit \in Nat
    BY SizesAssumption
  <1> QED BY <1>2, <1>4, <1>8, <1>9

LEMMA MinIn ==
  ASSUME NEW S \in SUBSET Nat, S # {}
  PROVE Min(S) \in S
  <1>1. PICK n \in S : \A m \in S : n <= m
    BY LeastExists
  <1>2. S \in SUBSET Int
    OBVIOUS
  <1> QED BY <1>1, <1>2, MinIs

\* A page of the history is a sequence of records.
LEMMA PageIsSeq ==
  ASSUME NEW offset \in Nat, NEW limit \in Nat, NEW chunks \in Nat, dev.records \in Nat
  PROVE Page(offset, limit, chunks) \in Seq({<<"record", i>> : i \in Nat})
  <1> DEFINE end == Min({dev.records, offset + Min({limit, MaxLimit}), offset + chunks * ReadChunk})
  <1>1. MaxLimit \in Nat /\ ReadChunk \in Nat
    BY SizesAssumption
  <1>2. Min({limit, MaxLimit}) \in Nat
    <2>1. {limit, MaxLimit} \in SUBSET Nat /\ {limit, MaxLimit} # {}
      BY <1>1
    <2>2. Min({limit, MaxLimit}) \in {limit, MaxLimit}
      BY <2>1, MinIn
    <2> QED BY <2>1, <2>2
  <1>3. PICK a \in Nat : a = offset + Min({limit, MaxLimit})
    BY <1>2
  <1>4. PICK b \in Nat : b = offset + chunks * ReadChunk
    <2>1. chunks * ReadChunk \in Nat
      BY <1>1
    <2> QED BY <2>1
  <1>5. end \in Nat
    <2>1. {dev.records, a, b} \in SUBSET Nat /\ {dev.records, a, b} # {}
      OBVIOUS
    <2>2. Min({dev.records, a, b}) \in {dev.records, a, b}
      BY <2>1, MinIn
    <2> QED BY <1>3, <1>4, <2>1, <2>2
  <1>6. Page(offset, limit, chunks) = [n \in 1 .. Max({0, end - offset}) |-> <<"record", offset + n>>]
    BY DEF Page
  <1> HIDE DEF end
  <1>7. Max({0, end - offset}) \in Nat
    <2>1. CASE end - offset <= 0
      <3>1. {0, end - offset} \in SUBSET Int /\ 0 \in {0, end - offset} /\ \A n \in {0, end - offset} : n <= 0
        BY <1>5, <2>1
      <3>2. Max({0, end - offset}) = 0
        BY <3>1, MaxIs
      <3> QED BY <3>2
    <2>2. CASE 0 <= end - offset
      <3>0. PICK d \in Nat : d = end - offset
        BY <1>5, <2>2
      <3>1. {0, d} \in SUBSET Int /\ d \in {0, d} /\ \A n \in {0, d} : n <= d
        OBVIOUS
      <3>2. Max({0, d}) = d
        BY <3>1, MaxIs
      <3> QED BY <3>0, <3>2
    <2> QED BY <1>5, <2>1, <2>2
  <1>8. PICK size \in Nat : size = Max({0, end - offset})
    BY <1>7
  <1>9. [n \in 1 .. size |-> <<"record", offset + n>>] \in [1 .. size -> {<<"record", i>> : i \in Nat}]
    <2>1. \A n \in 1 .. size : offset + n \in Nat
      OBVIOUS
    <2> QED BY <2>1
  <1>10. [n \in 1 .. size |-> <<"record", offset + n>>] \in Seq({<<"record", i>> : i \in Nat})
    BY <1>9, ListIsSeq
  <1> QED BY <1>6, <1>8, <1>10

DeviceType(d) ==
  d = [records |-> d.records, interval |-> d.interval, network |-> d.network, source |-> d.source] /\ d.records \in Nat

\* Every handler writes one reply, and what a page may ask for changes at most the time source.
LEMMA Handled ==
  ASSUME NEW t, NEW ask, NEW text, ask.op = Parsed(text), DeviceType(dev), Handle(t, ask)
  PROVE /\ DeviceType(dev')
        /\ \E S : \E reply \in Seq(S) : Replies(t, ask, reply)
        /\ ask.op[1] \in PageOps => /\ dev' = [dev EXCEPT !.source = dev'.source]
                                    /\ dev.source = "ntp" => dev' = dev
  <1> DEFINE Result == /\ DeviceType(dev')
                       /\ \E S : \E reply \in Seq(S) : Replies(t, ask, reply)
                       /\ ask.op[1] \in PageOps => /\ dev' = [dev EXCEPT !.source = dev'.source]
                                                   /\ dev.source = "ntp" => dev' = dev
  <1>1. ASSUME NEW x, Replies(t, ask, <<x>>) PROVE \E S : \E reply \in Seq(S) : Replies(t, ask, reply)
    <2>1. <<x>> \in Seq({x})
      OBVIOUS
    <2> QED BY <1>1, <2>1
  <1>2. \A d : DeviceType(d) => d = [d EXCEPT !.source = d.source]
    BY DEF DeviceType
  <1>3. ASSUME UNCHANGED dev, NEW x, Replies(t, ask, <<x>>) PROVE Result
    BY <1>1, <1>2, <1>3
  <1>4. CASE ask.op[1] = "error" /\ Replies(t, ask, <<ask.op>>) /\ UNCHANGED dev
    BY <1>3, <1>4
  <1>5. CASE Ping(t, ask)
    BY <1>3, <1>5 DEF Ping
  <1>6. CASE SetTime(t, ask)
    <2>1. Replies(t, ask, <<Ok>>)
      BY <1>6 DEF SetTime
    <2>2. CASE dev.source = "ntp"
      BY <1>3, <1>6, <2>1, <2>2 DEF SetTime
    <2>3. CASE dev.source # "ntp"
      <3>1. dev' = [dev EXCEPT !.source = "pc"]
        BY <1>6, <2>3 DEF SetTime
      <3>2. dev' = [records |-> dev.records, interval |-> dev.interval, network |-> dev.network, source |-> "pc"]
        BY <3>1 DEF DeviceType
      <3>3. DeviceType(dev') /\ dev'.source = "pc"
        BY <3>2 DEF DeviceType
      <3> QED BY <1>1, <2>1, <2>3, <3>1, <3>3
    <2> QED BY <2>2, <2>3
  <1>7. CASE ReadNow(t, ask)
    BY <1>3, <1>7 DEF ReadNow
  <1>8. CASE GetStatus(t, ask)
    <2>1. PICK x, y : Replies(t, ask, <<x, y>>) /\ UNCHANGED dev
      BY <1>8 DEF GetStatus
    <2>2. <<x, y>> \in Seq({x, y})
      OBVIOUS
    <2> QED BY <1>2, <2>1, <2>2
  <1>9. CASE GetLog(t, ask)
    <2>1. PICK chunks \in 0 .. MaxLimit :
            /\ Replies(t, ask, <<<<"log", dev.records, ask.op[2]>>>> \o Page(ask.op[2], ask.op[3], chunks) \o <<<<"end">>>>)
            /\ ask.op[1] = "get_log" /\ UNCHANGED dev
      BY <1>9 DEF GetLog
    <2>2. PICK header : header = <<"log", dev.records, ask.op[2]>>
      OBVIOUS
    <2>3. PICK page : page = Page(ask.op[2], ask.op[3], chunks)
      OBVIOUS
    <2>4. page \in Seq({<<"record", i>> : i \in Nat})
      <3>1. ask.op[2] \in Nat /\ ask.op[3] \in Nat
        BY <2>1, LogNumbers
      <3>2. chunks \in Nat /\ dev.records \in Nat
        BY DEF DeviceType
      <3> QED BY <2>3, <3>1, <3>2, PageIsSeq
    <2>5. PICK S : S = {<<"record", i>> : i \in Nat} \cup {header, <<"end">>}
      OBVIOUS
    <2>6. page \in Seq(S)
      <3>1. {<<"record", i>> : i \in Nat} \subseteq S
        BY <2>5
      <3> QED BY <2>4, <3>1, SeqMonotonic
    <2>7. <<header>> \in Seq(S) /\ <<<<"end">>>> \in Seq(S)
      <3>1. header \in S /\ <<"end">> \in S
        BY <2>5
      <3> QED BY <3>1
    <2>8. <<header>> \o page \in Seq(S)
      BY <2>6, <2>7, Cat
    <2>9. <<header>> \o page \o <<<<"end">>>> \in Seq(S)
      BY <2>7, <2>8, Cat
    <2>10. Replies(t, ask, <<header>> \o page \o <<<<"end">>>>)
      BY <2>1, <2>2, <2>3
    <2> QED BY <1>2, <2>1, <2>9, <2>10
  <1>10. CASE ClearLog(t, ask)
    <2>1. ask.op[1] \notin PageOps
      BY <1>10 DEF ClearLog, PageOps
    <2>2. CASE UNCHANGED dev /\ Replies(t, ask, <<Refused("store_error")>>)
      BY <1>3, <2>2
    <2>3. CASE dev' = [dev EXCEPT !.records = 0] /\ Replies(t, ask, <<Ok>>)
      <3>1. dev' = [records |-> 0, interval |-> dev.interval, network |-> dev.network, source |-> dev.source]
        BY <2>3 DEF DeviceType
      <3>2. DeviceType(dev')
        BY <3>1 DEF DeviceType
      <3> QED BY <1>1, <2>1, <2>3, <3>2
    <2> QED BY <1>10, <2>2, <2>3 DEF ClearLog
  <1>11. CASE SetInterval(t, ask)
    <2>1. ask.op[1] \notin PageOps
      BY <1>11 DEF SetInterval, PageOps
    <2>2. \E S : \E reply \in Seq(S) : Replies(t, ask, reply)
      BY <1>1, <1>11 DEF SetInterval
    <2>3. dev' = dev \/ dev' = [dev EXCEPT !.interval = ask.op[2]]
      BY <1>11 DEF SetInterval
    <2>4. CASE dev' = dev
      BY <2>1, <2>2, <2>4
    <2>5. CASE dev' = [dev EXCEPT !.interval = ask.op[2]]
      <3>1. dev' = [records |-> dev.records, interval |-> ask.op[2], network |-> dev.network, source |-> dev.source]
        BY <2>5 DEF DeviceType
      <3>2. DeviceType(dev')
        BY <3>1 DEF DeviceType
      <3> QED BY <2>1, <2>2, <3>2
    <2> QED BY <2>3, <2>4, <2>5
  <1>12. CASE SetWifi(t, ask)
    <2>1. ask.op[1] \notin PageOps
      BY <1>12 DEF SetWifi, PageOps
    <2>2. CASE UNCHANGED dev /\ Replies(t, ask, <<Refused("store_error")>>)
      BY <1>3, <2>2
    <2>3. CASE dev' = [dev EXCEPT !.network = ask.op[2]] /\ Replies(t, ask, <<Ok>>)
      <3>1. dev' = [records |-> dev.records, interval |-> dev.interval, network |-> ask.op[2], source |-> dev.source]
        BY <2>3 DEF DeviceType
      <3>2. DeviceType(dev')
        BY <3>1 DEF DeviceType
      <3> QED BY <1>1, <2>1, <2>3, <3>2
    <2> QED BY <1>12, <2>2, <2>3 DEF SetWifi
  <1> QED BY <1>4, <1>5, <1>6, <1>7, <1>8, <1>9, <1>10, <1>11, <1>12 DEF Handle

(***************************************************************************)
(* The theorems.                                                           *)
(***************************************************************************)
Asking ==
  web = "asked" =>
    /\ task["web"].wanted = Parsed(webLine) /\ Parsed(webLine)[1] \in PageOps
    /\ resp = <<>> /\ overflow = FALSE

RequestsInv ==
  /\ task = [t \in {"usb", "web"} |-> task[t]] /\ DeviceType(dev)
  /\ usb \in {"idle", "writes"} /\ web \in {"idle", "asked", "handled"}
  /\ Asking /\ TextMeansObject /\ PageGetsWhatItAsks /\ BodyIsReply

LEMMA RequestsInit == Init => RequestsInv
  <1> SUFFICES ASSUME Init PROVE RequestsInv
    OBVIOUS
  <1>1. usb = "idle" /\ web = "idle" /\ task = [t \in {"usb", "web"} |-> NoTask]
    BY DEF Init
  <1>2. task = [t \in {"usb", "web"} |-> task[t]]
    BY <1>1
  <1>3. DeviceType(dev)
    BY SizesAssumption DEF Init, DeviceType
  <1> QED BY <1>1, <1>2, <1>3 DEF RequestsInv, Asking, TextMeansObject, PageGetsWhatItAsks, BodyIsReply

\* A new task for one who asks leaves the other's alone.
LEMMA TaskSet ==
  ASSUME NEW t \in {"usb", "web"}, NEW new, task = [u \in {"usb", "web"} |-> task[u]],
         task' = [task EXCEPT ![t] = new]
  PROVE /\ task' = [u \in {"usb", "web"} |-> task'[u]] /\ task'[t] = new
        /\ \A u \in {"usb", "web"} : u # t => task'[u] = task[u]
  OBVIOUS

LEMMA UsbHandlesKeeps == RequestsInv /\ UsbHandles => RequestsInv'
  <1> SUFFICES ASSUME RequestsInv, UsbHandles PROVE RequestsInv'
    OBVIOUS
  <1>1. PICK line \in WholeLines \cup BrokenLines : Handle("usb", line)
    BY DEF UsbHandles
  <1>2. line.op = line.wanted /\ \E text : line.op = Parsed(text)
    BY LinesAgree
  <1>3. /\ DeviceType(dev')
        /\ \E S : \E reply \in Seq(S) : Replies("usb", line, reply)
    BY <1>1, <1>2, Handled DEF RequestsInv
  <1>4. PICK reply : task' = [task EXCEPT !["usb"] = [wanted |-> line.wanted, did |-> line.op, reply |-> reply]]
    BY <1>3 DEF Replies
  <1>5. /\ task' = [u \in {"usb", "web"} |-> task'[u]] /\ task'["web"] = task["web"]
        /\ task'["usb"] = [wanted |-> line.wanted, did |-> line.op, reply |-> reply]
    BY <1>4, TaskSet DEF RequestsInv
  <1>6. usb' = "writes" /\ UNCHANGED <<web, webLine, resp, overflow>>
    BY DEF UsbHandles
  <1>7. TextMeansObject'
    BY <1>2, <1>5 DEF TextMeansObject
  <1>8. Asking' /\ PageGetsWhatItAsks' /\ BodyIsReply'
    BY <1>5, <1>6 DEF RequestsInv, Asking, PageGetsWhatItAsks, BodyIsReply
  <1> QED BY <1>3, <1>5, <1>6, <1>7, <1>8 DEF RequestsInv

LEMMA UsbDoneKeeps == RequestsInv /\ UsbDone => RequestsInv'
  <1> SUFFICES ASSUME RequestsInv, UsbDone PROVE RequestsInv'
    OBVIOUS
  <1>1. task' = [u \in {"usb", "web"} |-> task'[u]] /\ task'["web"] = task["web"]
    BY TaskSet DEF RequestsInv, UsbDone
  <1>2. usb' = "idle" /\ UNCHANGED <<dev, web, webLine, resp, overflow>>
    BY DEF UsbDone
  <1> QED BY <1>1, <1>2 DEF RequestsInv, Asking, TextMeansObject, PageGetsWhatItAsks, BodyIsReply

LEMMA WebAsksKeeps == RequestsInv /\ WebAsks => RequestsInv'
  <1> SUFFICES ASSUME RequestsInv, WebAsks PROVE RequestsInv'
    OBVIOUS
  <1>1. PICK request \in PageRequests :
          webLine' = request.line /\ task' = [task EXCEPT !["web"] = [NoTask EXCEPT !.wanted = request.wanted]]
    BY DEF WebAsks
  <1>2. Parsed(request.line) = request.wanted /\ Parsed(request.line)[1] \in PageOps
    BY PageAsks
  <1>3. /\ task' = [u \in {"usb", "web"} |-> task'[u]] /\ task'["usb"] = task["usb"]
        /\ task'["web"] = [NoTask EXCEPT !.wanted = request.wanted]
    BY <1>1, TaskSet DEF RequestsInv
  <1>4. task'["web"].wanted = request.wanted
    BY <1>3 DEF NoTask
  <1>5. web' = "asked" /\ resp' = <<>> /\ overflow' = FALSE /\ UNCHANGED <<dev, usb>>
    BY DEF WebAsks
  <1>6. Asking'
    BY <1>1, <1>2, <1>4, <1>5 DEF Asking
  <1> QED BY <1>3, <1>5, <1>6 DEF RequestsInv, TextMeansObject, PageGetsWhatItAsks, BodyIsReply

LEMMA WebHandlesKeeps == RequestsInv /\ WebHandles => RequestsInv'
  <1> SUFFICES ASSUME RequestsInv, WebHandles PROVE RequestsInv'
    OBVIOUS
  <1>1. PICK ask : ask = [wanted |-> task["web"].wanted, op |-> Parsed(webLine)] /\ Handle("web", ask)
    BY DEF WebHandles
  <1>2. ask.op = Parsed(webLine) /\ ask.wanted = task["web"].wanted
    BY <1>1
  <1>3. /\ web = "asked" /\ usb = "idle" /\ web' = "handled" /\ UNCHANGED usb
        /\ resp' = Buffered(task'["web"].reply).held /\ overflow' = Buffered(task'["web"].reply).full
    BY DEF WebHandles
  <1>4. task["web"].wanted = Parsed(webLine) /\ resp = <<>> /\ overflow = FALSE
    BY <1>3 DEF RequestsInv, Asking
  <1>5. DeviceType(dev') /\ \E S : \E reply \in Seq(S) : Replies("web", ask, reply)
    BY <1>1, <1>2, Handled DEF RequestsInv
  <1>6. PICK S : \E reply \in Seq(S) : Replies("web", ask, reply)
    BY <1>5
  <1>7. PICK reply \in Seq(S) : Replies("web", ask, reply)
    BY <1>6
  <1>8. /\ task' = [u \in {"usb", "web"} |-> task'[u]]
        /\ task'["web"] = [wanted |-> ask.wanted, did |-> ask.op, reply |-> reply]
    BY <1>7, TaskSet DEF RequestsInv, Replies
  <1>9. task'["web"].did = task'["web"].wanted /\ task'["web"].reply = reply
    BY <1>2, <1>4, <1>8
  <1>10. IF Size(reply) > ResponseMax THEN Buffered(reply).full = TRUE
         ELSE Buffered(reply).held = reply /\ Buffered(reply).full = FALSE
    BY <1>4, BufferedIs
  <1>11. resp' = Buffered(reply).held /\ overflow' = Buffered(reply).full
    BY <1>3, <1>9
  <1>12. IF Size(reply) > ResponseMax THEN overflow' ELSE ~overflow' /\ resp' = reply
    BY <1>10, <1>11
  <1>13. BodyIsReply'
    BY <1>9, <1>12 DEF BodyIsReply, Size
  <1>14. PageGetsWhatItAsks'
    BY <1>9 DEF PageGetsWhatItAsks
  <1> QED BY <1>3, <1>5, <1>8, <1>13, <1>14 DEF RequestsInv, Asking, TextMeansObject

LEMMA WebSendsKeeps == RequestsInv /\ WebSends => RequestsInv'
  <1> SUFFICES ASSUME RequestsInv, WebSends PROVE RequestsInv'
    OBVIOUS
  <1>1. task' = [u \in {"usb", "web"} |-> task'[u]] /\ task'["usb"] = task["usb"]
    BY TaskSet DEF RequestsInv, WebSends
  <1>2. web' = "idle" /\ UNCHANGED <<dev, usb, webLine, resp, overflow>>
    BY DEF WebSends
  <1> QED BY <1>1, <1>2 DEF RequestsInv, Asking, TextMeansObject, PageGetsWhatItAsks, BodyIsReply

LEMMA DeviceKeeps == RequestsInv /\ Device => RequestsInv'
  <1> SUFFICES ASSUME RequestsInv, Device PROVE RequestsInv'
    OBVIOUS
  <1>1. UNCHANGED <<task, usb, web, webLine, resp, overflow>>
    BY DEF Device
  <1>2. DeviceType(dev')
    <2>1. DeviceType(dev)
      BY DEF RequestsInv
    <2>2. CASE dev' = [dev EXCEPT !.records = @ + 1]
      <3>1. dev' = [records |-> dev.records + 1, interval |-> dev.interval, network |-> dev.network, source |-> dev.source]
        BY <2>1, <2>2 DEF DeviceType
      <3> QED BY <2>1, <3>1 DEF DeviceType
    <2>3. CASE dev' = [dev EXCEPT !.source = "ntp"]
      <3>1. dev' = [records |-> dev.records, interval |-> dev.interval, network |-> dev.network, source |-> "ntp"]
        BY <2>1, <2>3 DEF DeviceType
      <3> QED BY <2>1, <3>1 DEF DeviceType
    <2> QED BY <2>2, <2>3 DEF Device
  <1> QED BY <1>1, <1>2 DEF RequestsInv, Asking, TextMeansObject, PageGetsWhatItAsks, BodyIsReply

LEMMA RequestsStep == RequestsInv /\ [Next]_vars => RequestsInv'
  <1>1. RequestsInv /\ UNCHANGED vars => RequestsInv'
    BY DEF RequestsInv, vars, Asking, TextMeansObject, PageGetsWhatItAsks, BodyIsReply
  <1> QED BY <1>1, UsbHandlesKeeps, UsbDoneKeeps, WebAsksKeeps, WebHandlesKeeps, WebSendsKeeps, DeviceKeeps DEF Next

\* Every request of the USB host does what its object says, whatever its strings hold and however
\* it is spaced (protocol_handle_line by json-mini.c).
THEOREM TextMeansItsObject == Spec => []TextMeansObject
  <1>1. RequestsInv => TextMeansObject
    BY DEF RequestsInv
  <1> QED BY RequestsInit, RequestsStep, <1>1, PTL DEF Spec

\* What a page asks for in its query, the last of each parameter, is what the device does
\* (web_bridge_build_request and protocol_handle_line).
THEOREM PageGetsIt == Spec => []PageGetsWhatItAsks
  <1>1. RequestsInv => PageGetsWhatItAsks
    BY DEF RequestsInv
  <1> QED BY RequestsInit, RequestsStep, <1>1, PTL DEF Spec

\* The body of a page's reply is the whole reply and nothing of another, or 500 exactly if the reply
\* is longer than the buffer (buffer_write, api_handler).
THEOREM WholeBody == Spec => []BodyIsReply
  <1>1. RequestsInv => BodyIsReply
    BY DEF RequestsInv
  <1> QED BY RequestsInit, RequestsStep, <1>1, PTL DEF Spec

\* A page changes nothing of the device but the source of its time, and not even that once NTP has
\* set it (allowed, clock_set_time).
THEOREM PagesRead == Spec => PageOnlyReads
  <1>1. RequestsInv /\ [Next]_vars =>
          [WebHandles => /\ dev' = [dev EXCEPT !.source = dev'.source]
                         /\ dev.source = "ntp" => UNCHANGED dev]_vars
    <2> SUFFICES ASSUME RequestsInv, WebHandles
                 PROVE /\ dev' = [dev EXCEPT !.source = dev'.source]
                       /\ dev.source = "ntp" => UNCHANGED dev
      OBVIOUS
    <2>1. PICK ask : ask = [wanted |-> task["web"].wanted, op |-> Parsed(webLine)] /\ Handle("web", ask)
      BY DEF WebHandles
    <2>2. ask.op = Parsed(webLine) /\ ask.op[1] \in PageOps
      BY <2>1 DEF RequestsInv, Asking, WebHandles
    <2>3. DeviceType(dev)
      BY DEF RequestsInv
    <2> QED BY <2>1, <2>2, <2>3, Handled
  <1> QED BY RequestsInit, RequestsStep, <1>1, PTL DEF Spec, PageOnlyReads

================================================================================
