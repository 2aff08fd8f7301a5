-------------------------------- MODULE JsonMini --------------------------------
(***************************************************************************)
(* json-mini.c: how the protocol reads a member of a request by searching  *)
(* the request's text, against the flat object that the text was written   *)
(* from.                                                                   *)
(*                                                                         *)
(* A text is a sequence of tokens: the characters the search looks at, and *)
(* words and numerals, each whole.  No two words or numerals are adjacent. *)
(***************************************************************************)
EXTENDS Integers, Sequences, SequencesExt, FiniteSetsExt

Quote == "quote"
Backslash == "backslash"
Colon == "colon"
Space == "space"
End == "end"        \* the terminating NUL; a text holds none

\* Numerals and what they are worth; only Beyond does not fit into 32 bits.
Beyond == "beyond"
Numerals == [n0 |-> 0, n1 |-> 1, n2 |-> 2, n4 |-> 4, n60 |-> 60, n5000 |-> 5000, beyond |-> -1]
IsNumeral(token) == token \in DOMAIN Numerals

\* Words whose length matters; any other token counts as one character.
Lengths == [w7 |-> 7, w8 |-> 8, w23 |-> 23, w24 |-> 24, w32 |-> 32, w33 |-> 33, w63 |-> 63, w64 |-> 64]
Length(token) == IF token \in DOMAIN Lengths THEN Lengths[token] ELSE 1
StrLen(value) == FoldLeft(LAMBDA sum, token : sum + Length(token), 0, value)

At(text, i) == IF i \in DOMAIN text THEN text[i] ELSE End

\* The first place from i on that holds no space.
SkipSpaces(text, i) == Min({n \in i .. Len(text) + 1 : At(text, n) # Space})

(***************************************************************************)
(* find_value                                                              *)
(***************************************************************************)
\* Where the key stands in quotes with a colon after it.
KeyPlaces(text, key) ==
  {i \in DOMAIN text :
     /\ text[i] = Quote /\ At(text, i + 1) = key /\ At(text, i + 2) = Quote
     /\ At(text, SkipSpaces(text, i + 3)) = Colon}

NotFound == 0

\* Mutated form of FindValue: only the first place with the key in quotes is looked at.
FindValueOnce(text, key) ==
  LET quoted == {i \in DOMAIN text : text[i] = Quote /\ At(text, i + 1) = key /\ At(text, i + 2) = Quote}
  IN IF quoted = {} \/ ~(Min(quoted) \in KeyPlaces(text, key)) THEN NotFound
     ELSE SkipSpaces(text, SkipSpaces(text, Min(quoted) + 3) + 1)

FindValue(text, key) ==
  IF KeyPlaces(text, key) = {} THEN NotFound
  ELSE SkipSpaces(text, SkipSpaces(text, Min(KeyPlaces(text, key)) + 3) + 1)

(***************************************************************************)
(* What is read.                                                           *)
(***************************************************************************)
Unreadable == <<End>>    \* no string of a text
NoNumber == -1

\* The string whose first character is at i, or Unreadable: it does not end, or holds an escape
\* other than \" and \\.
Unescaped(text, i) ==
  LET Then(token, rest) == IF rest = Unreadable THEN rest ELSE <<token>> \o rest
      read[n \in i .. Len(text) + 2] ==
        IF At(text, n) = End THEN Unreadable
        ELSE IF At(text, n) = Quote THEN <<>>
        ELSE IF At(text, n) # Backslash THEN Then(text[n], read[n + 1])
        ELSE IF At(text, n + 1) \in {Quote, Backslash} THEN Then(text[n + 1], read[n + 2])
        ELSE Unreadable
  IN read[i]

\* json_mini_get_string into `size` bytes, of which the terminator takes one.
GetString(text, key, size) ==
  LET p == FindValue(text, key)
  IN IF p = NotFound \/ At(text, p) # Quote THEN Unreadable
     ELSE IF StrLen(Unescaped(text, p + 1)) < size THEN Unescaped(text, p + 1)
     ELSE Unreadable

HasKey(text, key) == FindValue(text, key) # NotFound

\* json_mini_get_uint: digits only, up to UINT32_MAX.
GetUint(text, key) ==
  LET token == At(text, FindValue(text, key))
  IN IF IsNumeral(token) THEN Numerals[token] ELSE NoNumber

(***************************************************************************)
(* The objects that requests are (docs/protocol.md) and their text: a      *)
(* member has a key and a string or a number.                              *)
(***************************************************************************)
StringMember(key, value) == [key |-> key, string |-> TRUE, value |-> value]
NumberMember(key, numeral) == [key |-> key, string |-> FALSE, value |-> <<numeral>>]

Escape(token) == IF token \in {Quote, Backslash} THEN <<Backslash, token>> ELSE <<token>>
Quoted(value) == <<Quote>> \o FlattenSeq([i \in DOMAIN value |-> Escape(value[i])]) \o <<Quote>>

MemberText(member, pad) ==
  Quoted(<<member.key>>) \o pad \o <<Colon>> \o pad
    \o (IF member.string THEN Quoted(member.value) ELSE member.value)

ObjectText(object, pad) ==
  <<"open">>
    \o FlattenSeq([i \in DOMAIN object |->
         MemberText(object[i], pad) \o <<IF i = Len(object) THEN "close" ELSE "comma">>])

\* The members of that name, and what a reader should get.
Named(object, key) == {i \in DOMAIN object : object[i].key = key}
First(object, key) == object[Min(Named(object, key))]

StringOf(object, key, size) ==
  IF Named(object, key) # {} /\ First(object, key).string /\ StrLen(First(object, key).value) < size
    THEN First(object, key).value
    ELSE Unreadable

NumberOf(object, key) ==
  IF Named(object, key) # {} /\ ~First(object, key).string
    THEN Numerals[First(object, key).value[1]]
    ELSE NoNumber
================================================================================
