-------------------------------- MODULE UsbLine --------------------------------
(***************************************************************************)
(* How app_main (app-main.c) cuts what comes over USB into request lines,  *)
(* against a definition of what a line is.  MainLoop runs it.              *)
(*                                                                         *)
(* A character is its place in its line, so that a line that lost, kept or *)
(* mixed up characters shows.                                              *)
(***************************************************************************)
EXTENDS Integers, Sequences

CONSTANT MaxLine     \* PROTOCOL_MAX_LINE

ASSUME MaxLineAssumption == MaxLine \in Nat \ {0}

VARIABLES
  typed,       \* the characters sent since the last line end, counted up to MaxLine + 1
  line,        \* line[0 .. len - 1]
  overflow,
  handled      \* the line handed to protocol_handle_line, <<>> when there is none

lineVars == <<typed, line, overflow, handled>>

LineInit == typed = 0 /\ line = <<>> /\ overflow = FALSE /\ handled = <<>>

\* Mutated form of EndOfLine: the overflow is not forgotten.
EndKeepsOverflow ==
  /\ typed' = 0
  /\ handled' = IF line # <<>> /\ ~overflow THEN line ELSE <<>>
  /\ line' = <<>>
  /\ UNCHANGED overflow

EndOfLine ==
  /\ typed' = 0
  /\ handled' = IF line # <<>> /\ ~overflow THEN line ELSE <<>>
  /\ line' = <<>> /\ overflow' = FALSE

\* One place is kept for the terminator.
Character ==
  /\ typed' = IF typed <= MaxLine THEN typed + 1 ELSE typed
  /\ IF Len(line) < MaxLine - 1
       THEN line' = Append(line, typed') /\ UNCHANGED overflow
       ELSE overflow' = TRUE /\ UNCHANGED line
  /\ UNCHANGED handled

(***************************************************************************)
(* Properties                                                              *)
(***************************************************************************)
LineTypeOK ==
  /\ typed \in 0 .. MaxLine + 1
  /\ line \in Seq(1 .. MaxLine) /\ Len(line) < MaxLine
  /\ overflow \in BOOLEAN
  /\ handled \in Seq(1 .. MaxLine) /\ Len(handled) < MaxLine

\* The characters of a line of n characters.
Whole(n) == [place \in 1 .. n |-> place]

\* The protocol gets every line that fits, whole, and nothing of any other:
\* a line that is too long takes neither its rest nor its neighbours with it (app-main.c:150).
ExactlyTheLines ==
  [][EndOfLine => handled' = IF typed < MaxLine THEN Whole(typed) ELSE <<>>]_lineVars

\* "A request line has at most 256 bytes, newline excluded" (docs/protocol.md).
UpToMaxLine == [][EndOfLine /\ typed <= MaxLine => handled' = Whole(typed)]_lineVars
================================================================================
