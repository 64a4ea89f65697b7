------------------------------ MODULE CramEscape ------------------------------
(***************************************************************************)
(* cram's (esc) round trip.  test() rewrites an output line holding a     *)
(* non-printable byte with _escape (cram/_test.py): every control byte,   *)
(* and every backslash, becomes an escape sequence, and " (esc)" is       *)
(* appended.  The esc matcher (cram/_diff.py) undoes that with            *)
(* codecs.escape_decode on whichever of the two lines carries the         *)
(* annotation.                                                             *)
(*                                                                         *)
(* A line is a sequence of bytes without its newline.  A printable byte   *)
(* is a one-character string; the control bytes are named by their hex   *)
(* code, "x01" and "x09" (tab), so that decoding "\x01" gives back the    *)
(* same byte.  Ann is the " (esc)" annotation, one token.                  *)
(***************************************************************************)
EXTENDS Sequences, SequencesExt

Ann == " (esc)"
HexDigits == {"0", "1", "9", "a"}
Controls == {"x01", "x09"}

CONSTANTS
  EscOutputs,   \* output lines a command may print (without newline)
  EscExpected   \* expected lines a test may hold (without newline)

(* _needescape: a byte of \x00-\x09, \x0b-\x1f or \x7f-\xff (line 14). *)
NeedEscape(s) == \E i \in DOMAIN s : s[i] \in Controls

HexOf(c) == CHOOSE h \in HexDigits \X HexDigits : "x" \o h[1] \o h[2] = c

(* _escapemap after its update (lines 16-17): \t and \\ by name, every  *)
(* other byte as \xNN.                                                   *)
EscMap(c) ==
  CASE c = "x09" -> <<"\\", "t">>
    [] c = "\\"  -> <<"\\", "\\">>
    [] OTHER     -> <<"\\", "x", HexOf(c)[1], HexOf(c)[2]>>

(* Mutant: _escapesub's class copied from _needescape, without the       *)
(* backslash.                                                             *)
EscapeLineNoBackslash(s) ==
  FlattenSeq([i \in DOMAIN s |->
                IF s[i] \in Controls THEN EscMap(s[i]) ELSE <<s[i]>>])
  \o <<Ann>>

(* _escape (lines 15, 19-22): control bytes and backslashes through the  *)
(* map, the rest kept, then " (esc)".                                      *)
EscapeLine(s) ==
  FlattenSeq([i \in DOMAIN s |->
                IF s[i] \in Controls \cup {"\\"} THEN EscMap(s[i]) ELSE <<s[i]>>])
  \o <<Ann>>

(* The line test() puts in postout for an output line (_test.py lines   *)
(* 162-163): escaped when it holds a non-printable byte.                 *)
Shown(s) == IF NeedEscape(s) THEN EscapeLine(s) ELSE s

(* codecs.escape_decode, for the escapes that can occur here: \\ and \t  *)
(* by name, \xNN with two hex digits, any other character after a        *)
(* backslash kept with it.  A \x without two hex digits, or a trailing   *)
(* backslash, raises ValueError: ok is then FALSE.                        *)
Ok(s) == [ok |-> TRUE, s |-> s]
Raise == [ok |-> FALSE, s |-> <<>>]
Prefix(x, r) == IF r.ok THEN Ok(x \o r.s) ELSE r

RECURSIVE Decode(_)
Decode(e) ==
  IF e = <<>> THEN Ok(<<>>)
  ELSE IF Head(e) # "\\" THEN Prefix(<<Head(e)>>, Decode(Tail(e)))
  ELSE IF Len(e) = 1 THEN Raise
  ELSE CASE e[2] = "\\" -> Prefix(<<"\\">>, Decode(SubSeq(e, 3, Len(e))))
         [] e[2] = "t"  -> Prefix(<<"x09">>, Decode(SubSeq(e, 3, Len(e))))
         [] e[2] = "x"  ->
              IF Len(e) >= 4 /\ e[3] \in HexDigits /\ e[4] \in HexDigits
                THEN Prefix(<<"x" \o e[3] \o e[4]>>, Decode(SubSeq(e, 5, Len(e))))
                ELSE Raise
         [] OTHER       -> Prefix(<<"\\", e[2]>>, Decode(SubSeq(e, 3, Len(e))))

Annotated(x) == x # <<>> /\ Last(x) = Ann

(* What the line means: an annotated line its decoding, any other line   *)
(* itself.                                                                 *)
Denote(x) == IF Annotated(x) THEN Decode(Front(x)) ELSE Ok(x)

-----------------------------------------------------------------------------
(* esc(el, l) (_diff.py lines 62-73), called by _SequenceMatcher._match   *)
(* first of its matchers, on an expected line of the test and the line   *)
(* test() put in postout for an output line.                             *)

VARIABLES
  out,        \* the output line the command printed
  exp,        \* the expected line as the test holds it
  el,         \* esc's el
  l,          \* esc's l
  pc,         \* "decode_el", "first", "decode_l", "second", "done" or "raised"
  matched     \* what esc returned

vars == <<out, exp, el, l, pc, matched>>

Init ==
  /\ out \in EscOutputs
  /\ exp \in EscExpected
  /\ el = exp
  /\ l = Shown(out)
  /\ pc = "decode_el"
  /\ matched = FALSE

(* An annotated el is replaced by its decoding; escape_decode raising    *)
(* ValueError leaves esc (lines 66-67).                                   *)
DecodeExpected ==
  /\ pc = "decode_el"
  /\ IF Denote(el).ok
       THEN el' = Denote(el).s /\ pc' = "first"
       ELSE pc' = "raised" /\ UNCHANGED el
  /\ UNCHANGED <<out, exp, l, matched>>

(* if el == l: return True (lines 68-69). *)
CompareFirst ==
  /\ pc = "first"
  /\ IF el = l
       THEN matched' = TRUE /\ pc' = "done"
       ELSE pc' = "decode_l" /\ UNCHANGED matched
  /\ UNCHANGED <<out, exp, el, l>>

(* An annotated l is replaced by its decoding (lines 71-72). *)
DecodeActual ==
  /\ pc = "decode_l"
  /\ IF Denote(l).ok
       THEN l' = Denote(l).s /\ pc' = "second"
       ELSE pc' = "raised" /\ UNCHANGED l
  /\ UNCHANGED <<out, exp, el, matched>>

(* return el == l (line 73). *)
CompareSecond ==
  /\ pc = "second"
  /\ matched' = (el = l)
  /\ pc' = "done"
  /\ UNCHANGED <<out, exp, el, l>>

Next == DecodeExpected \/ CompareFirst \/ DecodeActual \/ CompareSecond

Spec == Init /\ [][Next]_vars

-----------------------------------------------------------------------------
(* Properties.                                                            *)

(* The (esc) round trip: when esc returns, it says whether the expected  *)
(* line means the output, whether test() showed the output escaped (its  *)
(* control bytes as escapes, its backslashes doubled) or as it is, and   *)
(* whether the expected line spells a byte by name or as \xNN            *)
(* (_test.py 14-22, 162-163; _diff.py 62-73).                             *)
EscMatchesMeaning ==
  pc = "done" => (matched <=> Denote(exp).s = out)

(* esc raises only on a malformed expected line: every line test() put   *)
(* in postout decodes, so escape_decode never raises on the actual side *)
(* (_test.py 15-22, 162-163; _diff.py 71-72).                            *)
EscRaisesOnlyOnExpected ==
  pc = "raised" => ~Denote(exp).ok

=============================================================================
