------------------------------ MODULE MCCramGlob ------------------------------
(***************************************************************************)
(* The matchers _SequenceMatcher._match tries on a line pair, esc and     *)
(* then glob (_test.py line 181), for TLC.  A behaviour is one call of    *)
(* one of them; the other's variables hold a finished call on two empty *)
(* lines (both return True there).                                        *)
(*                                                                         *)
(* glob: every pattern of up to four characters over a, *, ? and the     *)
(* backslash, against every line of up to three characters over a, b, * *)
(* and the backslash.  esc: every output line of up to two bytes over a, *)
(* the backslash, \x01 and tab, against every expected line of up to     *)
(* four characters over a, the backslash, x, t, 0, 1, 9 and tab,          *)
(* annotated or not.                                                      *)
(***************************************************************************)
EXTENDS CramGlob, SequencesExt

MCPatterns == BoundedSeq({"a", "*", "?", "\\"}, 4)
MCTexts == BoundedSeq({"a", "b", "*", "\\"}, 3)

MCEscOutputs == BoundedSeq({"a", "\\", "x01", "x09"}, 2)
MCEscExpected ==
  LET plain == BoundedSeq({"a", "\\", "x", "t", "0", "1", "9", "x09"}, 4)
  IN  plain \cup {e \o <<" (esc)">> : e \in plain}

VARIABLES
  matcher,                                          \* "glob" or "esc"
  escOut, escExp, escEl, escL, escPc, escMatched

E == INSTANCE CramEscape
       WITH EscOutputs <- MCEscOutputs, EscExpected <- MCEscExpected,
            out <- escOut, exp <- escExp, el <- escEl, l <- escL,
            pc <- escPc, matched <- escMatched

escVars == <<escOut, escExp, escEl, escL, escPc, escMatched>>
allVars == <<matcher, vars, escVars>>

GlobIdle ==
  el = <<>> /\ l = <<>> /\ i = 0 /\ res = <<>> /\ phase = "done" /\ matched = TRUE
EscIdle ==
  /\ escOut = <<>> /\ escExp = <<>> /\ escEl = <<>> /\ escL = <<>>
  /\ escPc = "done" /\ escMatched = TRUE

MCInit ==
  \/ matcher = "glob" /\ Init /\ EscIdle
  \/ matcher = "esc" /\ E!Init /\ GlobIdle

(* A step of one matcher; the other's call stays finished. *)
GlobStep(A) == A /\ UNCHANGED <<matcher, escVars>>
EscStep(A) == A /\ UNCHANGED <<matcher, vars>>

MCNext ==
  \/ GlobStep(Escape) \/ GlobStep(EscapeAtEnd) \/ GlobStep(Star)
  \/ GlobStep(Question) \/ GlobStep(Literal) \/ GlobStep(Match)
  \/ EscStep(E!DecodeExpected) \/ EscStep(E!CompareFirst)
  \/ EscStep(E!DecodeActual) \/ EscStep(E!CompareSecond)

MCSpec == MCInit /\ [][MCNext]_allVars

EscMatchesMeaning == E!EscMatchesMeaning
EscRaisesOnlyOnExpected == E!EscRaisesOnlyOnExpected

=============================================================================
