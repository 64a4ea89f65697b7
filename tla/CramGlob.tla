------------------------------- MODULE CramGlob -------------------------------
(***************************************************************************)
(* The (glob) matcher of cram/_diff.py.  glob() strips the " (glob)"      *)
(* annotation from the expected line and the newline from the actual     *)
(* line (_matchannotation); _glob translates the pattern into a regular  *)
(* expression one character at a time, and _regex matches it against    *)
(* the whole line.  A pattern and a line are sequences of characters;    *)
(* the regular expression is a sequence of atoms: a literal character,   *)
(* ".*" or ".".                                                           *)
(***************************************************************************)
EXTENDS Integers, Sequences

CONSTANTS
  Patterns,   \* the tag-stripped expected lines considered
  Texts       \* the newline-stripped actual lines considered

VARIABLES
  el,         \* the pattern
  l,          \* the actual line
  i,          \* _glob's index into el (0-based)
  res,        \* the regular expression built so far
  phase,      \* "loop", "done" or "error" (an exception left _glob)
  matched     \* what glob() returned

vars == <<el, l, i, res, phase, matched>>

Specials == {"*", "?", "\\"}
Lit(c) == [k |-> "lit", c |-> c]
AnyRun == [k |-> "any", c |-> ""]
AnyOne == [k |-> "one", c |-> ""]

(* _regex: re.match(res + '\Z', s), a match of the whole of s (lines     *)
(* 18-21; the translation escapes everything, so re.error cannot occur). *)
RECURSIVE RegexMatch(_, _)
RegexMatch(r, s) ==
  IF r = <<>> THEN s = <<>>
  ELSE CASE Head(r).k = "any" ->
              \E n \in 0..Len(s) : RegexMatch(Tail(r), SubSeq(s, n + 1, Len(s)))
         [] Head(r).k = "one" ->
              s # <<>> /\ RegexMatch(Tail(r), Tail(s))
         [] OTHER ->
              s # <<>> /\ Head(s) = Head(r).c /\ RegexMatch(Tail(r), Tail(s))

(* The meaning of a glob pattern, stated on the pattern itself: "*" any  *)
(* run, "?" one character, a backslash before *, ? or a backslash that  *)
(* character, every other character (a lone backslash included) itself. *)
RECURSIVE GlobRef(_, _)
GlobRef(p, s) ==
  IF p = <<>> THEN s = <<>>
  ELSE IF Head(p) = "\\" /\ Len(p) > 1 /\ p[2] \in Specials
    THEN s # <<>> /\ Head(s) = p[2] /\ GlobRef(Tail(Tail(p)), Tail(s))
  ELSE IF Head(p) = "*"
    THEN \E n \in 0..Len(s) : GlobRef(Tail(p), SubSeq(s, n + 1, Len(s)))
  ELSE IF Head(p) = "?"
    THEN s # <<>> /\ GlobRef(Tail(p), Tail(s))
  ELSE s # <<>> /\ Head(s) = Head(p) /\ GlobRef(Tail(p), Tail(s))

-----------------------------------------------------------------------------
(* glob() is called with an annotated expected line and an actual line   *)
(* (lines 49-60, 23-34).                                                  *)
Init ==
  /\ el \in Patterns
  /\ l \in Texts
  /\ i = 0
  /\ res = <<>>
  /\ phase = "loop"
  /\ matched = FALSE

(* The character at i, which the loop consumes (lines 36-37). *)
C == el[i + 1]

(* Mutant: the escape branch steps over the backslash only. *)
EscapeSkipOne ==
  /\ phase = "loop"
  /\ i < Len(el)
  /\ C = "\\" /\ i + 1 < Len(el) /\ el[i + 2] \in Specials
  /\ res' = Append(res, Lit(el[i + 2]))
  /\ i' = i + 1
  /\ UNCHANGED <<el, l, phase, matched>>

(* A backslash before *, ? or a backslash: both characters go to res,   *)
(* which makes the second a literal (lines 38-40).                      *)
Escape ==
  /\ phase = "loop"
  /\ i < Len(el)
  /\ C = "\\" /\ i + 1 < Len(el) /\ el[i + 2] \in Specials
  /\ res' = Append(res, Lit(el[i + 2]))
  /\ i' = i + 2
  /\ UNCHANGED <<el, l, phase, matched>>

(* A backslash as the last character: el[i] is out of range and raises  *)
(* IndexError (line 38).                                                 *)
EscapeAtEnd ==
  /\ phase = "loop"
  /\ i < Len(el)
  /\ C = "\\" /\ i + 1 = Len(el)
  /\ phase' = "error"
  /\ UNCHANGED <<el, l, i, res, matched>>

(* "*" becomes ".*" (lines 41-42). *)
Star ==
  /\ phase = "loop"
  /\ i < Len(el)
  /\ C = "*"
  /\ res' = Append(res, AnyRun)
  /\ i' = i + 1
  /\ UNCHANGED <<el, l, phase, matched>>

(* "?" becomes "." (lines 43-44). *)
Question ==
  /\ phase = "loop"
  /\ i < Len(el)
  /\ C = "?"
  /\ res' = Append(res, AnyOne)
  /\ i' = i + 1
  /\ UNCHANGED <<el, l, phase, matched>>

(* Any other character, and a backslash before an ordinary character,   *)
(* is escaped with re.escape and so matches itself (lines 45-46).       *)
Literal ==
  /\ phase = "loop"
  /\ i < Len(el)
  /\ C \notin {"*", "?"}
  /\ C = "\\" => (i + 1 < Len(el) /\ el[i + 2] \notin Specials)
  /\ res' = Append(res, Lit(C))
  /\ i' = i + 1
  /\ UNCHANGED <<el, l, phase, matched>>

(* The loop ends and _regex matches the translation (line 47). *)
Match ==
  /\ phase = "loop"
  /\ i >= Len(el)
  /\ matched' = RegexMatch(res, l)
  /\ phase' = "done"
  /\ UNCHANGED <<el, l, i, res>>

Next == Escape \/ EscapeAtEnd \/ Star \/ Question \/ Literal \/ Match

Spec == Init /\ [][Next]_vars

-----------------------------------------------------------------------------
(* Properties.                                                            *)

(* Whenever _glob returns, it says whether the line matches the pattern  *)
(* read as a glob: the translation of *, ? and escapes into a regular   *)
(* expression, and the backtracking match of it, agree with the meaning *)
(* of the pattern (spec 4.3, the docstring of _glob).                    *)
GlobMatchesReference ==
  phase = "done" => matched = GlobRef(el, l)

(* The glob matcher never raises: a per-test comparison is data and     *)
(* never aborts the run (spec 7).                                        *)
GlobNeverRaises ==
  phase # "error"

=============================================================================
