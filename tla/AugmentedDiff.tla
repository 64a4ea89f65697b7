---------------------------- MODULE AugmentedDiff ----------------------------
(***************************************************************************)
(* What the annotated diff engine promises (spec.md section 4.3): the     *)
(* expected lines la and the actual lines lb are aligned by the           *)
(* Ratcliff/Obershelp recursion (take the longest matching block, recurse *)
(* on the parts to its left and right), where two lines count as equal    *)
(* when they are identical or a matcher accepts them, and that augmented  *)
(* equivalence is consulted directly for every pair of lines.  Ties       *)
(* between blocks of one length go to the leftmost in la, then in lb, as  *)
(* in difflib.                                                             *)
(*                                                                         *)
(* Lines are model values; Matches is the set of <<expected, actual>>     *)
(* pairs some matcher accepts.  Positions are 0-based as in the code, so  *)
(* line i of la is la[i + 1].                                             *)
(***************************************************************************)
EXTENDS Integers, Sequences, FiniteSets

CONSTANTS
  Cases,      \* the <<expected, actual>> pairs of line sequences considered
  Matches     \* <<el, l>> such that an (esc), (glob) or (re) matcher accepts

VARIABLES
  la,         \* the expected lines, as authored
  lb,         \* the actual lines
  blocks,     \* the matching blocks [i, j, k] of the alignment
  aligned     \* the alignment has been computed

vars == <<la, lb, blocks, aligned>>

Equiv(el, l) == el = l \/ <<el, l>> \in Matches

Window(alo, ahi, blo, bhi) == [alo |-> alo, ahi |-> ahi, blo |-> blo, bhi |-> bhi]

(* The longest run of pairwise equivalent lines inside window w; the     *)
(* empty block [alo, blo, 0] when there is none.                         *)
EquivLongest(w) ==
  LET C == {x \in [i : w.alo..(w.ahi - 1), j : w.blo..(w.bhi - 1),
                   k : 1..Len(la)] :
              /\ x.i + x.k <= w.ahi /\ x.j + x.k <= w.bhi
              /\ \A t \in 1..x.k : Equiv(la[x.i + t], lb[x.j + t])}
      best == {x \in C : \A y \in C :
                 \/ y.k < x.k
                 \/ y.k = x.k /\ (x.i < y.i \/ (x.i = y.i /\ x.j <= y.j))}
  IN  IF C = {} THEN [i |-> w.alo, j |-> w.blo, k |-> 0]
      ELSE CHOOSE x \in best : TRUE

(* The blocks of the Ratcliff/Obershelp alignment of window w. *)
RECURSIVE RO(_)
RO(w) ==
  LET x == EquivLongest(w)
  IN  IF x.k = 0 THEN {}
      ELSE {x} \cup RO(Window(w.alo, x.i, w.blo, x.j))
               \cup RO(Window(x.i + x.k, w.ahi, x.j + x.k, w.bhi))

Init ==
  /\ \E c \in Cases : la = c[1] /\ lb = c[2]
  /\ blocks = {}
  /\ aligned = FALSE

Align ==
  /\ ~aligned
  /\ blocks' = RO(Window(0, Len(la), 0, Len(lb)))
  /\ aligned' = TRUE
  /\ UNCHANGED <<la, lb>>

Spec == Init /\ [][Align]_vars

=============================================================================
