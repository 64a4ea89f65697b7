------------------------------- MODULE CramDiff -------------------------------
(***************************************************************************)
(* cram's annotated diff engine (cram/_diff.py): unified_diff() builds a  *)
(* _SequenceMatcher over the expected lines l1 and the actual lines l2    *)
(* and renders its opcodes.  difflib's get_matching_blocks pops windows   *)
(* off a stack and calls find_longest_match on each; cram's override      *)
(* overwrites, inside the window, every expected line that a matcher      *)
(* accepts for the actual line at the same offset with that actual line,  *)
(* lets difflib search for the longest block of identical lines, and      *)
(* restores the lines it overwrote.  self.a is the caller's list l1       *)
(* itself, so the rendering reads the list the matcher wrote to.          *)
(*                                                                         *)
(* Lines are model values and Matches abstracts the matchers (_match);    *)
(* the glob matcher itself is modelled in CramGlob.  Positions are        *)
(* 0-based as in the code: line i of a is a[i + 1].                       *)
(***************************************************************************)
EXTENDS Integers, Sequences, SequencesExt, FiniteSets

CONSTANTS
  Cases,      \* the <<l1, l2>> pairs of line sequences considered
  Matches     \* <<el, l>> such that an (esc), (glob) or (re) matcher accepts

VARIABLES
  a,          \* self.a, which is l1: the expected lines, overwritten in place
  b,          \* self.b, which is l2: the actual lines
  a0,         \* history: l1 as authored
  queue,      \* get_matching_blocks' stack of windows
  cur,        \* the find_longest_match call in progress: [w, matches, ret]
  step,       \* "pop", "search", "restore" or "done"
  blocks,     \* get_matching_blocks' matching_blocks, in the order found
  out         \* the lines unified_diff yields, as [tag, line]

vars == <<a, b, a0, queue, cur, step, blocks, out>>

Window(alo, ahi, blo, bhi) == [alo |-> alo, ahi |-> ahi, blo |-> blo, bhi |-> bhi]
NoBlock(w) == [i |-> w.alo, j |-> w.blo, k |-> 0]

(* Mutant: unified_diff called without its matchers. *)
MatchedNone(el, l) == FALSE

(* _SequenceMatcher._match: some matcher accepts the pair (lines 81-86). *)
Matched(el, l) == <<el, l>> \in Matches

(* The pairs find_longest_match overwrites (lines 93-100): offsets n of *)
(* the window whose lines differ and are matched, with the old line.    *)
Overwrites(w) ==
  LET N == {n \in 0..((IF w.ahi - w.alo < w.bhi - w.blo
                       THEN w.ahi - w.alo ELSE w.bhi - w.blo) - 1) :
              /\ a[w.alo + n + 1] # b[w.blo + n + 1]
              /\ Matched(a[w.alo + n + 1], b[w.blo + n + 1])}
  IN  {[n |-> n, el |-> a[w.alo + n + 1]] : n \in N}

(* Mutant: the overwrite forgets the window's offset, self.a[n]. *)
OverwriteUnshifted(arr, w, M) ==
  [p \in DOMAIN arr |->
     IF \E m \in M : m.n + 1 = p THEN b[w.blo + p] ELSE arr[p]]

(* self.a[alo + n] = line for every overwritten pair (line 99). *)
Overwrite(arr, w, M) ==
  [p \in DOMAIN arr |->
     IF \E m \in M : w.alo + m.n + 1 = p THEN b[w.blo + p - w.alo] ELSE arr[p]]

(* Mutant: the restoring loop left out. *)
RestoreNone(arr, w, M) == arr

(* self.a[alo + n] = el for every overwritten pair (lines 105-106). *)
Restore(arr, w, M) ==
  [p \in DOMAIN arr |->
     IF \E m \in M : w.alo + m.n + 1 = p
       THEN (CHOOSE m \in M : w.alo + m.n + 1 = p).el ELSE arr[p]]

(* difflib's find_longest_match with no junk: the longest block of       *)
(* identical lines of a and b in window w, the one ending first in a,    *)
(* then in b (it only replaces its best on a strictly longer block).      *)
LongestMatch(w) ==
  LET C == {x \in [i : w.alo..(w.ahi - 1), j : w.blo..(w.bhi - 1),
                   k : 1..Len(a)] :
              /\ x.i + x.k <= w.ahi /\ x.j + x.k <= w.bhi
              /\ \A t \in 1..x.k : a[x.i + t] = b[x.j + t]}
      best == {x \in C : \A y \in C :
                 \/ y.k < x.k
                 \/ y.k = x.k /\ (x.i < y.i \/ (x.i = y.i /\ x.j <= y.j))}
  IN  IF C = {} THEN NoBlock(w) ELSE CHOOSE x \in best : TRUE

(* The windows get_matching_blocks pushes after block x of window w:     *)
(* the part to the left, then the part to the right, when not empty.    *)
Subwindows(w, x) ==
  IF x.k = 0 THEN <<>>
  ELSE (IF w.alo < x.i /\ w.blo < x.j
          THEN <<Window(w.alo, x.i, w.blo, x.j)>> ELSE <<>>)
       \o (IF x.i + x.k < w.ahi /\ x.j + x.k < w.bhi
             THEN <<Window(x.i + x.k, w.ahi, x.j + x.k, w.bhi)>> ELSE <<>>)

(* get_opcodes over the sorted blocks and unified_diff's rendering of    *)
(* each opcode (lines 148-158): deleted lines of l1, inserted lines of   *)
(* l2, then the equal lines, which are taken from l1.                    *)
RECURSIVE RenderFrom(_, _, _, _, _)
RenderFrom(l1, l2, i, j, bl) ==
  IF bl = <<>> THEN <<>>
  ELSE LET x == Head(bl)
       IN  [t \in 1..(x.i - i) |-> [tag |-> "-", line |-> l1[i + t]]]
           \o [t \in 1..(x.j - j) |-> [tag |-> "+", line |-> l2[j + t]]]
           \o [t \in 1..x.k |-> [tag |-> " ", line |-> l1[x.i + t]]]
           \o RenderFrom(l1, l2, x.i + x.k, x.j + x.k, Tail(bl))

(* What unified_diff yields: nothing when every opcode is "equal"        *)
(* (get_grouped_opcodes then has no group), else the rendered opcodes.    *)
Render(l1, l2, bl) ==
  LET sorted == SetToSortSeq(ToSet(bl), LAMBDA x, y : x.i < y.i)
      lines == RenderFrom(l1, l2, 0, 0,
                          Append(sorted, [i |-> Len(l1), j |-> Len(l2), k |-> 0]))
  IN  IF \A t \in DOMAIN lines : lines[t].tag = " " THEN <<>> ELSE lines

-----------------------------------------------------------------------------
(* unified_diff creates the matcher over l1 and l2 (lines 128-131). *)
Init ==
  /\ \E c \in Cases : a = c[1] /\ b = c[2]
  /\ a0 = a
  /\ queue = <<Window(0, Len(a), 0, Len(b))>>
  /\ cur = [w |-> Window(0, 0, 0, 0), matches |-> {}, ret |-> NoBlock(Window(0, 0, 0, 0))]
  /\ step = "pop"
  /\ blocks = <<>>
  /\ out = <<>>

(* get_matching_blocks pops a window and calls cram's find_longest_match, *)
(* which overwrites the matched lines of a (lines 88-100).               *)
FindLongestMatch ==
  /\ step = "pop"
  /\ queue # <<>>
  /\ LET w == Last(queue)
         M == Overwrites(w)
     IN  /\ queue' = Front(queue)
         /\ a' = Overwrite(a, w, M)
         /\ cur' = [w |-> w, matches |-> M, ret |-> NoBlock(w)]
  /\ step' = "search"
  /\ UNCHANGED <<b, a0, blocks, out>>

(* The superclass's find_longest_match on the overwritten a (101-102). *)
SuperFindLongestMatch ==
  /\ step = "search"
  /\ cur' = [cur EXCEPT !.ret = LongestMatch(cur.w)]
  /\ step' = "restore"
  /\ UNCHANGED <<a, b, a0, queue, blocks, out>>

(* The overwritten lines are restored and find_longest_match returns to  *)
(* get_matching_blocks, which records a non-empty block and pushes the  *)
(* windows on either side of it (lines 103-107).                         *)
RestoreAndReturn ==
  /\ step = "restore"
  /\ a' = Restore(a, cur.w, cur.matches)
  /\ blocks' = IF cur.ret.k > 0 THEN Append(blocks, cur.ret) ELSE blocks
  /\ queue' = queue \o Subwindows(cur.w, cur.ret)
  /\ step' = "pop"
  /\ UNCHANGED <<b, a0, cur, out>>

(* The stack is empty: get_grouped_opcodes and unified_diff render the  *)
(* blocks from l1, which is self.a, and l2 (lines 132-158).             *)
RenderDiff ==
  /\ step = "pop"
  /\ queue = <<>>
  /\ out' = Render(a, b, blocks)
  /\ step' = "done"
  /\ UNCHANGED <<a, b, a0, queue, cur, blocks>>

Next == FindLongestMatch \/ SuperFindLongestMatch \/ RestoreAndReturn \/ RenderDiff

Spec == Init /\ [][Next]_vars

-----------------------------------------------------------------------------
(* Properties.                                                            *)

Equiv(el, l) == el = l \/ <<el, l>> \in Matches

(* Every pair of lines the alignment puts in a matching block is         *)
(* equivalent as authored, although difflib compared them on the        *)
(* overwritten a, where an expected line carries the text of whichever  *)
(* actual line sat at its offset in the window of that call.             *)
AlignedLinesEquivalent ==
  \A m \in DOMAIN blocks : \A t \in 1..blocks[m].k :
    Equiv(a0[blocks[m].i + t], b[blocks[m].j + t])

(* The diff shows every expected line exactly as authored: its "-" and   *)
(* " " lines, in order, are l1 before the matcher overwrote it, and its  *)
(* "+" and " " lines are as many as the actual lines (spec 4.3: no      *)
(* substituted text leaks into the rendered diff).                       *)
DiffShowsAuthoredText ==
  (step = "done" /\ out # <<>>) =>
    LET lines(T) == [t \in 1..Len(SelectSeq(out, LAMBDA r : r.tag \in T)) |->
                       SelectSeq(out, LAMBDA r : r.tag \in T)[t].line]
    IN  /\ lines({"-", " "}) = a0
        /\ Len(lines({"+", " "})) = Len(b)

(* unified_diff yields no hunk exactly when the two sequences have the   *)
(* same length and each expected line is equivalent to the actual line  *)
(* at its position (spec 4.3: no hunks iff the sequences are equivalent *)
(* under the matchers).                                                   *)
NoHunksIffEquivalent ==
  step = "done" =>
    (out = <<>> <=> /\ Len(a0) = Len(b)
                    /\ \A p \in DOMAIN a0 : Equiv(a0[p], b[p]))

(* The alignment is the one spec 4.3 asks for: Ratcliff/Obershelp with  *)
(* the matchers consulted directly for every pair of lines.             *)
Abstract == INSTANCE AugmentedDiff WITH
  la <- a0, lb <- b,
  blocks <- IF step = "done" \/ (step = "pop" /\ queue = <<>>)
              THEN ToSet(blocks) ELSE {},
  aligned <- step = "done" \/ (step = "pop" /\ queue = <<>>)

AlignsLikeAugmentedDiff == Abstract!Spec

=============================================================================
