------------------------------ MODULE MCCramDiff ------------------------------
(***************************************************************************)
(* Instance of CramDiff for TLC.  Expected lines are drawn from x, y and  *)
(* an annotated line G; actual lines from x, y and w.  G is accepted for  *)
(* y and for w (think "* (glob)"), so one expected line can stand for    *)
(* two different actual lines and an actual line can occur twice.        *)
(***************************************************************************)
EXTENDS CramDiff

MCExpLines == {"x", "y", "G"}
MCActLines == {"x", "y", "w"}
MCMatches == {<<"G", "y">>, <<"G", "w">>}
MCCases == BoundedSeq(MCExpLines, 3) \X BoundedSeq(MCActLines, 3)

=============================================================================
