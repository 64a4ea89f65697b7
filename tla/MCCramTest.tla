---------------------------- MODULE MCCramTest ----------------------------
(* Instantiates CramTest for TLC: every script of up to MaxLines lines    *)
(* built from a "$ " line, a "> " line, a literal line and the indented   *)
(* lines "a" and "[1]"; commands print "a" (with or without newline).     *)
EXTENDS CramTest

MCLines ==
  {Line(k, <<>>) : k \in {"cmd", "con", "lit"}}
  \cup {Line("exp", <<"a">>), Line("exp", <<"[1]">>)}

MCScripts == BoundedSeq(MCLines, MaxLines)

(* Only well-formed scripts: the counterexamples then show ordinary    *)
(* "$ " commands rather than stray "> " lines.                         *)
MCWellFormedScripts == {s \in MCScripts : WellFormed(s)}

MCBodies == {<<"a">>}
=============================================================================
