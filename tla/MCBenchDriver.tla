---------------------------- MODULE MCBenchDriver ----------------------------
(* The driver scripts with one test set and two access ratios (partial) or *)
(* table sizes (prepare_and_run), pipes of two lines, and sysbench runs     *)
(* that print an interval report, the "queries:" summary and a closing      *)
(* statistics line, with no, some or too much stderr output.                *)
EXTENDS BenchDriver

Report == [fd |-> "out", kind |-> "report"]
Queries == [fd |-> "out", kind |-> "queries"]
Stats == [fd |-> "out", kind |-> "stats"]
Err == [fd |-> "err", kind |-> "err"]

MCTestSeq == <<"oltp_point_select">>

(* A run that writes nothing to stderr, one that writes a line, and one    *)
(* that writes more than the stderr pipe holds.                            *)
MCOutputs ==
  {<<Report, Queries, Stats>>,
   <<Err, Report, Queries, Stats>>,
   <<Report, Err, Err, Err, Queries, Stats>>}

(* Runs that write to stdout only. *)
MCOutputsQuiet == {<<Report, Queries, Stats>>}
=============================================================================
