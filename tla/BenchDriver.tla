------------------------------ MODULE BenchDriver ------------------------------
(***************************************************************************)
(* The sysbench driver scripts of src/scripts.  Each script walks nested   *)
(* loops over partitioned/single tables, test sets and table sizes or     *)
(* access ratios, and at every site starts `sysbench ...` with            *)
(* subprocess.Popen(shell=True, stdout=PIPE, stderr=PIPE), then runs      *)
(*     while popen.poll() is None:                                        *)
(*         r = popen.stdout.readline(); ...                               *)
(* The measured run also appends the number of its "queries:" line to     *)
(* qps_ref[test_set], where qps_ref is qps or part_qps.                   *)
(*                                                                         *)
(* The scripts are Python 2 (has_key, print of str): Popen's default      *)
(* bufsize=0 makes readline consume exactly one line from the pipe.  The  *)
(* child is sysbench: it writes lines to stdout and stderr in program     *)
(* order, each pipe holds PipeCap lines, and a write to a full pipe       *)
(* blocks.  stderr is never read.                                         *)
(*                                                                         *)
(* The loops are unrolled into a schedule of statements; the value a      *)
(* "queries:" line carries is abstracted to the child's command and the  *)
(* index of the statement that started it, so a recorded value names the *)
(* run that measured it.                                                  *)
(***************************************************************************)
EXTENDS Integers, Sequences, FiniteSets, SequencesExt

CONSTANTS
  Scripts,    \* which scripts: "prepare_and_run" and/or "partial"
  TestSeq,    \* test_sets, in order
  NPoints,    \* the number of table_sizes (prepare_and_run) or access_ratios (partial)
  Outputs,    \* what one sysbench run may write: sequences of [fd, kind]
  PipeCap     \* how many lines a pipe holds

Partitions == <<"false", "true">>
Dicts == {"qps", "part_qps"}
TestKeys == {TestSeq[i] : i \in DOMAIN TestSeq}
PrepareLua == "oltp_prepare_insert.lua"

(* warm_up_time and run_time (prepare_and_run lines 39-40). *)
WarmUpTime == 100
RunTime == 80

(* The database a run uses: "sbtest_" + str(table_size), with "_part"   *)
(* for the partitioned table (prepare_and_run lines 49-50).  A table    *)
(* size is its index in table_sizes; the partial script's table_size,   *)
(* 2000000000, is the last of them, NPoints.                             *)
DbName(s, p) == [size |-> s, part |-> p = "true"]
Dbs == {DbName(s, p) : s \in 1..NPoints, p \in {"false", "true"}}

(* The fields of each command template, in the order of its {}           *)
(* (partial lines 12-17; prepare_and_run lines 18-23 and 25-29, whose   *)
(* prepare_insert fixes --time=1 and the Lua script).                    *)
PartialTemplate == <<"time", "table_size", "ratio", "partitioned", "db", "lua", "action">>
RunTemplate == <<"time", "table_size", "partitioned", "db", "lua", "action">>
PrepareInsert == <<"table_size", "partitioned", "db", "action">>

(* template.format(a1, a2, ...): the i-th {} takes the i-th argument. *)
(* A command is what it tells sysbench, a function from field to value. *)
Format(tpl, args) == [f \in Range(tpl) |-> args[CHOOSE i \in DOMAIN tpl : tpl[i] = f]]
PrepareCmd(args) == [time |-> 1, lua |-> PrepareLua] @@ Format(PrepareInsert, args)

(* Mutant: the actions list in the order prepare, cleanup, run. *)
ActionsPrepareFirst == <<"prepare", "cleanup", "run">>

(* actions (prepare_and_run line 31). *)
Actions == <<"cleanup", "prepare", "run">>
(* Mutant: qps_ref never switched to part_qps. *)
QpsRefNoSwitch(p) == "qps"

(* qps_ref is qps for the single table and part_qps for the partitioned *)
(* one (partial lines 33-36; prepare_and_run lines 44-47).              *)
QpsRef(p) == IF p = "false" THEN "qps" ELSE "part_qps"

Stmt(op, site, p, t, pt, cmd) ==
  [op |-> op, site |-> site, dict |-> QpsRef(p), key |-> t, point |-> pt, cmd |-> cmd]

(* run_tests_on_partial_data: for each table type and test set, reset  *)
(* the list, then for each access ratio a warm-up run and a measured    *)
(* run (lines 32-57).                                                    *)
PartialSchedule ==
  LET cmd(time, p, t, r) ==
        Format(PartialTemplate, <<time, NPoints, r, p, DbName(NPoints, p), t, "run">>)
      perRatio(p, t, r) ==
        <<Stmt("child", "warm_up", p, t, r, cmd(WarmUpTime, p, t, r)),
          Stmt("child", "run", p, t, r, cmd(RunTime, p, t, r))>>
      perTest(p, t) ==
        <<Stmt("reset", "", p, t, 0, <<>>)>>
          \o FlattenSeq([r \in 1..NPoints |-> perRatio(p, t, r)])
      perPart(p) == FlattenSeq([i \in DOMAIN TestSeq |-> perTest(p, TestSeq[i])])
  IN  FlattenSeq([i \in 1..2 |-> perPart(Partitions[i])])

(* prepare_and_run_tests: for each table size and table type, the actions *)
(* in order: cleanup (one run), prepare (two runs, the second with       *)
(* action "run") and run: per test set, create the list if missing, a   *)
(* warm-up run, then the measured command, whose format(rum_time, ...)   *)
(* raises NameError (lines 42-92).                                       *)
PrepareAndRunSchedule ==
  LET prep(p, s, a) == PrepareCmd(<<s, p, DbName(s, p), a>>)
      perTest(p, t, s) ==
        <<Stmt("ensure", "", p, t, s, <<>>),
          Stmt("child", "warm_up", p, t, s,
               Format(RunTemplate, <<WarmUpTime, s, p, DbName(s, p), t, "run">>)),
          Stmt("crash", "run", p, t, s, <<>>)>>
      perAction(s, p, a) ==
        CASE a = "cleanup" -> <<Stmt("child", "cleanup", p, "", s, prep(p, s, a))>>
          [] a = "prepare" -> <<Stmt("child", "prepare", p, "", s, prep(p, s, a)),
                                Stmt("child", "prepare_run", p, "", s, prep(p, s, "run"))>>
          [] OTHER -> FlattenSeq([i \in DOMAIN TestSeq |-> perTest(p, TestSeq[i], s)])
      perPart(s, p) == FlattenSeq([i \in 1..3 |-> perAction(s, p, Actions[i])])
      perSize(s) == FlattenSeq([i \in 1..2 |-> perPart(s, Partitions[i])])
  IN  FlattenSeq([s \in 1..NPoints |-> perSize(s)])

Schedule(script) ==
  IF script = "partial" THEN PartialSchedule ELSE PrepareAndRunSchedule

(* Mutant: the warm-up loop also parses "queries:" lines. *)
ParsesAll(site) == site \in {"warm_up", "run"}

(* Only the measured run's loop looks for "queries:" (partial lines     *)
(* 58-64; the warm-up loop of lines 49-51 only prints).                 *)
Parses(site) == site = "run"

VARIABLES
  script,     \* the script being run
  k,          \* the index of the statement being executed
  phase,      \* "running", "done" or "crashed" (an exception ended it)
  pc,         \* "next", or inside a site's loop: "poll" or "read"
  child,      \* the sysbench process: [cmd, todo, opipe, epipe, exited]
  results,   \* results[d][t]: the list qps_ref[test_set] of dict d
  dbs         \* dbs[db]: the sbtest tables of database db on the MySQL server

vars == <<script, k, phase, pc, child, results, dbs>>

S == Schedule(script)[k]
NoChild == [cmd |-> <<>>, todo |-> <<>>, opipe |-> <<>>, epipe |-> 0, exited |-> TRUE]

(* The tables of a database: none, created empty or loaded with data,   *)
(* and whether they are partitioned.                                     *)
Tables(state, part) == [state |-> state, part |-> part]
TableStates == {Tables(st, pt) : st \in {"none", "created", "loaded"}, pt \in BOOLEAN}

(* What the server may hold when a script starts.  The partial script    *)
(* requires both databases of its table size already prepared (its      *)
(* docstring, lines 3-6); prepare_and_run starts from whatever an        *)
(* earlier run left.                                                      *)
InitDbs(scr) ==
  IF scr = "partial"
    THEN {[db \in Dbs |-> IF db.size = NPoints THEN Tables("loaded", db.part)
                          ELSE Tables("none", FALSE)]}
    ELSE [Dbs -> TableStates]

(* sysbench's effect on the database when a command finishes: cleanup   *)
(* drops the tables, oltp_prepare_insert.lua's prepare creates them     *)
(* empty with the --partitioned layout and its run bulk-loads created   *)
(* tables; the OLTP runs change rows only.  This is sysbench's contract, *)
(* not code of this repository.                                          *)
Effect(t, c) ==
  CASE c["action"] = "cleanup" -> Tables("none", FALSE)
    [] c["action"] = "prepare" -> Tables("created", c["partitioned"] = "true")
    [] c["lua"] = PrepareLua /\ t.state = "created" -> [t EXCEPT !.state = "loaded"]
    [] OTHER -> t

-----------------------------------------------------------------------------
(* qps = {}, part_qps = {} (lines 27-28). *)
Init ==
  /\ script \in Scripts
  /\ k = 1
  /\ phase = "running"
  /\ pc = "next"
  /\ child = NoChild
  /\ results = [d \in Dicts |-> [t \in TestKeys |-> <<>>]]
  /\ dbs \in InitDbs(script)

Advance == k' = k + 1 /\ pc' = "next"

(* qps_ref[test_set] = [] (line 41). *)
Reset ==
  /\ phase = "running" /\ pc = "next" /\ k <= Len(Schedule(script))
  /\ S.op = "reset"
  /\ results' = [results EXCEPT ![S.dict][S.key] = <<>>]
  /\ Advance
  /\ UNCHANGED <<script, phase, child, dbs>>

(* if not qps_ref.has_key(test_set): qps_ref[test_set] = [] (lines     *)
(* 75-76): a list already there is kept, a missing one is empty.        *)
Ensure ==
  /\ phase = "running" /\ pc = "next" /\ k <= Len(Schedule(script))
  /\ S.op = "ensure"
  /\ Advance
  /\ UNCHANGED <<script, phase, child, results, dbs>>

(* template.format(rum_time, ...) raises NameError (lines 90-91). *)
Crash ==
  /\ phase = "running" /\ pc = "next" /\ k <= Len(Schedule(script))
  /\ S.op = "crash"
  /\ phase' = "crashed"
  /\ UNCHANGED <<script, k, pc, child, results, dbs>>

(* The command is formatted, printed and started with both pipes        *)
(* (lines 53-57).                                                         *)
Launch ==
  /\ phase = "running" /\ pc = "next" /\ k <= Len(Schedule(script))
  /\ S.op = "child"
  /\ \E o \in Outputs :
       child' = [cmd |-> S.cmd, todo |-> o, opipe |-> <<>>, epipe |-> 0, exited |-> FALSE]
  /\ pc' = "poll"
  /\ UNCHANGED <<script, k, phase, results, dbs>>

(* Mutant: popen.wait() before reading, the loop body never runs. *)
PollWaits ==
  /\ pc = "poll"
  /\ child.exited
  /\ Advance
  /\ UNCHANGED <<script, phase, child, results, dbs>>

(* while popen.poll() is None (line 58): the loop ends as soon as the   *)
(* child has exited, whatever is still in its stdout pipe.               *)
Poll ==
  /\ pc = "poll"
  /\ IF child.exited THEN Advance ELSE pc' = "read" /\ UNCHANGED k
  /\ UNCHANGED <<script, phase, child, results, dbs>>

(* r = popen.stdout.readline() returns the next line; the measured run  *)
(* appends the number of a "queries:" line to qps_ref[test_set] (lines  *)
(* 59-64).  The number is what the child measured: it stands for the    *)
(* child's command, with the index of the statement that started it.    *)
ReadLine ==
  /\ pc = "read"
  /\ child.opipe # <<>>
  /\ child' = [child EXCEPT !.opipe = Tail(@)]
  /\ results' = IF Parses(S.site) /\ Head(child.opipe) = "queries"
                  THEN [results EXCEPT ![S.dict][S.key] = Append(@, [run |-> k, cmd |-> child.cmd])]
                  ELSE results
  /\ pc' = "poll"
  /\ UNCHANGED <<script, k, phase, dbs>>

(* readline() returns "" once the child has closed its end (line 59). *)
ReadEOF ==
  /\ pc = "read"
  /\ child.opipe = <<>>
  /\ child.exited
  /\ pc' = "poll"
  /\ UNCHANGED <<script, k, phase, child, results, dbs>>

(* After the last loop the dictionaries are printed (lines 68-71). *)
Finish ==
  /\ phase = "running" /\ pc = "next"
  /\ k > Len(Schedule(script))
  /\ phase' = "done"
  /\ UNCHANGED <<script, k, pc, child, results, dbs>>

Parent == Reset \/ Ensure \/ Crash \/ Launch \/ Poll \/ ReadLine \/ ReadEOF \/ Finish

(* sysbench writes its next line; a write to a full pipe blocks. *)
ChildWrite ==
  /\ ~child.exited
  /\ child.todo # <<>>
  /\ LET w == Head(child.todo) IN
       \/ /\ w.fd = "out" /\ Len(child.opipe) < PipeCap
          /\ child' = [child EXCEPT !.todo = Tail(@), !.opipe = Append(@, w.kind)]
       \/ /\ w.fd = "err" /\ child.epipe < PipeCap
          /\ child' = [child EXCEPT !.todo = Tail(@), !.epipe = @ + 1]
  /\ UNCHANGED <<script, k, phase, pc, results, dbs>>

(* sysbench exits, closing both pipes. *)
ChildExit ==
  /\ ~child.exited
  /\ child.todo = <<>>
  /\ child' = [child EXCEPT !.exited = TRUE]
  /\ dbs' = [dbs EXCEPT ![child.cmd["db"]] = Effect(@, child.cmd)]
  /\ UNCHANGED <<script, k, phase, pc, results>>

Child == ChildWrite \/ ChildExit

Next == Parent \/ Child

(* The OS runs the script and sysbench whenever they are not blocked. *)
Fairness == WF_vars(Parent) /\ WF_vars(Child)

Spec == Init /\ [][Next]_vars /\ Fairness

-----------------------------------------------------------------------------
(* Properties.                                                            *)

MeasuredSteps(d, t) ==
  {i \in DOMAIN Schedule(script) :
     Schedule(script)[i].site = "run" /\ Schedule(script)[i].op = "child"
     /\ Schedule(script)[i].dict = d /\ Schedule(script)[i].key = t}

(* The --partitioned value of the runs qps or part_qps is meant for. *)
LayoutOf(d) == IF d = "qps" THEN "false" ELSE "true"

(* Every number in qps[t] or part_qps[t] was measured by a sysbench run  *)
(* of Lua script t, for run_time (a measured run, not a warm-up), on the *)
(* table layout the dictionary stands for, and the numbers are in run    *)
(* order, at most one per run: the list the script appends to (qps_ref, *)
(* rebound per table type) and the command the child was started with   *)
(* (formatted from partitioned) must agree.                              *)
ResultsAttributed ==
  \A d \in Dicts, t \in TestKeys :
    LET r == results[d][t] IN
      /\ \A n \in DOMAIN r :
           /\ r[n].cmd["lua"] = t
           /\ r[n].cmd["time"] = RunTime
           /\ r[n].cmd["partitioned"] = LayoutOf(d)
      /\ \A n \in 1..(Len(r) - 1) : r[n].run < r[n + 1].run

(* A number once appended to qps_ref[test_set] is never lost: the reset *)
(* of line 41 empties only a list that has no numbers yet.               *)
ResultsNeverErased ==
  [][\A d \in Dicts, t \in TestKeys : IsPrefix(results[d][t], results'[d][t])]_results

(* sysbench blocked writing to its full stderr pipe, which nobody reads, *)
(* while the script blocks in readline on the empty stdout pipe.         *)
Stalled ==
  /\ pc = "read"
  /\ child.opipe = <<>>
  /\ ~child.exited
  /\ child.todo # <<>> /\ Head(child.todo).fd = "err"
  /\ child.epipe = PipeCap

(* The script eventually ends (or raises), and the only way it can hang *)
(* is the stderr stall: reading stdout line by line until poll() sees   *)
(* the exit never deadlocks on stdout.                                    *)
EndsOrStalls ==
  <>(phase # "running" \/ Stalled)

(* Every sysbench test-set run, warm-up or measured, runs on a database *)
(* whose tables are loaded and have the layout its --partitioned flag    *)
(* names, with the --time of its kind: the cleanup, two-stage prepare   *)
(* and the runs of one table size and type happen in that order against *)
(* the same db_name, and the positional format arguments land in their  *)
(* fields.                                                                *)
RunsOnPreparedTable ==
  pc # "next" /\ S.site \in {"warm_up", "run"} =>
    LET c == S.cmd IN
      /\ dbs[c["db"]] = Tables("loaded", c["partitioned"] = "true")
      /\ c["time"] = IF S.site = "run" THEN RunTime ELSE WarmUpTime

(* When the script ends, qps_ref[test_set] holds one number per access   *)
(* ratio, from the measured run of that ratio: the lists are meant to be *)
(* plotted against access_ratios or table_sizes.                          *)
PointsRecorded ==
  phase = "done" =>
    \A d \in Dicts, t \in TestKeys :
      Len(results[d][t]) = Cardinality(MeasuredSteps(d, t))

=============================================================================
