------------------------------- MODULE CramRun -------------------------------
(***************************************************************************)
(* cram's driver: main() (cram/_main.py) pulls (path, test) pairs through *)
(* the generator chain runxunit(runcli(runtests(...))) and calls each     *)
(* test() before asking for the next.  runtests (cram/_run.py) walks the *)
(* path arguments with _findtests, drops                                 *)
(* paths it has seen, gives empty files a trivial test, and names each    *)
(* test's directory under the temporary root after the file's basename,  *)
(* adding "-i" for a basename met before.  runcli (cram/_cli.py) counts,  *)
(* writes or removes <test>.err and may merge the diff with patch(1);     *)
(* runxunit (cram/_xunit.py) counts and records one testcase per test.    *)
(*                                                                         *)
(* A test file is a record [dir, base, empty]; a basename (and ProcTmp)  *)
(* is a record [name, sfx], sfx the sequence of "-i" suffixes it carries, *)
(* so a file called "a.t-1" has [name |-> "a.t", sfx |-> <<1>>].  What    *)
(* running one test gives (CramTest) is a nondeterministic verdict.       *)
(***************************************************************************)
EXTENDS Integers, Sequences, SequencesExt, FiniteSets

CONSTANTS
  Files,      \* the files on disk
  Tree,       \* Tree[d]: [hidden, subdirs] of directory d; hidden: its name starts with "."
  TestNames,  \* the file names that do not start with "." and end in ".t"
  NameOrder,  \* every file name, in the order sorted() puts them
  PathLists,  \* the path arguments considered: sequences of FileArg and DirArg
  ProcTmp     \* the basename of the "tmp" directory main() makes first

(* A path argument: a file, or a directory; dot says the argument's own  *)
(* basename starts with "." (it is spelled "." or "..").                 *)
FileArg(f) == [isdir |-> FALSE, file |-> f, root |-> f.dir, dot |-> FALSE]
DirArg(d, dot) ==
  [isdir |-> TRUE, file |-> CHOOSE f \in Files : TRUE, root |-> d, dot |-> dot]

Verdicts == {"pass", "fail", "skip"}

(* The options main() is given (_main.py lines 126-195). *)
Options ==
  [quiet : BOOLEAN, interactive : BOOLEAN, answer : {"y", "n"}, debug : BOOLEAN,
   noerrfiles : BOOLEAN, xunit : BOOLEAN, keep : BOOLEAN]

(* A pair main() refuses as mutually exclusive (lines 136-146). *)
Conflicting(o) ==
  \/ o.quiet /\ o.interactive
  \/ o.debug /\ (o.quiet \/ o.interactive \/ o.xunit)

(* The early returns of main() before it makes the temporary root       *)
(* (lines 127-170), in the order it checks them: --version, a conflict,  *)
(* the shell or patch(1) not on the PATH, no path given, a path missing. *)
(* Whether the shell, patch(1) and each path exist is up to the system. *)
SetupErrors(o, ps) ==
  {"version"} \cup
    IF Conflicting(o) THEN {"conflict"}
    ELSE {"shell"} \cup (IF o.interactive THEN {"patch"} ELSE {})
           \cup (IF ps = <<>> THEN {"usage"} ELSE {"nofile"})

-----------------------------------------------------------------------------
(* _findtests (_run.py lines 21-32).                                      *)

(* not f.startswith('.') and f.endswith('.t') (line 29). *)
IsTest(f) == f.base.sfx = <<>> /\ f.base.name \in TestNames

Rank(n) == CHOOSE r \in DOMAIN NameOrder : NameOrder[r] = n

(* The tests among a root's files, in sorted order (lines 28-30). *)
RootTests(d) ==
  SetToSortSeq({f \in Files : f.dir = d /\ IsTest(f)},
               LAMBDA f, g : Rank(f.base.name) < Rank(g.base.name))

(* os.walk(top), top-down (lines 19, 25): the roots in the order it       *)
(* yields them.  It goes into the subdirectories in the order the        *)
(* directory lists them, which is any order, and into hidden ones too.   *)
RECURSIVE Walks(_), WalkAll(_)
Walks(d) == UNION {{<<d>> \o w : w \in WalkAll(o)} : o \in SetToSeqs(Tree[d].subdirs)}
WalkAll(ds) ==
  IF ds = <<>> THEN {<<>>}
  ELSE {w \o r : w \in Walks(Head(ds)), r \in WalkAll(Tail(ds))}

(* What one argument yields (lines 23-32): a directory's tests root by    *)
(* root, skipping the files of a root whose basename starts with "." --   *)
(* for the top that is the argument as spelled -- and a file as it is.   *)
Yields(p) ==
  IF ~p.isdir THEN {<<p.file>>}
  ELSE {FlattenSeq([k \in DOMAIN w |->
                      IF Tree[w[k]].hidden \/ (k = 1 /\ p.dot) THEN <<>>
                      ELSE RootTests(w[k])]) : w \in Walks(p.root)}

(* Every sequence _findtests(paths) may yield. *)
RECURSIVE FindTests(_)
FindTests(ps) ==
  IF ps = <<>> THEN {<<>>}
  ELSE {y \o r : y \in Yields(Head(ps)), r \in FindTests(Tail(ps))}

VARIABLES
  paths,      \* main()'s path arguments
  args,       \* what _findtests yields for the path arguments
  opts,       \* the options
  phase,      \* "setup", "rejected" (an early return), "loop", "done",
              \* "crashed" (an exception left main) or "interrupted"
  gi,         \* how many paths runtests' loop has enumerated
  seen,       \* runtests' `seen`: files already yielded
  basenames,  \* runtests' `basenames`
  cur,        \* runtests' locals at its yield: [file, empty, basename]
  pending,    \* a yielded test not called yet
  dirs,       \* directories under the temporary root
  err,        \* err[f]: f.err exists
  cli,        \* runcli's total, skipped, failed
  xu,         \* runxunit's total, skipped, failed and testcases
  xml,        \* the xUnit file written: {} or {its header counts and testcases}
  failed,     \* main's `failed`
  exitcode,   \* the process's exit status: main()'s return, 0 after an interrupt
  tmproot,    \* the temporary root made by mkdtemp still exists
  log         \* history: [file, verdict, merged] of every test run

vars == <<paths, args, opts, phase, gi, seen, basenames, cur, pending, dirs, err,
          cli, xu, xml, failed, exitcode, tmproot, log>>

NoBase == [name |-> "", sfx |-> <<>>]
Counts(t, s, f) == [total |-> t, skipped |-> s, failed |-> f]

-----------------------------------------------------------------------------
Init ==
  /\ paths \in PathLists
  /\ args \in FindTests(paths)
  /\ opts \in Options
  /\ phase = "setup"
  /\ gi = 0
  /\ seen = {}
  /\ basenames = {}
  /\ cur = [file |-> CHOOSE f \in Files : TRUE, empty |-> FALSE, basename |-> NoBase]
  /\ pending = FALSE
  /\ dirs = {}
  /\ err \in [Files -> BOOLEAN]
  /\ cli = Counts(0, 0, 0)
  /\ xu = [total |-> 0, skipped |-> 0, failed |-> 0, cases |-> <<>>]
  /\ xml = {}
  /\ failed = FALSE
  /\ exitcode = -1
  /\ tmproot = FALSE
  /\ log = <<>>

(* main() returns before making anything on disk (lines 127-170). *)
Reject ==
  /\ phase = "setup"
  /\ \E e \in SetupErrors(opts, paths) :
       exitcode' = IF e = "version" THEN 0 ELSE 2
  /\ phase' = "rejected"
  /\ UNCHANGED <<paths, args, opts, gi, seen, basenames, cur, pending, dirs,
                 err, cli, xu, xml, failed, tmproot, log>>

(* The checks pass: mkdtemp makes the temporary root and main() makes    *)
(* its "tmp" directory in it for TMPDIR (lines 179-185).                 *)
Setup ==
  /\ phase = "setup"
  /\ ~Conflicting(opts)
  /\ paths # <<>>
  /\ phase' = "loop"
  /\ tmproot' = TRUE
  /\ dirs' = {ProcTmp}
  /\ UNCHANGED <<paths, args, opts, gi, seen, basenames, cur, pending, err,
                 cli, xu, xml, failed, exitcode, log>>

(* Mutant: the `seen` check left out. *)
NextFreshNoDedup ==
  LET C == (gi + 1)..Len(args)
  IN  IF C = {} THEN 0 ELSE Min(C)

(* The next path runtests yields: the first one at or after gi + 1 whose *)
(* absolute path has not been seen (_run.py lines 50-55).                 *)
NextFresh ==
  LET C == {k \in (gi + 1)..Len(args) : args[k] \notin seen}
  IN  IF C = {} THEN 0 ELSE Min(C)

(* Mutant: every test directory named after the plain basename. *)
DirNamePlain(k) == args[k].base

(* The name of the test's directory (_run.py lines 60-64): a basename met *)
(* before gets the suffix "-i", i the 0-based enumerate index.            *)
DirName(k) ==
  LET b == args[k].base
  IN  IF b \in basenames THEN [b EXCEPT !.sfx = Append(@, k - 1)] ELSE b

(* main's `for path, test in tests` asks for the next test: the chain of *)
(* generators runs runtests' loop body up to its next yield.             *)
NextTest ==
  /\ phase = "loop"
  /\ ~pending
  /\ NextFresh # 0
  /\ LET k == NextFresh
         f == args[k]
     IN  /\ gi' = k
         /\ seen' = seen \cup {f}
         /\ IF f.empty
              THEN /\ cur' = [file |-> f, empty |-> TRUE, basename |-> cur.basename]
                   /\ UNCHANGED basenames
              ELSE /\ cur' = [file |-> f, empty |-> FALSE, basename |-> DirName(k)]
                   /\ basenames' = basenames \cup {f.base}
  /\ pending' = TRUE
  /\ UNCHANGED <<paths, args, opts, phase, dirs, err, cli, xu, xml, failed, exitcode,
                 tmproot, log>>

-----------------------------------------------------------------------------
(* The wrappers' bookkeeping for one test with verdict v ("empty" for an *)
(* empty file).                                                           *)

(* Mutant: an empty file not counted as skipped. *)
CliCountNoEmpty(c, v) ==
  [c EXCEPT !.total = @ + 1,
            !.skipped = IF v = "skip" THEN @ + 1 ELSE @,
            !.failed = IF v = "fail" THEN @ + 1 ELSE @]

(* runcli's testwrapper (_cli.py lines 76-102).  *)
CliCount(c, v) ==
  [c EXCEPT !.total = @ + 1,
            !.skipped = IF v \in {"empty", "skip"} THEN @ + 1 ELSE @,
            !.failed = IF v = "fail" THEN @ + 1 ELSE @]

(* runxunit's testwrapper (_xunit.py lines 102-143). *)
XunitRecord(x, f, v) ==
  [x EXCEPT !.total = @ + 1,
            !.skipped = IF v \in {"empty", "skip"} THEN @ + 1 ELSE @,
            !.failed = IF v = "fail" THEN @ + 1 ELSE @,
            !.cases = Append(@, [file |-> f, verdict |-> v])]

(* Mutant: a pass leaves an old .err file in place. *)
ErrAfterKeptOnPass(e, v, merged) ==
  CASE v = "fail" -> IF opts.noerrfiles THEN e ELSE ~merged
    [] OTHER      -> e

(* Whether f.err exists after runcli saw verdict v (_cli.py lines        *)
(* 96-128): removed on a pass, written on a failure unless -e, removed  *)
(* again when the interactive merge succeeds.                             *)
ErrAfter(e, v, merged) ==
  CASE v = "pass" -> FALSE
    [] v = "fail" -> IF opts.noerrfiles THEN e ELSE ~merged
    [] OTHER      -> e

(* Mutant: the temporary root removed after a normal return only, not in *)
(* a finally clause.                                                      *)
ExitCleanupOnReturn(how) == tmproot' = (tmproot /\ (opts.keep \/ how # "return"))

(* main's finally (_main.py lines 210-215), on every way out of its try: *)
(* shutil.rmtree(tmpdir) unless --keep-tmpdir.                           *)
ExitCleanup(how) == tmproot' = (tmproot /\ opts.keep)

(* main calls test(): runxunit's wrapper calls runcli's, which calls the *)
(* closure of runtests (_run.py lines 66-76): mkdir of the test's own    *)
(* directory, testfile() in it, and back.  The closure reads runtests'   *)
(* locals as they are now.  With --debug main() calls the closure        *)
(* itself (_main.py 190-195) and test() returns an empty diff whatever  *)
(* the commands print (_test.py 112-123).                                *)
RunTest ==
  /\ phase = "loop"
  /\ pending
  /\ pending' = FALSE
  /\ LET f == cur.file
         cli1(v) == IF opts.debug THEN cli ELSE CliCount(cli, v)
         xu1(v) == IF opts.xunit THEN XunitRecord(xu, f, v) ELSE xu
     IN
     IF cur.empty
       THEN /\ cli' = cli1("empty")
            /\ xu' = xu1("empty")
            /\ log' = Append(log, [file |-> f, verdict |-> "empty", merged |-> FALSE])
            /\ UNCHANGED <<phase, dirs, err, failed, tmproot>>
     ELSE IF cur.basename \in dirs
       THEN \* os.mkdir raises; the exception leaves main()
            /\ phase' = "crashed"
            /\ ExitCleanup("raise")
            /\ cli' = IF opts.debug THEN cli ELSE [cli EXCEPT !.total = @ + 1]
            /\ xu' = IF opts.xunit THEN [xu EXCEPT !.total = @ + 1] ELSE xu
            /\ UNCHANGED <<dirs, err, failed, log>>
     ELSE \E v \in IF opts.debug THEN {"debug"} ELSE Verdicts, patched \in BOOLEAN :
            LET merged == v = "fail" /\ ~opts.quiet /\ opts.interactive
                          /\ opts.answer = "y" /\ patched
            IN  /\ dirs' = dirs \cup {cur.basename}
                /\ cli' = cli1(v)
                /\ err' = IF opts.debug THEN err
                          ELSE [err EXCEPT ![f] = ErrAfter(@, v, merged)]
                /\ xu' = xu1(v)
                /\ failed' = (failed \/ v = "fail")
                /\ log' = Append(log, [file |-> f, verdict |-> v, merged |-> merged])
                /\ UNCHANGED <<phase, tmproot>>
  /\ UNCHANGED <<paths, args, opts, gi, seen, basenames, cur, xml, exitcode>>

(* Mutant: the header formatted before the loop, with the counts at 0. *)
XmlWriteHeaderFirst(x) ==
  [tests |-> 0, failures |-> 0, skipped |-> 0, cases |-> x.cases]

(* What runxunit writes to the file once its loop is over (_xunit.py     *)
(* lines 149-173): the header with the totals, then every testcase.      *)
XmlWrite(x) ==
  [tests |-> x.total, failures |-> x.failed, skipped |-> x.skipped,
   cases |-> x.cases]

(* The generators are exhausted: runcli prints its summary, runxunit     *)
(* writes the XML file, and main() returns (_main.py lines 197-209).     *)
Finish ==
  /\ phase = "loop"
  /\ ~pending
  /\ NextFresh = 0
  /\ exitcode' = IF log = <<>> THEN 2 ELSE IF failed THEN 1 ELSE 0
  /\ phase' = "done"
  /\ xml' = IF opts.xunit THEN {XmlWrite(xu)} ELSE xml
  /\ ExitCleanup("return")
  /\ UNCHANGED <<paths, args, opts, gi, seen, basenames, cur, pending, dirs, err,
                 cli, xu, failed, log>>

(* Ctrl-C while the loop runs, between tests or inside one: the          *)
(* KeyboardInterrupt leaves main() through its finally, and __main__.py  *)
(* catches it (lines 7-10), so the process exits 0 with no summary.      *)
Interrupt ==
  /\ phase = "loop"
  /\ phase' = "interrupted"
  /\ ExitCleanup("interrupt")
  /\ exitcode' = 0
  /\ UNCHANGED <<paths, args, opts, gi, seen, basenames, cur, pending, dirs, err,
                 cli, xu, xml, failed, log>>

Next == Reject \/ Setup \/ NextTest \/ RunTest \/ Finish \/ Interrupt

Spec == Init /\ [][Next]_vars

-----------------------------------------------------------------------------
(* Properties.                                                            *)

(* The paths of s in order, each absolute path kept at its first place. *)
Dedup(s) ==
  LET firsts == SelectSeq([k \in DOMAIN s |-> k],
                          LAMBDA k : \A m \in 1..(k - 1) : s[m] # s[k])
  IN  [n \in DOMAIN firsts |-> s[firsts[n]]]

(* Every test directory is new: no mkdir in runtests' test() meets a    *)
(* directory made for another test or main's "tmp" (_run.py line 69);   *)
(* the spec promises every test a distinct isolation folder.            *)
IsolationDirsFresh == phase # "crashed"

(* Each test file runs exactly once, in discovery order, and a run uses *)
(* the file it was yielded for, although a path is given twice and the  *)
(* test closures read runtests' loop variables late (_run.py 50-78).    *)
RunsEachFileOnce ==
  LET ran == [m \in DOMAIN log |-> log[m].file]
  IN  /\ IsPrefix(ran, Dedup(args))
      /\ phase = "done" => ran = Dedup(args)

(* How many tests of the run had a verdict in V. *)
NVerdicts(V) == Cardinality({m \in DOMAIN log : log[m].verdict \in V})

(* The summary counts of runcli and main's exit status agree with the   *)
(* verdicts of the tests that ran: 1 exactly when one failed, 2 when     *)
(* none ran (spec section 7; _cli.py 76-137, _main.py 197-209).         *)
SummaryAgrees ==
  phase = "done" =>
    LET n(V) == NVerdicts(V)
    IN  /\ ~opts.debug => cli = Counts(Len(log), n({"skip", "empty"}), n({"fail"}))
        /\ exitcode = IF log = <<>> THEN 2 ELSE IF n({"fail"}) > 0 THEN 1 ELSE 0

(* The xUnit file left by a complete run with --xunit-file holds one    *)
(* testcase per test that ran, in order, with its verdict, and a header  *)
(* whose counts agree with them, although runxunit formats the header   *)
(* only after main() has drained the generators (_xunit.py 96-173).     *)
XmlReportAgrees ==
  phase = "done" /\ opts.xunit =>
    xml = {[tests |-> Len(log), failures |-> NVerdicts({"fail"}),
            skipped |-> NVerdicts({"skip", "empty"}),
            cases |-> [m \in DOMAIN log |-> [file |-> log[m].file,
                                            verdict |-> log[m].verdict]]]}

(* However main() is left -- an early return before mkdtemp, or, once   *)
(* inside its try, a normal return, a mkdir raising, or the user         *)
(* interrupting the loop -- no temporary root is left behind, and one is *)
(* kept exactly when it was made and --keep-tmpdir was given (_main.py  *)
(* 127-215; spec 5).  Setup (179-185) is one step here.                  *)
TmpRootRemovedOnExit ==
  phase \notin {"setup", "loop"} => (tmproot <=> (opts.keep /\ phase # "rejected"))

(* After a run, a test that passed has no .err file, and one that failed *)
(* has one unless -e was given or its output was merged back (spec 6;   *)
(* _cli.py 93-128).                                                     *)
ErrFilesMatchVerdicts ==
  phase = "done" =>
    \A m \in DOMAIN log :
      /\ log[m].verdict = "pass" => ~err[log[m].file]
      /\ (log[m].verdict = "fail" /\ ~opts.noerrfiles /\ ~log[m].merged)
           => err[log[m].file]

=============================================================================
