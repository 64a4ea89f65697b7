# TLA+ models of cram (src/third_party/cram) and the sysbench driver scripts

The repository's Python code has two parts. The first is **cram**, a
functional-test runner for shell sessions. It lives in `src/third_party/cram/cram/`,
and `spec.md` describes it. The second is a pair of **benchmark driver
scripts** (`src/scripts/*.py`) that start `sysbench` processes and scrape
their output. This directory holds TLA+ models of both parts, the TLC
configurations that check them, and `PROJECT.json`. That file lists every
component, run, mutant, mapped source line, finding and hazard.

## 1. Inventory

### Components, their state and operations

| Component | Source | State | Operations |
|---|---|---|---|
| Script segmenter | `_test.py` 125-144 | `refout`, `after` dict keyed by line index, `pos`, `prepos`, instrumented `stdin` | classify each line as `$ ` (command), `> ` (continuation), indented (expected output) or literal |
| Execution protocol engine | `_test.py` 88-184, `_process.py` 49-54 | the salt, the shell's `$?`, its merged stdout+stderr, `postout`, scan `pos` | one shell run per test; scan the output for the salt; insert `[status]` and ` (no-eol)`; exit 80 means skip |
| Output escaping | `_test.py` 14-22, 162-163 | none | rewrite non-printable output and add ` (esc)` |
| Annotated diff engine | `_diff.py` | the matcher's `a` list, overwritten and restored inside `find_longest_match` | `esc`, `glob` (translated to a regex), `regex` matchers; difflib alignment; unified diff hunks |
| Discovery and isolation | `_run.py` | `seen` absolute paths, `basenames`, the enumerate index `i`, one directory per test under the temporary root | walk the paths; skip duplicates; give empty files a trivial test; add the `-i` suffix; create the directory and `chdir` there for the run |
| Console reporter | `_cli.py` | counters `total/skipped/failed`, the `<test>.err` files | classify each outcome; write or remove `.err`; print the diff; prompt and run `patch -p0` |
| xUnit reporter | `_xunit.py` | counters, the list of testcases | record each outcome; write the XML file once the generator is exhausted |
| Main driver | `_main.py` | options, temporary root with its `tmp` directory, `hastests`, `failed` | option conflicts, finding the shell, the test loop, the exit status, removing the temporary root |
| Encoding helpers | `_encoding.py`, `__main__.py` | none | bytes and str conversions |
| Benchmark drivers | `src/scripts/*.py` | `qps` lists per workload, one child process at a time | start `sysbench`; loop `poll()`/`readline()` over its stdout; parse `queries:` lines |

### How they interact

`main()` builds a chain of generators: `runxunit(runcli(runtests(paths)))`.
Its loop asks the chain for one `(path, test)` pair and calls `test()` at
once, before asking for the next. `test()` passes through the xUnit wrapper,
then the console wrapper, then the closure that `runtests` created. That
closure makes the test's directory and calls `testfile()`, which calls
`test()` in `_test.py`. This is the *shared state through closures* pattern:
each wrapper keeps its counters in a one-element list, and the closures read
the generators' loop variables at call time. Inside `test()` the interaction
is a protocol with an external process. cram writes the whole instrumented
script to the shell's stdin. The shell runs it and writes one merged stream.
cram then parses that stream. The protocol's own markers and the commands'
output share this one channel, and the commands share stdin with the
protocol.

### What is hard

* **The marker protocol** (`_test.py` 137-173). Output and exit status are
  recovered from one stream, using `echo SALT i $?` lines. The protocol
  breaks when a command reads stdin, exits the shell, or prints without a
  final newline. It also breaks when the shell echoes its own input
  (`-x`), or when the script's layout puts lines in an unusual order.
* **The diff engine's in-place trick** (`_diff.py` 88-107). Expected lines
  are overwritten with the actual text, and restored after every
  `find_longest_match`. The matchers are tried only on pairs at equal
  offsets inside the current window.
* **Lazy generators with late-binding closures** (`_run.py` 66-76,
  `_cli.py` 78-132). The closures are correct only because of the order in
  which `main()` consumes them.
* **The file system as shared state.** The directory names under the
  temporary root must not collide, and `.err` files outlive a run.
* **Pipes and process exit** in the driver scripts. `stderr` is piped but
  never read, and reading stops at `poll()`.

### Properties that make each component correct

* Segmenter and protocol: the transcript is the script with each block's
  expected lines replaced by that block's actual output, in place. `test()`
  never raises on any output. The output is recovered exactly. A script
  whose commands print what it expects passes.
* Diff engine: the diff is empty exactly when the two sequences are
  equivalent under the matchers. A matched line is never shown as removed
  or added. A line that is not matched is shown with its original text. The
  glob translation agrees with glob semantics. `esc` matches an output
  line, escaped or not, exactly when the expected line means it, and
  raises only on a malformed expected line.
* Discovery and isolation: each file runs once. Every test gets a
  directory of its own.
* Reporters and main: the counters and the exit status agree with the
  verdicts. The `.err` files reflect the last verdict. The temporary
  root goes on every way out of `main()`.
* Benchmark drivers: every `queries:` line the child prints is recorded.
  The parent and child never wait on each other forever.

## 2. Plan

Modules, in order of importance. Items 1-3 and 5 exist now.

1. **CramTest** (done). Segmentation, the shell as an environment process,
   and the marker scan of `test()`. `_escape` is in CramEscape. Still to
   add: a tracing shell (`-x`) that prints every marker twice.
2. **CramRun** (done). Discovery, isolation, both reporters with the
   xUnit file, and `main()` from its setup checks (`Reject`, `Setup`)
   through `--debug`'s unwrapped loop to its exit.
3. **CramDiff, AugmentedDiff, CramGlob, CramEscape** (done). This is the annotated
   diff engine, checked against the abstract alignment of spec 4.3 by
   refinement. The `_glob` translation is checked against a reference glob
   semantics. The `esc` matcher is checked together with `_escape`, as
   the round trip of non-printable output. `(re)` lines stay abstracted.
4. **CramPipeline**. This composes CramTest's outcome with CramDiff's
   verdict inside CramRun's loop. It replaces CramRun's nondeterministic
   verdict, and gives an abstract sequential "run each test, report,
   aggregate" specification that CramRun refines. It would also feed
   `[status]` and `(no-eol)` lines from CramTest into CramDiff.
5. **BenchDriver** (done). Both scripts' loop nests, and the
   `poll()`/`readline()` loop against a sysbench child with bounded stdout
   and stderr pipes, with each command's positional format and the
   databases its cleanup, prepare and runs act on. Still to add: nothing
   of the scripts' control is left; the plotting code is unreachable
   (section 6).

## 3. Modules and their correspondence to the code

### CramTest (`CramTest.tla`, `MCCramTest.tla`)

* Line kinds: `"cmd"` for `indent + "$ "`, `"con"` for `indent + "> "`,
  `"exp"` for any other indented line, and `"lit"` for anything else. Text
  is a sequence of tokens. This lets `output[:-1]` and `+ " (no-eol)"` be
  modelled by what they do.
* `SegmentScript` is the loop of lines 125-144. `LastCmd`, `PrePos` and
  `AfterKey` give, in closed form, the `pos`, the `prepos` and the `after`
  key that the loop uses at each line. `Stdin` is the instrumented script.
* The shell is the environment. `ShellEcho` runs a marker echo. Each
  command (a `$ ` line and the `> ` lines after it) ends in one of four
  ways. In `ShellRun` it prints at most one line and returns a status. In
  `ShellExit` it runs `exit c`. In `ShellSlurp` it reads the rest of stdin
  and copies it out, as `cat` does. `ShellEOF` ends the shell with the last
  status.
* `Communicate` is lines 146-153: the skip on 80, `output[:-1]`
  (`DropLastByte`) and `splitlines` (`SplitLines`). `ScanLine` is one
  iteration of lines 154-171. `FinishScan` is lines 173-184. The diff is
  taken as empty exactly when `postout = refout`, because CramTest has no
  annotations yet.
* `ran` is a history variable: what each command did.

### CramRun (`CramRun.tla`, `MCCramRun.tla`)

* A file is `[dir, base, empty]`. A basename is `[name, sfx]`, so the
  suffix `-i` is `Append(sfx, i)`, and a real file called `a.t-1` can be
  written down.
* `_findtests` is a set of operators over a directory tree `Tree`.
  `Walks` is `os.walk` top-down. It takes a root's subdirectories in any
  order, because the listing order is the file system's, and it also
  descends into hidden ones. `RootTests` is the sorted `.t` files of one
  root. `Yields` skips the files of a root whose basename starts with
  `.`, where the top's basename is the argument as spelled (`dot`).
  `FindTests` is every sequence the generator may yield. `Init` picks one
  of them as `args`. File names are model values. `TestNames` says which
  names pass line 29, and `NameOrder` is the order `sorted()` gives.
* `Init` starts in `phase = "setup"` with `paths` and a yielded sequence
  `args`. `Reject` is every early return of `main()` before `mkdtemp`
  (`SetupErrors`, in the code's order): `--version` (exit 0), an option
  pair `Conflicting` (`-q`/`-i`, `-d` with `-q`, `-i` or
  `--xunit-file`), the shell or `patch(1)` not found, no path (usage),
  or a missing path (exit 2). Whether the shell, patch and each path
  exist is up to the system. `Setup` is `mkdtemp` and the `tmp`
  directory for TMPDIR (lines 179-185).
* `NextTest` is one `next()` through the generator chain. It runs
  runtests' loop body (`NextFresh`, `DirName`) up to the next yield.
* `RunTest` is `test()` through both wrappers and the closure:
  `CliCount`, `ErrAfter`, `XunitRecord`, and the `mkdir` that may raise.
  The verdict is nondeterministic. With `--debug` (`opts.debug`) `main()`
  calls the closure itself: no wrapper counts, no `.err` file, and
  `test()` returns an empty diff (`_test.py` 112-123), so the verdict is
  `"debug"` and never fails. `Finish` is the end of `main()`'s loop. In
  it runxunit writes its file (`XmlWrite`, `_xunit.py` 149-173) from its
  counters and testcases into `xml`, which stays `{}` on every other
  way out.
* `Interrupt` is a KeyboardInterrupt at any point of the loop, between
  tests or inside one. `ExitCleanup` is `main()`'s `finally`, shared by
  `Finish`, the raising `mkdir` and `Interrupt`. It runs `rmtree` unless
  `--keep-tmpdir` (`opts.keep`) was given. After an interrupt the exit
  status is 0, because `__main__.py` catches the exception.
* `log` is a history variable: the file, verdict and merge of every test
  that ran.

### CramDiff (`CramDiff.tla`, `MCCramDiff.tla`) and AugmentedDiff

* Lines are model values. `Matches` is the set of `<<expected, actual>>`
  pairs that `_match` accepts, meaning some matcher said yes. The MC
  instance has an annotated line `G` that is accepted for both `y` and
  `w`.
* `a` is `self.a`. It is the caller's list `l1`, not a copy.
  `FindLongestMatch` is lines 88-100: it pops a window and overwrites the
  matched diagonal pairs (`Overwrites`, `Overwrite`).
  `SuperFindLongestMatch` is difflib's search on the overwritten list
  (`LongestMatch`: the longest run of identical lines, first in `a` and
  then in `b`). `RestoreAndReturn` is lines 103-107 plus the rest of
  difflib's loop iteration: record a non-empty block, and push the left
  window and then the right one (`Subwindows`). `RenderDiff` sorts the
  blocks and renders the opcodes from `a` and `b` (`Render`). The output
  is empty when every opcode is `equal`.
* `a0` is a history variable that holds `l1` as authored.
* `AugmentedDiff` is the abstract specification: the Ratcliff/Obershelp
  recursion `RO`, with identity-or-match checked for every pair of lines,
  computed in one step. `CramDiff!Abstract` maps it: `la` to `a0`, `lb`
  to `b`, and `blocks` to the set of blocks once the window stack is
  empty.

### CramGlob (`CramGlob.tla`, `MCCramGlob.tla`)

* One action per branch of `_glob`'s loop: `Escape`, `EscapeAtEnd` (the
  out-of-range `el[i]`), `Star`, `Question` and `Literal`. `Match` calls
  `_regex`, which is `RegexMatch`: a backtracking full match over the
  atoms that the translation produced.
* `GlobRef` is the meaning of a glob pattern, stated directly on the
  pattern and independent of the translation.

### CramEscape (`CramEscape.tla`, composed in `MCCramGlob.tla`)

* A line is a sequence of one-character strings. The control bytes are
  named by their hex code (`"x01"`, `"x09"` for tab), and the annotation
  ` (esc)` is one token `Ann`.
* `NeedEscape`, `EscMap` and `EscapeLine` are `_needescape`,
  `_escapemap` after its update, and `_escape`. `Shown` is what `test()`
  puts in `postout` for an output line (lines 162-163).
* `Decode` is `codecs.escape_decode` for the escapes that can occur:
  `\\`, `\t`, `\xNN`, and any other character kept with its backslash.
  A `\x` without two hex digits, or a trailing backslash, raises: the
  result record has `ok = FALSE`. It is library code and has no map
  entry.
* Init picks an output line and an expected line, and sets `l` to
  `Shown(out)`. There is one action per step of `esc`:
  `DecodeExpected` (lines 66-67), `CompareFirst` (68-69),
  `DecodeActual` (71-72) and `CompareSecond` (73). A decode that raises
  ends in `pc = "raised"`.
* `MCCramGlob` puts both matchers that `_match` tries first
  (`matchers=[esc, glob, regex]`, `_test.py` 181) in one run. It uses
  `INSTANCE CramEscape WITH` renamed variables. A behaviour is one call
  of one matcher. The other matcher's variables hold a finished call on
  two empty lines, where both matchers return True.

### BenchDriver (`BenchDriver.tla`, `MCBenchDriver.tla`)

The two scripts in `src/scripts` share one shape. Nested loops walk the
table types (`partitioned` "false"/"true"), the test sets, and the
access ratios (`run_tests_on_partial_data...`) or table sizes and the
actions cleanup/prepare/run (`prepare_and_run_tests...`). Every site
formats a sysbench command, starts it with `Popen(shell=True,
stdout=PIPE, stderr=PIPE)` and runs `while popen.poll() is None: r =
popen.stdout.readline()`. The measured run appends the number in its
`queries:` line to `qps_ref[test_set]`.

* `PartialSchedule` and `PrepareAndRunSchedule` unroll the loop nests
  into a sequence of statements: `reset` (`qps_ref[test_set] = []`),
  `ensure` (the `has_key` guard), `child` (a site: warm-up, measured run,
  cleanup, prepare, prepare's second stage) and `crash` (the
  `format(rum_time, ...)` of line 90, which raises NameError). `QpsRef`
  is the rebinding of `qps_ref`. `k` is the index of the current
  statement. Each `child` statement carries its command: `Format` fills
  the fields of its template (`PartialTemplate`, `RunTemplate`,
  `PrepareInsert`) by position, as `str.format` does, and `DbName` is
  `db_name`. `PrepareAndRunSchedule` walks `Actions` in its order.
* `dbs` is the MySQL server: for each `db_name`, whether its tables are
  absent, created or loaded, and whether they are partitioned.
  `ChildExit` applies sysbench's `Effect` for the command that ends.
  `InitDbs` is the partial script's docstring precondition: both
  databases of its table size are loaded. prepare_and_run starts from
  anything. prepare_and_run stops with NameError before it prepares any
  table size but the first, so it never leaves what the partial script
  requires.
* The parent's actions are `Reset`, `Ensure`, `Crash`, `Launch`, `Poll`
  (the loop condition: it ends the loop as soon as the child has exited),
  `ReadLine` (one line from the pipe, parsed only when `Parses` says the
  loop is a measured run's) and `ReadEOF` (`readline()` returns `""`
  after the child closed the pipe), then `Finish`.
* The scripts are Python 2 (`has_key`). There `Popen`'s default
  `bufsize=0` makes `readline()` take exactly one line from the pipe, so
  unread lines stay in the kernel pipe and there is no user-space
  buffer to model.
* The child is the environment: `ChildWrite` writes the next line of
  its output, in program order, to stdout or stderr, and blocks while
  that pipe holds `PipeCap` lines. `ChildExit` exits once everything is
  written. Nobody ever reads stderr.
* The number in a `queries:` line is abstracted to the index of the
  statement that started the run, so a recorded value names its run.
  Command strings and the echoing of lines are left out.

## 4. Runs

| Run | Config | Expect | What it shows |
|---|---|---|---|
| transcript | `MCCramTest.cfg` | pass | All 781 scripts of up to 4 lines, built from `$ `, `> `, a literal, and indented `a` and `[1]`. Every command either returns 0/1 after printing nothing, `a`, or `a` without a newline, or ends with `exit 1`, `exit 80`, or `cat`. For well-formed scripts that run to the end, `TranscriptFaithful` holds: reassembly puts each block's output, `(no-eol)` and `[status]` in place. (282k states.) |
| stdin_reader | `MCCramTest_stdin.cfg` | violation | `$ cat` receives the remaining `echo SALT i $?` lines. `int('$?')` raises. |
| shell_exit | `MCCramTest_exit.cfg` | violation | `$ printf a; exit 1`: the `a` is cut by `output[:-1]` and the test passes. |
| script_layout | `MCCramTest_layout.cfg` | violation | Findings 3 and 4. TLC prints the shortest case, a script that is just `  a`: the indented header line is dropped. `$ cmd`, a literal line, then `> cont` also fails, because the transcript swaps the last two. |
| driver | `MCCramRun.cfg` | pass | Up to 2 path arguments (`d0`, `d0` spelled `.`, `d1`, the test-less `d4`, `d1/a.t`) over a tree `d0` = {`c.t`, `d1` = {`a.t`, empty `b.t`}, `.h` = {`d3` = {`a.t`}}}, in both listing orders, and no argument at all. Every combination of `-q`, `-i` (y/n), `-d`, `-e`, `--xunit-file` and `--keep-tmpdir` is covered, conflicting ones included, with every prior `.err` state, every setup failure and an interrupt at every point of the loop. The properties are `IsolationDirsFresh`, `RunsEachFileOnce`, `SummaryAgrees`, `XmlReportAgrees` (the xUnit file of a complete run lists every test with its verdict under a header whose counts agree) and `ErrFilesMatchVerdicts`. `TmpRootRemovedOnExit` says no temporary root outlives `main()` unless it was made and kept; `Setup` (lines 179-185, before the `try`) is one step, so an interrupt between `mkdtemp` and the `try`, which would leak the root, is a hazard outside the model. (3.55M states, about 55 s.) |
| diff | `MCCramDiff.cfg` | pass | All 1600 pairs of expected and actual sequences of up to 3 lines. `AlignedLinesEquivalent`: every aligned pair is equivalent as authored. `DiffShowsAuthoredText`: "-" and " " lines reproduce `l1` as authored. `NoHunksIffEquivalent`: the diff is empty exactly when the sequences are equivalent position by position. |
| diff_alignment | `MCCramDiff_refine.cfg` | violation | `AlignsLikeAugmentedDiff` (the refinement): expected `G` against actual `x, w` shows `-G +x +w`, although G matches w. |
| glob | `MCCramGlob.cfg` | pass | glob: all patterns of up to 4 characters over `a * ? \` against all lines of up to 3 over `a b * \`. The translation and the regex match agree with `GlobRef` (`GlobMatchesReference`). esc: all output lines of up to 2 bytes over `a \ \x01 tab` against all expected lines of up to 4 characters over `a \ x t 0 1 9 tab`, annotated or not. `esc` matches exactly when the expected line means the output (`EscMatchesMeaning`), and raises only on a malformed expected line (`EscRaisesOnlyOnExpected`). (1.09M states, about 20 s.) |
| glob_raise | `MCCramGlob_raise.cfg` | violation | The pattern `\` (a line `\ (glob)`) raises IndexError. |
| dir_collision | `MCCramRun_Collision.cfg` | violation | Findings 5 and 6. TLC prints the shortest case, `cram d2/tmp`: the test directory `<root>/tmp` already exists, because main made it for TMPDIR. `d1/a.t d2/a.t d3/a.t-1` also collides: the second a.t gets `a.t-1`, which is the third file's name. |
| bench | `MCBenchDriver.cfg` | pass | Both scripts, one test set, two ratios or table sizes, 2-line pipes. Each sysbench run writes a report line, `queries:` and a statistics line, with no stderr, one stderr line, or three (more than the pipe holds). prepare_and_run starts from any state of the four databases; the partial script starts from its documented precondition. `ResultsAttributed`: every value in `qps[t]` or `part_qps[t]` was measured by a child started with Lua script `t`, `run_time` and the layout the dictionary stands for, in run order, one per run. The value carries the child's command, so the list `qps_ref` names and the command formatted from `partitioned` are checked against each other. `RunsOnPreparedTable`: every warm-up and measured run hits loaded tables of the layout its `--partitioned` flag names, with the `--time` of its kind. `ResultsNeverErased` (action property): a recorded value is never removed. `EndsOrStalls` (liveness): the script ends or raises, and the only hang is sysbench blocked on the full stderr pipe while the script waits in `readline()`. (123k states.) |
| bench_lost | `MCBenchDriver_lost.cfg` | violation | `PointsRecorded`: sysbench writes `queries:` and the statistics line and exits before the next `readline()`. `poll()` then ends the loop and the value is never recorded. |

Every property of a passing run has a mutant in `PROJECT.json`: a
plausible bug in the mapped definition, which TLC must catch.

### Bounds

* Four script lines are enough for every layout the findings need: a
  command followed by a literal and then a continuation, a header line,
  and two commands with output between them. They also cover the final
  marker losing its newline.
* One printed token is enough to make `output[:-1]` delete a whole line.
* Statuses 0 and 1 are enough to show `[1]` or not. The exit codes 1 and
  80 separate a shell that stops early from a skip.
* For the diff, three lines per side are enough for a block that splits
  the sequences, so that a right-hand window starting at a nonzero offset
  is popped first. They also allow a duplicated actual line, and an
  annotated line matching two different actual lines. With at most three
  lines per side, unified_diff's 3 lines of context never trim a hunk, so
  rendering the whole opcode list is exact.
* For the glob, four pattern characters are enough for every pair of an
  escape and a special character, and for a wildcard before or after
  them. Lines use `b`, which the pattern alphabet lacks, so `?` and `*`
  are seen to match a character that is not in the pattern.
* For `esc`, two output bytes give a control byte next to a backslash,
  in both orders. That is where a missing backslash escape shows: the
  backslash then runs into the next escape, or ends the line. Four
  expected characters spell `\x09`, `\x01` and `\\\t` (an escaped
  backslash and tab), and malformed ones such as `\x0` or `\x`.
* For the driver, two arguments over the tree give every discovery case
  the code distinguishes: a file given twice (`d1` and `d1/a.t`, or `d0`
  twice), a basename repeated in two directories (`d1/a.t` and
  `.h/d3/a.t`), an empty file, a hidden directory with a subdirectory,
  a top directory spelled `.`, and two listing orders. A third
  argument, or a second subdirectory order, multiplies the verdict
  branching past the time budget without adding a case.
* The collision run gives its files as explicit arguments, because
  `tmp` and `a.t-1` do not end in `.t` and no walk yields them.

* For the bench scripts, one test set and two points already give two
  measured runs per list, so order and erasure can be seen. A 2-line
  pipe with 3-line stdout output makes sysbench block on stdout until the
  script reads. Three stderr lines overflow it. One table size suffices
  for `prepare_and_run`, because it raises at its first measured run.

### Fairness

Only the bench run assumes fairness: `WF_vars(Parent) /\ WF_vars(Child)`.
The script and sysbench are two OS processes, and the scheduler runs
each one whenever it is not blocked on a pipe. Weak fairness says no
more than that. `EndsOrStalls` needs it, and `CHECK_DEADLOCK FALSE` is
set there because the script really does stop: at the end, at the
NameError, or in the stderr stall that the property names.

The cram runs check safety properties only. cram is sequential and
every modelled step terminates. The one real liveness
concern is a hung command, which `communicate()` waits on forever. The
spec accepts that limitation, and it is not modelled. `CHECK_DEADLOCK
FALSE` is set because `test()` and `main()` really do return. The final
states are terminal.

## 5. Findings

These are listed in `PROJECT.json` with their runs.

1. A command that reads stdin (`$ cat`) crashes `test()` with a
   ValueError (`_test.py` 167).
2. When a command runs `exit`, the last byte of real output is lost
   (`_test.py` 153). The test may then pass, or it shows a spurious
   `(no-eol)`.
3. Indented lines before the first command disappear, so a script with no
   commands can fail (`_test.py` 142). The spec says such a script passes.
4. A continuation line after a literal line is reordered (`_test.py` 140).
5. A test file named `tmp` aborts the run (`_run.py` 69 with `_main.py`
   181-185).
6. A file named like a suffixed basename (`a.t-1`) aborts the run
   (`_run.py` 62).

7. An annotated line is matched only against the actual line at the
   same offset of the current window (`_diff.py` 94). An inserted or
   deleted line before it makes a matching line show as removed.
8. A `(glob)` pattern ending in a backslash raises IndexError out of
   `test()` (`_diff.py` 38), which aborts the run.
9. The benchmark loop `while popen.poll() is None` stops reading as soon
   as sysbench has exited (`run_tests_on_partial_data...` line 58, and
   line 95 of the other script). sysbench prints its `queries:` summary
   last, so the value can be lost, and a qps list can have fewer points
   than ratios. Reading until `readline()` returns `""` would keep it.

`esc` also decodes the *actual* line when it ends in ` (esc)`
(`_diff.py` 71-72), and `test()` escapes only lines with a non-printable
byte. A command that prints the plain text `a (esc)` therefore matches an
expected `a`. A command that prints a backslash before ` (esc)` makes
`escape_decode` raise ValueError, which aborts the whole run. Adding
such output lines to `MCEscOutputs` makes TLC violate both
`EscRaisesOnlyOnExpected` and `EscMatchesMeaning`. No configuration is
kept for it, so it is listed as a hazard rather than a finding.

`python -m cram` (`__main__.py`) catches KeyboardInterrupt and exits
with status 0. An interrupted run then prints no summary and reports
success. Spec section 5 says the interrupt is caught "to allow an
orderly summary". CramRun's `Interrupt` reaches this state.
`TmpRootRemovedOnExit` checks only the cleanup on that path, so the exit
status is recorded as a hazard only.

`_findtests` departs from spec 4.4 in two ways (`_run.py` 25-27).
First, it skips only the *files* of a root whose basename starts with
`.`. It never prunes `dirs`, so `os.walk` still descends into a hidden
directory and runs the tests of its subdirectories (`.h/d3/a.t` in the
driver run). With the argument `.`, the top directory's own tests are
skipped instead (`d0/c.t`). Second, the subdirectories come in the file
system's listing order. Only the files within one directory are sorted,
so the test order, and which `a.t` gets the suffixed directory, are not
determined. `FindTests` models both, and the driver run's properties
hold for every order. No run compares discovery with the spec's wording
yet. These departures are listed as hazards.

`DiffShowsAuthoredText` also shows that spec 8's round-trip claim fails
once annotations are used. "Applying the diff to the expected lines gives
the actual lines" cannot hold, because context lines and the absence of a
hunk keep the annotated text. That is what the `-i` merge relies on, so
the spec's claim is the part to correct.

`prepare_and_run_tests_for_single_vs_partition_table.py` line 90 uses
`rum_time`, which is undefined, so the first `run` action raises
NameError. BenchDriver's `Crash` action takes this step in every
behaviour of that script, and there is no run whose property is about it.
The script can also hang for good once sysbench writes more to stderr
than the pipe holds, because nothing reads stderr. `EndsOrStalls` names
this hang as the only one, and the bench run reaches it. The plotting code after `sys.exit()` (line 110) is unreachable
and uses the undefined name `part_summary`.

## 6. Not modelled, and why

* Option parsing, `.cramrc`, `_which`, and console and XML formatting.
  The spec puts these out of scope, and they have no interesting
  behaviour.
* What `--debug` prints. The model keeps its effect on `main()`: the
  test runs unwrapped and its diff is empty.
* The option conflicts that involve `-v` and `-y`/`-n`. The model has no
  verbose output, and an answer is either `y` or `n`.
* Environment sanitising. It sets constants only.
* Timeouts. The code has none.
* The `regex` matcher. Python's regular expressions are library code
  beyond what `_glob` produces. CramDiff takes every matcher's verdicts
  as the relation `Matches`. `esc` is checked on its own in CramEscape,
  over the control bytes `\x01` and tab. `\r`, which `_escapemap` also
  names, is handled the same way as tab.
* difflib's junk heuristics. They apply only to sequences of 200 or more
  lines, with no `isjunk`. The search is modelled without junk.
* `_encoding.py`, `setup.py` and the doctest runner. They have no state.
* The plotting part of `prepare_and_run_tests...` (lines 112-150). It
  follows `sys.exit()` and never runs.
* The bench scripts' echoing of every line. It is printing. A command is
  kept as the fields its template's positional `format` fills, not as a
  string. What sysbench does to a database (`Effect`) is its documented
  cleanup/prepare/run contract, not code of this repository. The `queries:` number is abstracted to the command and index of the run that printed it.
