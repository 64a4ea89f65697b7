------------------------------ MODULE CramTest ------------------------------
(***************************************************************************)
(* The execution protocol of cram's test() (cram/_test.py): the lines of  *)
(* a test script are segmented into command blocks, all commands are fed  *)
(* to ONE shell on its stdin with a salted "echo SALT i $?" marker before *)
(* every block and after the last, the shell's stdout+stderr come back as *)
(* a single stream, and the stream is scanned for the salt to give every  *)
(* block its output and exit status back.                                 *)
(*                                                                         *)
(* Data abstraction.  A script line is a record [kind, txt]: "cmd" is     *)
(* indent+"$ ", "con" is indent+"> ", "exp" is any other indented line    *)
(* (expected output; txt is its text after the indent) and "lit" is a     *)
(* line without the indent.  Text is a sequence of tokens, so that        *)
(* cutting off the last byte and appending " (no-eol)" are modelled by    *)
(* what they do.  The shell is the environment: each command block        *)
(* prints at most one line and then returns a status, exits the shell, or *)
(* reads the rest of stdin (like `cat`).                                  *)
(***************************************************************************)
EXTENDS Integers, Sequences, SequencesExt, FiniteSets, TLC

CONSTANTS
  Scripts,    \* the test files considered: sequences of script lines
  Bodies,     \* texts a command may print on one line (token sequences)
  RunCodes,   \* statuses a command may return without leaving the shell
  ExitCodes,  \* statuses a command may pass to `exit`
  SkipCode,   \* 80: the shell's exit status that means "skip this test"
  MaxLines    \* no script is longer than this

NoEol   == " (no-eol)"          \* token appended by _test.py line 160
CmdText == "cmd"                \* what `cat` echoes for a command line

Keys  == -1..MaxLines           \* keys of the `after` dict: line indexes

(* A line of the transcript; "exp" lines are indent + txt. *)
Line(k, t) == [kind |-> k, txt |-> t]
CodeLine(c) == Line("exp", <<"[" \o ToString(c) \o "]">>)

(* A fragment written to the shell's output pipe: plain text, a marker   *)
(* printed by the salted echo, or the echo command itself copied by cat.  *)
Frag(k, b, i, c, e) == [k |-> k, body |-> b, idx |-> i, code |-> c, eol |-> e]
Mark(i, c) == Frag("mark", <<>>, i, c, TRUE)

(* What one command block may print: nothing, or one line of text with    *)
(* or without its trailing newline.                                        *)
Printed == {<<>>} \cup {<<Frag("text", b, 0, 0, e)>> : b \in Bodies, e \in BOOLEAN}

VARIABLES
  script,     \* the `lines` argument
  phase,      \* "segment", "shell", "exited", "scan" or "done"
  refout,     \* the script lines, each ending in a newline
  after,      \* after[i]: lines kept verbatim after block i's output
  stdin,      \* the instrumented script fed to the shell
  sin,        \* how many stdin items the shell has consumed
  status,     \* the shell's $?
  output,     \* what the shell wrote to the merged stdout/stderr pipe
  retcode,    \* the shell's exit status
  lines,      \* output lines not yet scanned
  pos,        \* index of the block whose output is being scanned
  postout,    \* the transcript with actual output
  outcome,    \* "none", "pass", "fail", "skip" or "error" (exception)
  ran         \* history: how each command block behaved

vars == <<script, phase, refout, after, stdin, sin, status, output, retcode,
          lines, pos, postout, outcome, ran>>

-----------------------------------------------------------------------------
(* Segmentation (_test.py lines 125-144), in closed form.                 *)

(* Index (0-based, as in the code) of the last "$ " line before line j,  *)
(* or -1: the value `pos` has when the loop reaches line j.               *)
LastCmd(s, j) ==
  LET C == {k \in 1..(j - 1) : s[k].kind = "cmd"}
  IN  IF C = {} THEN -1 ELSE Max(C) - 1

(* Mutant: a "> " line stored under `pos` instead of `prepos`. *)
PrePosIsPos(s, j) == LastCmd(s, j)

(* `prepos` when the loop reaches line j: the `pos` the last "$ " line    *)
(* saw, i.e. the key its own line was stored under.                       *)
PrePos(s, j) ==
  IF LastCmd(s, j) = -1 THEN -1 ELSE LastCmd(s, LastCmd(s, j) + 1)

(* The `after` key line j is appended to; "exp" lines are not kept.      *)
AfterKey(s, j) ==
  IF s[j].kind = "con" THEN PrePos(s, j) ELSE LastCmd(s, j)

Segment(s) ==
  LET kept(k) == SelectSeq([j \in DOMAIN s |-> j],
                           LAMBDA j : s[j].kind # "exp" /\ AfterKey(s, j) = k)
  IN  [k \in Keys |-> [n \in DOMAIN kept(k) |-> s[kept(k)[n]]]]

(* Mutant: the last marker numbered i + 2. *)
StdinTailOffByOne(s) ==
  FlattenSeq([j \in DOMAIN s |->
               CASE s[j].kind = "cmd" -> <<[k |-> "echo", at |-> j - 1],
                                          [k |-> "text", at |-> j - 1]>>
                 [] s[j].kind = "con" -> <<[k |-> "text", at |-> j - 1]>>
                 [] OTHER             -> <<>>])
  \o <<[k |-> "echo", at |-> Len(s) + 1]>>

(* The instrumented stdin: a marker before every "$ " line, the command  *)
(* text of "$ " and "> " lines, and a last marker numbered i + 1.         *)
Stdin(s) ==
  FlattenSeq([j \in DOMAIN s |->
               CASE s[j].kind = "cmd" -> <<[k |-> "echo", at |-> j - 1],
                                          [k |-> "text", at |-> j - 1]>>
                 [] s[j].kind = "con" -> <<[k |-> "text", at |-> j - 1]>>
                 [] OTHER             -> <<>>])
  \o <<[k |-> "echo", at |-> Len(s)]>>

-----------------------------------------------------------------------------
(* Turning the output into lines (_test.py line 153).                     *)

(* output[:-1]: drop the last byte, the newline of the last marker when  *)
(* the shell got that far.                                                *)
DropLastByte(fs) ==
  IF fs = <<>> THEN fs
  ELSE LET l == fs[Len(fs)] IN
       IF l.eol THEN [fs EXCEPT ![Len(fs)].eol = FALSE]
       ELSE IF Len(l.body) > 1 THEN [fs EXCEPT ![Len(fs)].body = Front(l.body)]
       ELSE Front(fs)

(* splitlines(True): a line runs up to the first fragment with a newline. *)
(* A line is [pre, eol, salt, idx, code]: its text before the salt, and  *)
(* the salted fragment that ends it, if any.                              *)
RECURSIVE SplitLines(_)
SplitLines(fs) ==
  IF fs = <<>> THEN <<>>
  ELSE LET E    == {m \in DOMAIN fs : fs[m].eol}
           n    == IF E = {} THEN Len(fs) ELSE Min(E)
           last == fs[n]
           pre  == FlattenSeq([m \in 1..n |->
                                 IF fs[m].k = "text" THEN fs[m].body ELSE <<>>])
       IN  <<[pre |-> pre, eol |-> last.eol,
              salt |-> IF last.k = "text" THEN "none" ELSE last.k,
              idx |-> last.idx, code |-> last.code]>>
           \o SplitLines(SubSeq(fs, n + 1, Len(fs)))

-----------------------------------------------------------------------------
Init ==
  /\ script \in Scripts
  /\ phase = "segment"
  /\ refout = <<>>
  /\ after = [k \in Keys |-> <<>>]
  /\ stdin = <<>>
  /\ sin = 0
  /\ status = 0
  /\ output = <<>>
  /\ retcode = 0
  /\ lines = <<>>
  /\ pos = -1
  /\ postout = <<>>
  /\ outcome = "none"
  /\ ran = <<>>

(* The loop of lines 125-144: refout, after and the shell's stdin.        *)
SegmentScript ==
  /\ phase = "segment"
  /\ refout' = script
  /\ after' = Segment(script)
  /\ stdin' = Stdin(script)
  /\ phase' = "shell"
  /\ UNCHANGED <<script, sin, status, output, retcode, lines, pos, postout,
                 outcome, ran>>

(* The shell reads a salted echo and prints "SALT i $?". *)
ShellEcho ==
  /\ phase = "shell"
  /\ sin < Len(stdin)
  /\ stdin[sin + 1].k = "echo"
  /\ output' = Append(output, Mark(stdin[sin + 1].at, status))
  /\ sin' = sin + 1
  /\ UNCHANGED <<script, phase, refout, after, stdin, status, retcode, lines,
                 pos, postout, outcome, ran>>

(* The last stdin item of the command starting at stdin[sin + 1]: a      *)
(* "$ " line and the "> " lines that follow it up to the next marker.    *)
CmdEnd == Max({e \in (sin + 1)..Len(stdin) :
                 \A m \in (sin + 1)..e : stdin[m].k = "text"})

CmdStarts ==
  /\ phase = "shell"
  /\ sin < Len(stdin)
  /\ stdin[sin + 1].k = "text"

(* The command prints and returns a status; the shell goes on. *)
ShellRun ==
  /\ CmdStarts
  /\ \E o \in Printed, c \in RunCodes :
       /\ output' = output \o o
       /\ status' = c
       /\ ran' = Append(ran, [at |-> stdin[sin + 1].at, how |-> "run",
                              out |-> o, code |-> c])
  /\ sin' = CmdEnd
  /\ UNCHANGED <<script, phase, refout, after, stdin, retcode, lines, pos,
                 postout, outcome>>

(* The command prints and leaves the shell with `exit c`. *)
ShellExit ==
  /\ CmdStarts
  /\ \E o \in Printed, c \in ExitCodes :
       /\ output' = output \o o
       /\ retcode' = c
       /\ ran' = Append(ran, [at |-> stdin[sin + 1].at, how |-> "exit",
                              out |-> o, code |-> c])
  /\ phase' = "exited"
  /\ UNCHANGED <<script, refout, after, stdin, sin, status, lines, pos,
                 postout, outcome>>

(* The command reads its stdin, which is the rest of the script, and     *)
(* copies it to stdout; the shell then meets end of input.               *)
ShellSlurp ==
  /\ CmdStarts
  /\ LET rest == SubSeq(stdin, CmdEnd + 1, Len(stdin))
         copy(x) == IF x.k = "echo" THEN Frag("echo", <<>>, x.at, 0, TRUE)
                    ELSE Frag("text", <<CmdText>>, 0, 0, TRUE)
     IN  /\ output' = output \o [m \in DOMAIN rest |-> copy(rest[m])]
         /\ ran' = Append(ran, [at |-> stdin[sin + 1].at, how |-> "slurp",
                                out |-> <<>>, code |-> 0])
  /\ sin' = Len(stdin)
  /\ status' = 0
  /\ UNCHANGED <<script, phase, refout, after, stdin, retcode, lines, pos,
                 postout, outcome>>

(* End of input: the shell exits with the status of its last command.    *)
ShellEOF ==
  /\ phase = "shell"
  /\ sin = Len(stdin)
  /\ retcode' = status
  /\ phase' = "exited"
  /\ UNCHANGED <<script, refout, after, stdin, sin, status, output, lines,
                 pos, postout, outcome, ran>>

(* execute() returns (lines 146-153): exit status 80 skips the test,     *)
(* otherwise the output is cut into lines for the scan.                  *)
Communicate ==
  /\ phase = "exited"
  /\ IF retcode = SkipCode
       THEN /\ outcome' = "skip"
            /\ phase' = "done"
            /\ UNCHANGED lines
       ELSE /\ lines' = SplitLines(DropLastByte(output))
            /\ phase' = "scan"
            /\ UNCHANGED outcome
  /\ UNCHANGED <<script, refout, after, stdin, sin, status, output, retcode,
                 pos, postout, ran>>

(* One iteration of the scan (lines 154-171). *)
OutLine(l) ==
  IF l.pre = <<>> THEN <<>>
  ELSE <<Line("exp", l.pre \o (IF l.salt = "none" /\ l.eol THEN <<>>
                              ELSE <<NoEol>>))>>

ScanLine ==
  /\ phase = "scan"
  /\ lines # <<>>
  /\ LET l == Head(lines) IN
       CASE l.salt = "none" ->
              /\ postout' = postout \o OutLine(l)
              /\ UNCHANGED <<after, pos, phase, outcome>>
         [] l.salt = "mark" ->
              /\ postout' = postout \o OutLine(l)
                            \o (IF l.code # 0 THEN <<CodeLine(l.code)>> ELSE <<>>)
                            \o after[pos]
              /\ after' = [after EXCEPT ![pos] = <<>>]
              /\ pos' = l.idx
              /\ UNCHANGED <<phase, outcome>>
         [] l.salt = "echo" ->
              \* int(cmd.split()[1]) of " i $?" raises ValueError
              /\ postout' = postout \o OutLine(l)
              /\ outcome' = "error"
              /\ phase' = "done"
              /\ UNCHANGED <<after, pos>>
  /\ lines' = Tail(lines)
  /\ UNCHANGED <<script, refout, stdin, sin, status, output, retcode, ran>>

(* Lines 173-184: the tail, then the diff; no hunk means a pass. *)
FinishScan ==
  /\ phase = "scan"
  /\ lines = <<>>
  /\ postout' = postout \o after[pos]
  /\ after' = [after EXCEPT ![pos] = <<>>]
  /\ outcome' = IF postout' = refout THEN "pass" ELSE "fail"
  /\ phase' = "done"
  /\ UNCHANGED <<script, refout, stdin, sin, status, output, retcode, lines,
                 pos, ran>>

Next ==
  \/ SegmentScript
  \/ ShellEcho
  \/ ShellRun
  \/ ShellExit
  \/ ShellSlurp
  \/ ShellEOF
  \/ Communicate
  \/ ScanLine
  \/ FinishScan

Spec == Init /\ [][Next]_vars

-----------------------------------------------------------------------------
(* Properties.                                                            *)

KeptLines == {Line(k, <<>>) : k \in {"cmd", "con", "lit"}}
Phases == {"segment", "shell", "exited", "scan", "done"}

TypeOK ==
  /\ script \in Scripts
  /\ phase \in Phases
  /\ after \in [Keys -> Seq(KeptLines)]
  /\ sin \in 0..Len(stdin)
  /\ status \in RunCodes \cup {0}
  /\ pos \in Keys
  /\ outcome \in {"none", "pass", "fail", "skip", "error"}
  /\ \A m \in DOMAIN lines : lines[m].idx \in Keys

(* A script whose "> " lines directly continue a command and whose       *)
(* indented output lines all follow some "$ " line.                       *)
WellFormed(s) ==
  \A j \in DOMAIN s :
    /\ s[j].kind = "exp" => LastCmd(s, j) # -1
    /\ s[j].kind = "con" => j > 1 /\ s[j - 1].kind \in {"cmd", "con"}

(* What a block's result looks like in the transcript: its printed line, *)
(* " (no-eol)" when the newline was missing, and "[c]" for a status c.   *)
Shown(r) ==
  [m \in DOMAIN r.out |->
     Line("exp", r.out[m].body \o (IF r.out[m].eol THEN <<>> ELSE <<NoEol>>))]
  \o (IF r.code # 0 THEN <<CodeLine(r.code)>> ELSE <<>>)

ResultOf(k) == CHOOSE r \in Range(ran) : r.at = k

(* The transcript a user expects: the script with each block's indented *)
(* output lines replaced by what the block really printed, placed after  *)
(* the block's last command line.                                        *)
Intended(s) ==
  LET endsCommand(j) == s[j].kind \in {"cmd", "con"}
                        /\ (j = Len(s) \/ s[j + 1].kind # "con")
  IN  FlattenSeq([j \in DOMAIN s |->
                    (IF s[j].kind = "exp" THEN <<>> ELSE <<s[j]>>)
                    \o (IF endsCommand(j) THEN Shown(ResultOf(LastCmd(s, j + 1)))
                        ELSE <<>>)])

NormalRun == \A m \in DOMAIN ran : ran[m].how = "run"

(* Reassembly is faithful: once every command of a well-formed script    *)
(* has run and returned, the salt markers, the `after` bookkeeping and    *)
(* the final output[:-1] together put every block's output, "(no-eol)"   *)
(* and "[status]" lines right after its command and before the literal   *)
(* lines that follow it (_test.py lines 125-173).                         *)
TranscriptFaithful ==
  (phase = "done" /\ outcome \in {"pass", "fail"} /\ WellFormed(script)
     /\ NormalRun)
  => postout = Intended(script)

(* test() never raises: every line holding the salt is a marker whose    *)
(* fields parse as integers (_test.py line 167).                          *)
NoException == outcome # "error"

(* Output is recovered exactly: whatever line a command printed before   *)
(* returning or leaving the shell is in the transcript as printed         *)
(* (_test.py lines 153-164; spec 1(b)).                                   *)
OutputKept ==
  (phase = "done" /\ outcome \in {"pass", "fail"})
  => \A m \in DOMAIN ran :
       ran[m].how # "slurp" =>
         \A n \in DOMAIN ran[m].out :
           Shown([ran[m] EXCEPT !.code = 0])[n] \in Range(postout)

(* The expected output of the block of "$ " line k. *)
ExpectedOf(s, k) ==
  LET js == SelectSeq([j \in DOMAIN s |-> j],
                      LAMBDA j : s[j].kind = "exp" /\ LastCmd(s, j) = k)
  IN  [n \in DOMAIN js |-> s[js[n]]]

(* Spec section 8: a script whose every command exits 0 and prints       *)
(* exactly its expected block passes.                                     *)
MatchingScriptPasses ==
  (phase = "done" /\ outcome # "skip" /\ NormalRun
     /\ \A m \in DOMAIN ran :
          ran[m].code = 0 /\ Shown(ran[m]) = ExpectedOf(script, ran[m].at))
  => outcome = "pass"

=============================================================================
