\* Lines that follow no command, or a continuation after a literal line,
\* make a matching script fail.
CONSTANTS
  Scripts <- MCScripts
  Bodies <- MCBodies
  RunCodes = {0, 1}
  ExitCodes = {1, 80}
  SkipCode = 80
  MaxLines = 4

SPECIFICATION Spec

INVARIANT MatchingScriptPasses

\* test() returns once the outcome is known.
CHECK_DEADLOCK FALSE
