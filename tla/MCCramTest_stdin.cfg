\* A command that reads stdin receives the salted markers and test() raises.
CONSTANTS
  Scripts <- MCWellFormedScripts
  Bodies <- MCBodies
  RunCodes = {0, 1}
  ExitCodes = {1, 80}
  SkipCode = 80
  MaxLines = 4

SPECIFICATION Spec

INVARIANT NoException

\* test() returns once the outcome is known.
CHECK_DEADLOCK FALSE
