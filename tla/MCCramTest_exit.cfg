\* A command that leaves the shell loses its last byte of output to output[:-1].
CONSTANTS
  Scripts <- MCWellFormedScripts
  Bodies <- MCBodies
  RunCodes = {0, 1}
  ExitCodes = {1, 80}
  SkipCode = 80
  MaxLines = 4

SPECIFICATION Spec

INVARIANT OutputKept

\* test() returns once the outcome is known.
CHECK_DEADLOCK FALSE
