\* Reassembly of every well-formed script up to 4 lines is faithful.
CONSTANTS
  Scripts <- MCScripts
  Bodies <- MCBodies
  RunCodes = {0, 1}
  ExitCodes = {1, 80}
  SkipCode = 80
  MaxLines = 4

SPECIFICATION Spec

INVARIANT TypeOK
INVARIANT TranscriptFaithful

\* test() returns once the outcome is known.
CHECK_DEADLOCK FALSE
