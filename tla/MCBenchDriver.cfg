\* Both driver scripts: the read loop against a blocking sysbench child.
CONSTANTS
  Scripts = {"partial", "prepare_and_run"}
  TestSeq <- MCTestSeq
  NPoints = 2
  Outputs <- MCOutputs
  PipeCap = 2
SPECIFICATION Spec
INVARIANT ResultsAttributed RunsOnPreparedTable
PROPERTY ResultsNeverErased EndsOrStalls
\* The scripts end, raise, or hang in the stderr stall; EndsOrStalls checks which.
CHECK_DEADLOCK FALSE
