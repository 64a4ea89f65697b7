\* run_tests_on_partial_data with sysbench runs that write only to stdout.
CONSTANTS
  Scripts = {"partial"}
  TestSeq <- MCTestSeq
  NPoints = 2
  Outputs <- MCOutputsQuiet
  PipeCap = 2
SPECIFICATION Spec
INVARIANT PointsRecorded
