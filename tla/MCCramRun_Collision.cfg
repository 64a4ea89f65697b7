\* Test files named "tmp" and "a.t-1", given on the command line, meet the
\* directory main() made for TMPDIR and the suffixed directory of a second
\* a.t.
CONSTANTS
  Files <- MCFilesCollision
  Tree <- MCTreeFlat
  TestNames <- MCTestNames
  NameOrder <- MCNameOrder
  PathLists <- MCPathListsCollision
  ProcTmp <- MCProcTmp

SPECIFICATION Spec

INVARIANT IsolationDirsFresh

\* main() returns when the generators are exhausted.
CHECK_DEADLOCK FALSE
