\* Discovery, isolation, reporting and exit status: up to two path
\* arguments over the tree of MCCramRun.
CONSTANTS
  Files <- MCFiles
  Tree <- MCTree
  TestNames <- MCTestNames
  NameOrder <- MCNameOrder
  PathLists <- MCPathLists
  ProcTmp <- MCProcTmp

SPECIFICATION Spec

INVARIANT IsolationDirsFresh
INVARIANT RunsEachFileOnce
INVARIANT SummaryAgrees
INVARIANT XmlReportAgrees
INVARIANT ErrFilesMatchVerdicts
INVARIANT TmpRootRemovedOnExit

\* main() returns when the generators are exhausted.
CHECK_DEADLOCK FALSE
