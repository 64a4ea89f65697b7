\* Every pair of expected and actual sequences of up to three lines.
CONSTANTS
  Cases <- MCCases
  Matches <- MCMatches
SPECIFICATION Spec
INVARIANT AlignedLinesEquivalent
INVARIANT DiffShowsAuthoredText
INVARIANT NoHunksIffEquivalent
\* unified_diff returns once the diff is rendered.
CHECK_DEADLOCK FALSE
