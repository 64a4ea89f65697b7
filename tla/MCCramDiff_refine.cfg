\* The alignment against spec 4.3's, for sequences of up to three lines.
CONSTANTS
  Cases <- MCCases
  Matches <- MCMatches
SPECIFICATION Spec
PROPERTY AlignsLikeAugmentedDiff
\* unified_diff returns once the diff is rendered.
CHECK_DEADLOCK FALSE
