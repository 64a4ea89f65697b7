\* A pattern ending in a backslash, for any line.
CONSTANTS
  Patterns <- MCPatterns
  Texts <- MCTexts
SPECIFICATION MCSpec
INVARIANT GlobNeverRaises
\* glob() returns or raises after one pass over the pattern.
CHECK_DEADLOCK FALSE
