\* Every glob call and every esc call within the bounds of MCCramGlob.
CONSTANTS
  Patterns <- MCPatterns
  Texts <- MCTexts
SPECIFICATION MCSpec
INVARIANT GlobMatchesReference
INVARIANT EscMatchesMeaning
INVARIANT EscRaisesOnlyOnExpected
\* A matcher returns or raises after one pass over its lines.
CHECK_DEADLOCK FALSE
