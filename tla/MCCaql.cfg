CONSTANTS
  CharOrder <- MCCharOrder
  Inputs <- MCInputs
  Events <- MCEvents
  Regexes <- MCRegexes
  Scale = 3
  MaxText = 3
  MaxQuoted = 3
  MaxNumeral = 4
  MaxSegments = 3
SPECIFICATION Spec
INVARIANTS TokensSpellSource ParseIsGrammar VerdictIsMeaning ProjectionFaithful
CHECK_DEADLOCK FALSE
