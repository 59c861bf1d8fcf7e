SPECIFICATION Spec
CONSTANTS
  Chars <- MCChars
  Codes <- MCCodes
  MaxLength = 5
  U64Max = 99
INVARIANTS
  DurationsParsed
  RatesParsed
  UnescapeInvertsEscape
\* Typing ends at MaxLength.
CHECK_DEADLOCK FALSE
