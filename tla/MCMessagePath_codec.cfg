SPECIFICATION Spec
CONSTANTS
  NULL = NULL
  SHA256 <- Hash
  MinPassword = 2
  Starts <- LineStarts
  Symbols <- LineSymbols
  MaxLine = 7
  RecordSize = 12
INVARIANTS
  PathTypeOK
  RoundTrip
  CleanArgumentsArrive
  NoOtherCommand
  ArgumentsAreTheLine
  LinesAreUnderstood
CHECK_DEADLOCK FALSE
