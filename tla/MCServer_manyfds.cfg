SPECIFICATION Spec
CONSTANTS
  ann = ann
  bob = bob
  cat = cat
  nobody = nobody
  long = long
  ragged = ragged
  NoUser = NoUser
  NULL = NULL
  NoPassword = NoPassword
  Everyone = Everyone
  EmptyWord = ""
  Names = {ann, bob, nobody}
  Words = {"pw", "hi", "drop", ""}
  SS_MAX_CHILDREN = 3
  FirstFd = 2
  EofReads <- EitherAtEof
  Refused = {"drop"}
  MaxRows = 0
  InsertFails = FALSE
  Requests <- GlobalRequests
  TooLong = {}
  HistoryLimit = 30
  MaxOpen = 2
  MaxPending = 1
  Events = {}
INVARIANTS
  NeverCrashes
