SPECIFICATION Spec
CONSTANTS
  ann = ann
  bob = bob
  cat = cat
  nobody = nobody
  long = long
  ragged = ragged
  NoUser = NoUser
  NULL = NULL
  NoPassword = NoPassword
  Everyone = Everyone
  EmptyWord = ""
  Names = {ann, nobody}
  Words = {"pw", "hi", "drop", ""}
  SS_MAX_CHILDREN = 4
  FirstFd = 2
  EofReads <- ErrorAtEof
  Refused = {"drop"}
  MaxRows = 0
  InsertFails = FALSE
  Requests <- BusyRequests
  TooLong = {}
  HistoryLimit = 30
  MaxOpen = 2
  MaxPending = 2
  Events = {"close"}
INVARIANTS
  NeverCrashes
