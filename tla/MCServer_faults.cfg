SPECIFICATION Spec
CONSTANTS
  ann = ann
  bob = bob
  cat = cat
  nobody = nobody
  long = long
  ragged = ragged
  NoUser = NoUser
  NULL = NULL
  NoPassword = NoPassword
  Everyone = Everyone
  EmptyWord = ""
  Names = {ann, long, ragged, nobody}
  Words = {"pw", "hi", "drop", ""}
  SS_MAX_CHILDREN = 2
  FirstFd = 2
  EofReads <- ErrorAtEof
  Refused = {"drop"}
  MaxRows = 0
  InsertFails = TRUE
  Requests <- OddRequests
  TooLong = {long}
  HistoryLimit = 30
  MaxOpen = 3
  MaxPending = 1
  Events = {"close", "abort", "kill", "quit"}
INVARIANTS
  TableMatchesSockets
  ServedIsConnected
  SessionsAreRegistered
  
PROPERTIES
  SlotsAreStable
