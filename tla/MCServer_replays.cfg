SPECIFICATION Spec
CONSTANTS
  ann = ann
  bob = bob
  cat = cat
  nobody = nobody
  long = long
  ragged = ragged
  NoUser = NoUser
  NULL = NULL
  NoPassword = NoPassword
  Everyone = Everyone
  EmptyWord = ""
  Names = {ann, bob, nobody}
  Words = {"pw", "hi", "drop", ""}
  SS_MAX_CHILDREN = 4
  FirstFd = 2
  EofReads <- EitherAtEof
  Refused = {"drop"}
  MaxRows = 1
  InsertFails = FALSE
  Requests <- AbstractRequests
  TooLong = {}
  HistoryLimit = 30
  MaxOpen = 2
  MaxPending = 1
  Events = {"close", "kill"}
INVARIANTS
  TypeOK
  SessionsAreLive
  OneSessionPerUser

  
