SPECIFICATION Spec
CONSTANTS
  ann = ann
  bob = bob
  cat = cat
  nobody = nobody
  long = long
  ragged = ragged
  NoUser = NoUser
  NULL = NULL
  NoPassword = NoPassword
  Everyone = Everyone
  EmptyWord = ""
  Names = {ann, bob, cat, nobody}
  Words = {"pw", "hi", "drop", ""}
  SS_MAX_CHILDREN = 5
  FirstFd = 2
  EofReads <- ErrorAtEof
  Refused = {"drop"}
  MaxRows = 2
  InsertFails = FALSE
  Requests <- TalkRequests
  TooLong = {}
  HistoryLimit = 30
  MaxOpen = 3
  MaxPending = 1
  Events = {}
INVARIANTS
  NoSelfDm
  
  
SYMMETRY FriendsSymmetry
