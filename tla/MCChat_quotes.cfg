SPECIFICATION ChatSpec
CONSTANTS
  ann = ann
  bob = bob
  nobody = nobody
  first = first
  second = second
  NoName = nobody
  CountOf <- Atoi
  Interrupts = {}
  NoUser = NoUser
  NULL = NULL
  NoPassword = NoPassword
  Everyone = Everyone
  EmptyWord = ""
  Names = {ann, bob, nobody}
  Words = {"pw", "hi", "1", ""}
  SS_MAX_CHILDREN = 4
  FirstFd = 2
  EofReads <- ErrorAtEof
  Refused = {}
  MaxRows = 4
  InsertFails = FALSE
  Requests <- QuoteRequests
  TooLong = {}
  HistoryLimit = 30
  MaxOpen = 2
  MaxPending = 1
  Events = {"close", "abort"}
  Clients = {first, second}
  Lines <- QuoteLines
  MaxLines = 4
  Room = 4
INVARIANTS
  PrintedWasTyped
  
CHECK_DEADLOCK FALSE
