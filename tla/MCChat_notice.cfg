SPECIFICATION ChatSpec
CONSTANTS
  ann = ann
  bob = bob
  nobody = nobody
  first = first
  second = second
  NoName = nobody
  CountOf <- Atoi
  Interrupts = {first}
  NoUser = NoUser
  NULL = NULL
  NoPassword = NoPassword
  Everyone = Everyone
  EmptyWord = ""
  Names = {ann, bob, nobody}
  Words = {"pw", "hi", ""}
  SS_MAX_CHILDREN = 4
  FirstFd = 2
  EofReads <- ErrorAtEof
  Refused = {}
  MaxRows = 4
  InsertFails = FALSE
  Requests <- ChatRequests
  TooLong = {}
  HistoryLimit = 30
  MaxOpen = 2
  MaxPending = 1
  Events = {"close", "abort", "quit"}
  Clients = {first, second}
  Lines <- SignUpLines
  MaxLines = 3
  Room = 4
CHECK_DEADLOCK FALSE
INVARIANTS
  NoticedClientsLeave
