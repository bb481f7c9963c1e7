----------------------------- MODULE ChatProofs -----------------------------
(***************************************************************************)
(* For every number of clients, slots, lines and frames: the server in the *)
(* chat, with clients that take turns with it in the writes, does only     *)
(* what the server does among any peers, so that what is proved of it      *)
(* there holds here.                                                       *)
(***************************************************************************)
EXTENDS Chat, SessionProofs

(* A client has a descriptor or none.                                      *)
ConnTypes == conn \in [Clients -> Fds \cup {-1}]

(* What the clients and the network do are steps of its environment.       *)
LEMMA ServerOnly ==
  ASSUME ConnTypes, ChatNext
  PROVE  [Next]_vars
<1>1. \A c \in Clients : conn[c] # -1 => conn[c] \in Fds
  BY DEF ConnTypes
<1>2. ASSUME NEW c \in Clients, ClientStep(c)
      PROVE  [Next]_vars
  BY <1>1, <1>2 DEF ClientStep, WithoutServer, ssl_block_write_request, WritesInVain,
     cmdc_exit_close, Closes, LosesServer, Next, Environment
<1>3. ASSUME NEW c \in Clients, ssl_block_connect(c) \/ UserStep(c)
      PROVE  [Next]_vars
  BY <1>1, <1>3 DEF UserStep, WithoutServer, do_server_connection, ctrl_c_handler, Closes,
     ssl_block_connect, Next, Environment
<1>4. CASE ServerStep \/ RstStep \/ OperatorStep
  BY <1>4 DEF ServerStep, RstStep, OperatorStep, Next, Environment
<1> QED
  BY <1>2, <1>3, <1>4 DEF ChatNext

(* A client's descriptor is in use, and is that of no other client.        *)
ConnInv ==
  /\ ConnTypes
  /\ \A c \in Clients : conn[c] # -1 => sock[conn[c]] # "free"
  /\ \A c, d \in Clients : conn[c] # -1 /\ conn[c] = conn[d] => c = d

(* No socket is freed.                                                     *)
SocketsHeld == \A fd \in Fds : sock[fd] # "free" => sock'[fd] # "free"

(* What is not assigned is kept or lost.                                   *)
LEMMA ConnsKept ==
  ASSUME ConnInv,
         conn' \in [Clients -> Fds \cup {-1}],
         \A c \in Clients : conn'[c] \in {-1, conn[c]},
         \A c \in Clients : conn'[c] # -1 => sock'[conn'[c]] # "free"
  PROVE  ConnInv'
BY DEF ConnInv, ConnTypes

(* The peers free no socket.                                               *)
LEMMA PeersHold ==
  ASSUME TypeOK, NEW fd \in Fds,
         PeerSends(fd) \/ PeerCloses(fd) \/ PeerAborts(fd) \/ RstArrives(fd)
  PROVE  SocketsHeld
BY DEF PeerSends, PeerCloses, PeerAborts, RstArrives, SocketBecomes, SocketsHeld, TypeOK

(* An accept uses a free socket.                                           *)
LEMMA AcceptHolds ==
  ASSUME TypeOK, Loop, pc = "accept", pc' = "handshake"
  PROVE  SocketsHeld
<1>1. Accept
  BY DEF Loop, sdb_setup, sdb_execute, Select, SelectWith, HealthCheck, EndPass, ss_free, Capture,
     CaptureEof, IsNext, Execute, cmdh_execute_command, cmdh_msg_global, cmdh_msg_pm, cmdh_save,
     cmdh_register, cmdh_login, cmdh_close, cmdh_logout, cmdh_get_active_users,
     cmdh_get_global_history, cmdh_pm_history, cmdh_server_health_ping, UnnamedCommand,
     InvalidCommand, Executes
<1>2. PICK fd \in Fds : sock' = [sock EXCEPT ![fd] = "connecting"]
  BY <1>1 DEF Accept, Gone, ProcessGone
<1> QED
  BY <1>2 DEF SocketsHeld, TypeOK

(* One step per way a client can get or lose its descriptor.               *)
LEMMA ConnStep ==
  ASSUME TypeOK, ConnInv, ChatNext
  PROVE  ConnInv'
<1>1. conn \in [Clients -> Fds \cup {-1}] /\ \A c \in Clients : conn[c] # -1 => conn[c] \in Fds
  BY DEF ConnInv, ConnTypes
<1>2. ASSUME SocketsHeld, conn' = conn PROVE ConnInv'
  BY <1>1, <1>2, ConnsKept DEF SocketsHeld, ConnInv
<1>3. ASSUME SocketsHeld, NEW c \in Clients, conn' = [conn EXCEPT ![c] = -1] PROVE ConnInv'
  BY <1>1, <1>3, ConnsKept DEF SocketsHeld, ConnInv
<1>4. CASE ServerStep
  <2>1. CASE pc = "accept" /\ pc' = "handshake"
    <3>1. PICK c \in Clients, fd \in Fds :
            Waiting(c) /\ sock[fd] = "free" /\ sock'[fd] # "free" /\ conn' = [conn EXCEPT ![c] = fd]
      BY <1>4, <2>1 DEF ServerStep, Assigns
    <3>2. SocketsHeld
      BY <1>4, <2>1, AcceptHolds DEF ServerStep
    <3>3. \A d \in Clients : conn'[d] = IF d = c THEN fd ELSE conn[d]
      BY <1>1, <3>1
    <3>4. \A d \in Clients : conn[d] # fd
      BY <1>1, <3>1, FdFacts DEF ConnInv
    <3> QED
      BY <1>1, <3>1, <3>2, <3>3, <3>4 DEF ConnInv, ConnTypes, SocketsHeld
  <2>2. CASE ~ (pc = "accept" /\ pc' = "handshake")
    <3>1. conn' = [c \in Clients |->
                     IF conn[c] # -1 /\ sock'[conn[c]] = "free" THEN -1 ELSE conn[c]]
      BY <1>4, <2>2 DEF ServerStep, Assigns
    <3> QED
      BY <1>1, <3>1, ConnsKept
  <2> QED
    BY <2>1, <2>2
<1>5. CASE RstStep \/ OperatorStep
  <2>1. conn' = conn
    BY <1>5 DEF RstStep, OperatorStep, network
  <2>2. SocketsHeld
    BY <1>5, PeersHold DEF RstStep, OperatorStep, OperatorQuits, SelectWith, SocketsHeld
  <2> QED
    BY <1>2, <2>1, <2>2
<1>6. ASSUME NEW c \in Clients, Closes(c) PROVE ConnInv'
  <2>1. SocketsHeld
    BY <1>1, <1>6, PeersHold DEF Closes, vars, process, SocketsHeld
  <2> QED
    BY <1>3, <1>6, <2>1 DEF Closes
<1>7. ASSUME NEW c \in Clients, ssl_block_connect(c) PROVE ConnInv'
  <2>1. SocketsHeld
    BY <1>7 DEF ssl_block_connect, ssl_block_accept, SocketsHeld, TypeOK
  <2> QED
    BY <1>2, <1>3, <1>7, <2>1 DEF ssl_block_connect
<1>8. ASSUME NEW c \in Clients, ClientStep(c) PROVE ConnInv'
  <2>1. CASE cmdc_exit_close(c)
    BY <1>6, <2>1 DEF cmdc_exit_close
  <2>2. CASE ssl_block_write_request(c)
    <3>1. SocketsHeld /\ conn' = conn
      BY <1>1, <2>2, PeersHold DEF ssl_block_write_request, vars, process, SocketsHeld
    <3> QED
      BY <1>2, <3>1
  <2>3. CASE ~ cmdc_exit_close(c) /\ ~ ssl_block_write_request(c)
    BY <1>2, <1>8, <2>3 DEF ClientStep, WithoutServer, WritesInVain, LosesServer, vars, process,
       network, SocketsHeld
  <2> QED
    BY <2>1, <2>2, <2>3
<1>9. ASSUME NEW c \in Clients, UserStep(c) PROVE ConnInv'
  <2>1. CASE ctrl_c_handler(c)
    BY <1>6, <2>1 DEF ctrl_c_handler
  <2>2. CASE ~ ctrl_c_handler(c)
    BY <1>2, <1>9, <2>2 DEF UserStep, WithoutServer, do_server_connection, Connect, vars, process,
       network, SocketsHeld
  <2> QED
    BY <2>1, <2>2
<1> QED
  BY <1>4, <1>5, <1>7, <1>8, <1>9 DEF ChatNext

-----------------------------------------------------------------------------
(* The invariants of the server, and those its second halves rely on.      *)
ServerInv ==
  IInv /\ SaveIsForAnother /\ AddresseeIsThere /\ ChainedLoginSucceeds /\ DeliveredBeforeSaved
  /\ NoSelfDm /\ FramesFit /\ DmStaysPrivate

(* They are inductive together, by the lemmas about the server alone.      *)
LEMMA ServerInvStep == ServerInv /\ [Next]_vars => ServerInv'
BY NextInv, SaveInv, AddresseeInv, ChainInv, DeliveryInv, LogInv, PrivacyInv DEF ServerInv

(* So they are in the chat, with what is known of the descriptors.         *)
LEMMA ChatInvStep ==
  ServerInv /\ ConnInv /\ [ChatNext]_all => ServerInv' /\ ConnInv' /\ [Next]_vars
<1> SUFFICES ASSUME ServerInv, ConnInv, [ChatNext]_all
             PROVE  ServerInv' /\ ConnInv' /\ [Next]_vars
  OBVIOUS
<1>1. [Next]_vars
  BY ServerOnly DEF ConnInv, all
<1>2. ServerInv'
  BY <1>1, ServerInvStep
<1>3. CASE ChatNext
  BY <1>1, <1>2, <1>3, ConnStep DEF ServerInv, IInv
<1>4. CASE UNCHANGED all
  BY <1>1, <1>2, <1>4 DEF all, vars, process, network, ConnInv, ConnTypes
<1> QED
  BY <1>3, <1>4

(* The chat starts with the server.                                        *)
LEMMA ChatInitInv == ChatInit => Init /\ ServerInv /\ ConnInv
BY InitInv DEF ChatInit, Init, ServerInv, ConnInv, ConnTypes, SaveIsForAnother, AddresseeIsThere,
   ChainedLoginSucceeds, DeliveredBeforeSaved, NoSelfDm, FramesFit, DmStaysPrivate

(* Every step of the chat is a step of the server, or leaves it alone.     *)
THEOREM ChatRunsServer == ChatSpec => Init /\ [][Next]_vars /\ []ServerInv
BY ChatInitInv, ChatInvStep, PTL DEF ChatSpec

(* So the table agrees with the sockets, nobody is logged in twice or      *)
(* without an account, what is about to be saved is delivered, and private *)
(* messages stay so, also when the clients write ahead, interrupt, and make*)
(* the server wait.                                                        *)
THEOREM ChatIsSafe ==
  ChatSpec => [](TypeOK /\ TableMatchesSockets /\ OneSessionPerUser /\ SessionsAreRegistered
                 /\ DeliveredBeforeSaved /\ NoSelfDm /\ DmStaysPrivate)
<1>1. ServerInv => TypeOK /\ TableMatchesSockets /\ DeliveredBeforeSaved /\ NoSelfDm /\ DmStaysPrivate
  BY DEF ServerInv, IInv
<1>2. ServerInv => OneSessionPerUser /\ SessionsAreRegistered
  BY DEF ServerInv, IInv, SessionsFit, OneSessionPerUser, SessionsAreRegistered, su_has_user
<1> QED
  BY <1>1, <1>2, ChatRunsServer, PTL

(* A client's descriptor is open at the server, and no other client has    *)
(* it: nobody reads what is written to another, also after descriptors     *)
(* were closed and used again.                                             *)
THEOREM ConnectionsAreApart == ChatSpec => []ConnInv
BY ChatInitInv, ChatInvStep, PTL DEF ChatSpec

(* The chat implements the specification of its sessions.                  *)
THEOREM ChatRefinement == ChatSpec => ImplementsSessions
<1>1. ServerInv /\ ServerInv' /\ [Next]_vars
        => [Abstract!Next]_<<[fd \in Fds |-> Session(fd)], users, messages>>
  BY NextMaps DEF ServerInv, Sessions
<1> QED
  BY <1>1, ChatRunsServer, InitMaps, PTL DEF ImplementsSessions, Abstract!Spec

-----------------------------------------------------------------------------
(* The records that have arrived, and the requests in them.                *)

(* What a user may have typed, and all that may be written for it.         *)
Typable == {NULL} \cup UNION {Lines[c] : c \in Clients}

Writable == UNION {Commands!RequestsOf(text) : text \in Typable}

RecordsInv ==
  /\ line \in [Clients -> Typable]
  /\ wire \in [Fds -> Seq(Writable)]
  /\ \A fd \in Fds : Len(wire[fd]) = pending[fd]
  /\ \A fd \in Fds : sock[fd] = "free" => pending[fd] = 0

(* The line of a client is nothing or what its user may type.              *)
LEMMA TypableFacts ==
  /\ NULL \in Typable
  /\ \A c \in Clients : Lines[c] \subseteq Typable
BY DEF Typable

(* Only a read takes records off a connection that stays.                  *)
LEMMA PendingChanges ==
  ASSUME IInv, Loop
  PROVE  \/ pending' = pending /\ \A fd \in Fds : sock'[fd] = "free" => sock[fd] = "free"
         \/ pending' = NoRecords /\ sock' = NoSockets
         \/ cmdh_close
         \/ \E fd \in Fds : Capture(fd)
<1> DEFINE Kept == pending' = pending /\ \A fd \in Fds : sock'[fd] = "free" => sock[fd] = "free"
           Lost == pending' = NoRecords /\ sock' = NoSockets
<1>1. ASSUME NEW W, NEW frame, NEW sessions, NEW at, Send(W, frame, sessions, at)
      PROVE  Kept \/ Lost
  BY <1>1 DEF Send, ProcessGone, AfterWrites
<1>2. ASSUME Segfault \/ Silent \/ \E text : Reply(text) PROVE Kept \/ Lost
  BY <1>1, <1>2 DEF Segfault, ProcessGone, Silent, Reply
<1>3. CASE Execute
  <2>1. ASSUME cmdh_msg_global \/ cmdh_msg_pm \/ cmdh_save PROVE Kept \/ Lost
    BY <1>1, <1>2, <2>1 DEF cmdh_msg_global, cmdh_msg_pm, cmdh_save
  <2>2. ASSUME cmdh_register \/ cmdh_login \/ cmdh_logout PROVE Kept \/ Lost
    BY <1>1, <1>2, <2>2 DEF cmdh_register, cmdh_login, cmdh_logout
  <2>3. ASSUME cmdh_get_active_users \/ cmdh_get_global_history \/ cmdh_pm_history PROVE Kept \/ Lost
    BY <1>1, <1>2, <2>3 DEF cmdh_get_active_users, cmdh_get_global_history, cmdh_pm_history
  <2>4. ASSUME cmdh_server_health_ping \/ UnnamedCommand \/ InvalidCommand PROVE Kept \/ Lost
    BY <1>2, <2>4 DEF cmdh_server_health_ping, UnnamedCommand, InvalidCommand
  <2> QED
    BY <1>3, <2>1, <2>2, <2>3, <2>4 DEF Execute, cmdh_execute_command
<1>4. CASE HealthCheck \/ \E fd \in Fds : CaptureEof(fd)
  <2>1. \A fd \in Fds :
          \/ AfterEof(fd) = sock
          \/ AfterEof(fd) = [sock EXCEPT ![fd] = "reset"]
    BY DEF AfterEof
  <2> QED
    BY <1>4, <2>1 DEF HealthCheck, CaptureEof, AfterWrites, Gone, ProcessGone, IInv, TypeOK
<1>5. CASE Accept
  BY <1>5 DEF Accept, Gone, ProcessGone, IInv, TypeOK
<1>6. CASE sdb_setup \/ sdb_execute \/ Select \/ EndPass \/ ss_free
  BY <1>6 DEF sdb_setup, sdb_execute, SetUp, Select, SelectWith, EndPass, ss_free, Gone, ProcessGone
<1> QED
  BY <1>3, <1>4, <1>5, <1>6 DEF Loop

(* A record is read exactly where the server goes on to the health check.  *)
LEMMA ReadIsCapture ==
  ASSUME EofReads = {-1}, Loop
  PROVE  ReadsRecord <=> \E fd \in Fds : Capture(fd)
<1>1. ASSUME ReadsRecord PROVE ~ Execute
  BY <1>1 DEF ReadsRecord, Execute, cmdh_execute_command, cmdh_msg_global, cmdh_msg_pm, cmdh_save,
     cmdh_register, cmdh_login, cmdh_close, cmdh_logout, cmdh_get_active_users,
     cmdh_get_global_history, cmdh_pm_history, cmdh_server_health_ping, UnnamedCommand,
     InvalidCommand, Executes
<1>2. ASSUME ReadsRecord PROVE ~ (Accept \/ HealthCheck \/ EndPass \/ ss_free)
  BY <1>2 DEF ReadsRecord, Accept, HealthCheck, EndPass, ss_free, Gone, ProcessGone
<1>3. ASSUME ReadsRecord PROVE ~ (sdb_setup \/ sdb_execute \/ Select)
  BY <1>3 DEF ReadsRecord, sdb_setup, sdb_execute, Select, SelectWith
<1>4. ASSUME ReadsRecord, NEW fd \in Fds PROVE ~ CaptureEof(fd)
  BY <1>4 DEF ReadsRecord, CaptureEof
<1>5. ASSUME NEW fd \in Fds, Capture(fd) PROVE ReadsRecord
  BY <1>5 DEF ReadsRecord, Capture, IsNext
<1> QED
  BY <1>1, <1>2, <1>3, <1>4, <1>5 DEF Loop

(* Where records, sockets and requests stay, only the lines matter.        *)
LEMMA RecordsKept ==
  ASSUME RecordsInv, line' \in [Clients -> Typable],
         pending' = pending, wire' = wire,
         \A fd \in Fds : sock'[fd] = "free" => sock[fd] = "free"
  PROVE  RecordsInv'
BY DEF RecordsInv

(* The server takes the request of the record that it reads, and both are  *)
(* gone when the connection is.                                            *)
LEMMA ServerRecords ==
  ASSUME EofReads = {-1}, IInv, RecordsInv, ServerStep
  PROVE  RecordsInv'
<1>1. /\ line' = line
      /\ wire' = [fd \in Fds |-> IF sock'[fd] = "free" THEN <<>>
                                 ELSE IF ReadsRecord /\ fd = cur_fd' THEN Tail(wire[fd])
                                 ELSE wire[fd]]
  BY DEF ServerStep, TakesRequest
<1>2. CASE ReadsRecord
  <2>1. PICK fd \in Fds : Capture(fd)
    BY <1>2, ReadIsCapture DEF ServerStep
  <2>2. /\ cur_fd' = fd /\ sock' = sock /\ pending[fd] > 0
        /\ \A f \in Fds : pending'[f] = IF f = fd THEN pending[f] - 1 ELSE pending[f]
    BY <2>1 DEF Capture, IInv, TypeOK
  <2>3. sock[fd] # "free" /\ wire[fd] \in Seq(Writable) /\ Len(wire[fd]) > 0
    BY <2>2 DEF RecordsInv
  <2>4. wire'[fd] = Tail(wire[fd])
    BY <1>1, <1>2, <2>2, <2>3
  <2>5. wire'[fd] \in Seq(Writable) /\ Len(wire'[fd]) = pending[fd] - 1
    BY <2>3, <2>4 DEF RecordsInv
  <2>6. ASSUME NEW f \in Fds, f # fd
        PROVE  wire'[f] \in Seq(Writable) /\ Len(wire'[f]) = pending[f]
    BY <1>1, <2>2, <2>6 DEF RecordsInv
  <2> QED
    BY <1>1, <2>2, <2>3, <2>5, <2>6 DEF RecordsInv
<1>3. CASE ~ ReadsRecord
  <2>1. \A fd \in Fds : wire'[fd] = IF sock'[fd] = "free" THEN <<>> ELSE wire[fd]
    BY <1>1, <1>3
  <2>2. wire' \in [Fds -> Seq(Writable)]
    BY <1>1, <1>3 DEF RecordsInv
  <2>3. CASE pending' = pending /\ \A fd \in Fds : sock'[fd] = "free" => sock[fd] = "free"
    BY <1>1, <2>1, <2>2, <2>3 DEF RecordsInv
  <2>4. CASE pending' = NoRecords /\ sock' = NoSockets
    BY <1>1, <2>1, <2>2, <2>4 DEF RecordsInv, NoRecords, NoSockets
  <2>5. CASE cmdh_close
    <3>1. cur_fd \in Fds
      BY <2>5, ServedLoc DEF cmdh_close, Serving
    <3>2. /\ \A f \in Fds : sock'[f] = IF f = cur_fd THEN "free" ELSE sock[f]
          /\ \A f \in Fds : pending'[f] = IF f = cur_fd THEN 0 ELSE pending[f]
      BY <2>5, <3>1 DEF cmdh_close, IInv, TypeOK
    <3> QED
      BY <1>1, <2>1, <2>2, <3>2 DEF RecordsInv
  <2> QED
    BY <1>3, <2>3, <2>4, <2>5, PendingChanges, ReadIsCapture DEF ServerStep
<1> QED
  BY <1>2, <1>3

(* What a client writes is a request of its line, and one record.          *)
LEMMA WriteRecords ==
  ASSUME IInv, ConnInv, RecordsInv, NEW c \in Clients, ssl_block_write_request(c)
  PROVE  RecordsInv'
<1>1. PICK fd \in Fds : fd = conn[c]
  BY DEF ssl_block_write_request, ConnInv, ConnTypes
<1>2. PICK request \in Commands!RequestsOf(line[c]) :
        /\ Wrote(c, request)
        /\ IF request = <<>> THEN UNCHANGED <<vars, wire>>
           ELSE PeerSends(fd) /\ wire' = [wire EXCEPT ![fd] = Append(@, request)]
  BY <1>1 DEF ssl_block_write_request
<1>3. line' \in [Clients -> Typable]
  BY <1>2, TypableFacts DEF Wrote, RecordsInv
<1>4. request \in Writable
  BY DEF RecordsInv, Writable
<1>5. CASE request = <<>>
  BY <1>2, <1>3, <1>5, RecordsKept DEF vars, process
<1>6. CASE request # <<>>
  <2>1. /\ sock[fd] = "open" /\ sock' = sock
        /\ \A f \in Fds : pending'[f] = IF f = fd THEN pending[f] + 1 ELSE pending[f]
    BY <1>2, <1>6 DEF PeerSends, IInv, TypeOK
  <2>2. \A f \in Fds : wire'[f] = IF f = fd THEN Append(wire[f], request) ELSE wire[f]
    BY <1>2, <1>6 DEF RecordsInv
  <2>3. wire[fd] \in Seq(Writable)
    BY DEF RecordsInv
  <2>4. /\ Append(wire[fd], request) \in Seq(Writable)
        /\ Len(Append(wire[fd], request)) = Len(wire[fd]) + 1
    BY <1>4, <2>3
  <2>5. wire' \in [Fds -> Seq(Writable)]
    BY <1>2, <1>6, <2>4 DEF RecordsInv
  <2> QED
    BY <1>3, <2>1, <2>2, <2>4, <2>5 DEF RecordsInv
<1> QED
  BY <1>5, <1>6

(* Every step of the chat.                                                 *)
LEMMA RecordsStep ==
  ASSUME EofReads = {-1}, IInv, ConnInv, RecordsInv, ChatNext
  PROVE  RecordsInv'
<1>1. line \in [Clients -> Typable]
  BY DEF RecordsInv
<1>2. \A c \in Clients : conn[c] # -1 => conn[c] \in Fds
  BY DEF ConnInv, ConnTypes
<1>3. ASSUME NEW fd \in Fds, PeerCloses(fd) \/ PeerAborts(fd) \/ RstArrives(fd)
      PROVE  pending' = pending /\ \A f \in Fds : sock'[f] = "free" => sock[f] = "free"
  BY <1>3 DEF PeerCloses, PeerAborts, RstArrives, SocketBecomes, IInv, TypeOK
<1>4. CASE RstStep \/ OperatorStep
  BY <1>1, <1>3, <1>4, RecordsKept DEF RstStep, OperatorStep, OperatorQuits, SelectWith, client,
     network
<1>5. ASSUME NEW c \in Clients, Closes(c) PROVE RecordsInv'
  <2>1. line' \in [Clients -> Typable] /\ wire' = wire
    BY <1>1, <1>5, TypableFacts DEF Closes
  <2>2. pending' = pending /\ \A f \in Fds : sock'[f] = "free" => sock[f] = "free"
    BY <1>2, <1>3, <1>5 DEF Closes, vars, process
  <2> QED
    BY <2>1, <2>2, RecordsKept
<1>6. ASSUME NEW c \in Clients, ssl_block_connect(c) PROVE RecordsInv'
  <2>1. pending' = pending /\ \A f \in Fds : sock'[f] = "free" => sock[f] = "free"
    BY <1>6 DEF ssl_block_connect, ssl_block_accept, IInv, TypeOK
  <2> QED
    BY <1>1, <1>6, <2>1, RecordsKept DEF ssl_block_connect
<1>7. ASSUME NEW c \in Clients, ClientStep(c), ~ ssl_block_write_request(c), ~ cmdc_exit_close(c)
      PROVE  RecordsInv'
  <2>1. line' \in [Clients -> Typable]
    BY <1>1, <1>7, TypableFacts DEF ClientStep, WithoutServer, takes_line, cmdc_execute_server_command,
       WritesInVain, Wrote, LosesServer
  <2>2. UNCHANGED <<vars, network>>
    BY <1>7 DEF ClientStep, WithoutServer, WritesInVain, LosesServer
  <2> QED
    BY <2>1, <2>2, RecordsKept DEF vars, process, network
<1>8. ASSUME NEW c \in Clients, UserStep(c), ~ ctrl_c_handler(c) PROVE RecordsInv'
  <2>1. line' \in [Clients -> Typable]
    <3>1. ASSUME NEW text \in Lines[c], user_types(c, text) PROVE line' \in [Clients -> Typable]
      <4>1. text \in Typable
        BY <3>1, TypableFacts
      <4> QED
        BY <1>1, <3>1, <4>1 DEF user_types
    <3> QED
      BY <1>1, <1>8, <3>1 DEF UserStep, WithoutServer, do_server_connection
  <2>2. UNCHANGED <<sock, pending, wire>>
    BY <1>8 DEF UserStep, WithoutServer, do_server_connection, Connect, vars, process, network
  <2> QED
    BY <2>1, <2>2, RecordsKept
<1> QED
  BY <1>4, <1>5, <1>6, <1>7, <1>8, ServerRecords, WriteRecords
     DEF ChatNext, ClientStep, UserStep, cmdc_exit_close, ctrl_c_handler

(* Of every connection, the records that have arrived at the server are    *)
(* the requests that were written and not yet taken, where end-of-file is  *)
(* reported as an error: apim_capture_socket_msg always finds the oldest   *)
(* request, and a new connection none of the last one that had its         *)
(* descriptor.                                                             *)
THEOREM RecordsAreRequests == ASSUME EofReads = {-1} PROVE ChatSpec => []RecordsInv
<1>1. ChatInit => RecordsInv
  <2>1. <<>> \in Seq(Writable) /\ Len(<<>>) = 0
    OBVIOUS
  <2> QED
    BY <2>1, TypableFacts DEF ChatInit, Init, ClientInit, NoRecords, RecordsInv
<1>2. ServerInv /\ ConnInv /\ RecordsInv /\ [ChatNext]_all => RecordsInv'
  <2> SUFFICES ASSUME ServerInv, ConnInv, RecordsInv, [ChatNext]_all PROVE RecordsInv'
    OBVIOUS
  <2>1. CASE ChatNext
    BY <2>1, RecordsStep DEF ServerInv
  <2>2. CASE UNCHANGED all
    BY <2>2 DEF all, vars, process, client, network, RecordsInv
  <2> QED
    BY <2>1, <2>2
<1> QED
  BY <1>1, <1>2, ChatRunsServer, ConnectionsAreApart, PTL DEF ChatSpec
=============================================================================
