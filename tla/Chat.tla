-------------------------------- MODULE Chat --------------------------------
(***************************************************************************)
(* The server and its clients together: every record that the server reads *)
(* is a request that a client has written for a line of its user, and      *)
(* every frame that it writes is one that a client finds.  The connections *)
(* keep the order of what is written, and hold so much in each direction:  *)
(* who writes more waits, and the server serves nobody while it does.      *)
(***************************************************************************)
EXTENDS ServerProperties, Client

CONSTANTS NoName,     \* the name of a request that has none
          CountOf(_), \* the number that atoi finds in an argument
          Interrupts  \* the clients whose users may press ctrl-c

ASSUME ChatAssumption == Interrupts \subseteq Clients

VARIABLES
  conn,  \* the descriptor that the server has for a client, -1 for none
  wire   \* the requests that are on their way to the server

network == <<conn, wire>>
all == <<vars, client, network>>

ChatInit ==
  /\ Init
  /\ ClientInit
  /\ conn = [c \in Clients |-> -1]
  /\ wire = [fd \in Fds |-> <<>>]

(* What the handlers are given of a request without pipes (RoundTrip, in   *)
(* MessagePath).                                                           *)
MessageOf(request) ==
  [route |-> request[1][1],
   argc  |-> Len(request),
   name  |-> IF Len(request) = 3 THEN request[2][1] ELSE NoName,
   word  |-> IF Len(request) > 1 THEN request[Len(request)][1] ELSE EmptyWord,
   count |-> IF Len(request) > 1 THEN CountOf(request[Len(request)][1]) ELSE 0]

-----------------------------------------------------------------------------
(* The steps of the server.                                                *)

(* Whether the step writes ||HEALTH.                                       *)
PingsClient == pc = "health" /\ pc' = "execute" /\ ssl_block_write(cur_fd) > 0

(* What the step writes to a connection.                                   *)
FramesTo(fd) ==
  IF PingsClient /\ fd = cur_fd THEN <<Frame("HEALTH", <<>>)>>
  ELSE IF \E o \in out' : o.to = fd THEN <<(CHOOSE o \in out' : o.to = fd).frame>>
  ELSE <<>>

Delivered(c) == IF conn[c] = -1 THEN <<>> ELSE FramesTo(conn[c])

ReadsRecord == pc = "pass" /\ pc' = "health"

(* The message that is captured is the one that was written first.         *)
TakesRequest ==
  /\ ReadsRecord => message' = MessageOf(Head(wire[cur_fd']))
  /\ wire' = [fd \in Fds |-> IF sock'[fd] = "free" THEN <<>>
                             ELSE IF ReadsRecord /\ fd = cur_fd' THEN Tail(wire[fd])
                             ELSE wire[fd]]

(* An accept gives one of the waiting clients a descriptor; a close, and   *)
(* the end of the process, take it away.                                   *)
Waiting(c) == place[c] = "connecting" /\ conn[c] = -1

Assigns ==
  IF pc = "accept" /\ pc' = "handshake"
  THEN \E c \in Clients, fd \in Fds :
         /\ Waiting(c) /\ sock[fd] = "free" /\ sock'[fd] # "free"
         /\ conn' = [conn EXCEPT ![c] = fd]
  ELSE conn' = [c \in Clients |->
                  IF conn[c] # -1 /\ sock'[conn[c]] = "free" THEN -1 ELSE conn[c]]

Delivers ==
  /\ \A c \in Clients : Len(inbox[c]) + Len(Delivered(c)) <= Room
  /\ inbox' = [c \in Clients |-> inbox[c] \o Delivered(c)]

ServerStep ==
  /\ Loop
  /\ TakesRequest
  /\ Assigns
  /\ Delivers
  /\ UNCHANGED <<place, line, shown, told, said>>

-----------------------------------------------------------------------------
(* The steps of the clients and of their connections.                      *)

(* A client is started, and waits for the server to accept it.             *)
do_server_connection(c) ==
  /\ place[c] = "off"
  /\ Connect
  /\ Goes(c, "connecting")
  /\ UNCHANGED <<line, inbox, shown, told, said, network>>

(* Its user may be gone before the handshake is finished.                  *)
ssl_block_connect(c) ==
  /\ place[c] = "connecting" /\ conn[c] # -1
  /\ ssl_block_accept
  /\ \/ sock'[conn[c]] = "open" /\ Goes(c, "select") /\ UNCHANGED conn
     \/ /\ sock'[conn[c]] = "failed" /\ c \in Interrupts
        /\ Goes(c, "gone") /\ conn' = [conn EXCEPT ![c] = -1]
  /\ UNCHANGED <<line, inbox, shown, told, said, wire>>

WithoutServer(Step) == Step /\ UNCHANGED <<vars, network>>

(* The request is written as soon as there is room for it.                 *)
ssl_block_write_request(c) ==
  /\ conn[c] # -1
  /\ place[c] = "input"
  /\ \E request \in Commands!RequestsOf(line[c]) :
       /\ Wrote(c, request)
       /\ IF request = <<>> THEN UNCHANGED <<vars, wire>>
          ELSE /\ PeerSends(conn[c])
               /\ wire' = [wire EXCEPT ![conn[c]] = Append(@, request)]
  /\ UNCHANGED conn

(* The client's socket is closed: quietly if all that had arrived was      *)
(* read, with an RST otherwise.                                            *)
Closes(c) ==
  /\ IF conn[c] = -1 THEN UNCHANGED vars
     ELSE IF inbox[c] = <<>> THEN PeerCloses(conn[c]) ELSE PeerAborts(conn[c])
  /\ conn' = [conn EXCEPT ![c] = -1]
  /\ inbox' = [inbox EXCEPT ![c] = <<>>]
  /\ line' = [line EXCEPT ![c] = NULL]
  /\ Goes(c, "gone")
  /\ UNCHANGED <<shown, told, said, wire>>

(* The end of /exit, and of the signal handler, whose unencrypted message  *)
(* the server reads as an error of the tunnel.                             *)
cmdc_exit_close(c) == place[c] = "closing" /\ Closes(c)

ctrl_c_handler(c) == c \in Interrupts /\ Running(c) /\ Closes(c)

(* The server has closed its end: a write is lost, or is the one that the  *)
(* client does not survive, by its own exit(0) or by SIGPIPE.              *)
WritesInVain(c) ==
  /\ conn[c] = -1
  /\ \/ Wrote(c, <<>>)
     \/ /\ place[c] = "input" /\ Goes(c, "gone")
        /\ UNCHANGED <<line, inbox, shown, told, said>>
  /\ UNCHANGED <<vars, network>>

(* The server has closed its end: the loop reads an empty message in every *)
(* pass, and executes the command that is not in it.  Whether the handshake*)
(* succeeded makes no difference.                                          *)
LosesServer(c) ==
  /\ conn[c] = -1 /\ inbox[c] = <<>>
  /\ place[c] = "select" \/ (place[c] = "connecting" /\ pc \in Down)
  /\ \E end \in {"lost", "crashed"} : Goes(c, end)
  /\ WithoutServer(UNCHANGED <<line, inbox, shown, told, said>>)

ClientStep(c) ==
  \/ WithoutServer(takes_line(c) \/ cmdc_execute_server_command(c))
  \/ ssl_block_write_request(c) \/ WritesInVain(c) \/ cmdc_exit_close(c) \/ LosesServer(c)

UserStep(c) ==
  \/ \E text \in Lines[c] : WithoutServer(user_types(c, text))
  \/ do_server_connection(c) \/ ctrl_c_handler(c)

RstStep == (\E fd \in Fds : RstArrives(fd)) /\ UNCHANGED <<client, network>>

OperatorStep == OperatorQuits /\ UNCHANGED <<client, network>>

ChatNext ==
  \/ ServerStep \/ RstStep \/ OperatorStep
  \/ \E c \in Clients : ssl_block_connect(c) \/ ClientStep(c) \/ UserStep(c)

(* Server and clients keep running, and a handshake ends; users need not   *)
(* do anything.                                                            *)
ChatFairness ==
  /\ WF_all(ServerStep)
  /\ \A c \in Clients : WF_all(ssl_block_connect(c)) /\ WF_all(ClientStep(c))

ChatSpec == ChatInit /\ [][ChatNext]_all /\ ChatFairness
-----------------------------------------------------------------------------
(* What users can rely on.                                                 *)

(* Every variable has its type; the server's count of the records that     *)
(* have arrived, and the requests in them, are the same.                   *)
ChatTypeOK ==
  /\ TypeOK
  /\ conn \in [Clients -> Fds \cup {-1}]
  /\ \A c, d \in Clients : conn[c] # -1 /\ conn[c] = conn[d] => c = d
  /\ \A c \in Clients : Len(inbox[c]) <= Room /\ Len(said[c]) <= MaxLines
  /\ \A fd \in Fds : Len(wire[fd]) = pending[fd]

(* The messages that are saved, and the one to all that is about to be.    *)
Heard ==
  messages \o IF pc = "save" /\ message.route = "GLOBAL"
              THEN <<Row(ss_get_username(cur_fd), Everyone, message.word)>> ELSE <<>>

Globals(rows) == {k \in 1 .. Len(rows) : ~ IsDm(rows[k])}

(* What a client prints of the messages to all is a part of what the log   *)
(* has, in the order of the log: nothing twice, nothing out of order, and  *)
(* nothing that a later history would not show, as long as the server runs *)
(* and its inserts succeed.                                                *)
PrintsTheLog ==
  pc \notin Down =>
    \A c \in Clients : \E at \in [Globals(shown[c]) -> Globals(Heard)] :
      /\ \A j, k \in DOMAIN at : j < k => at[j] < at[k]
      /\ \A k \in DOMAIN at : Heard[at[k]] = shown[c][k]

(* The lines of a client that say a text to all, and those that ask for a  *)
(* user to be logged in.                                                   *)
Saying(c, text) == {i \in 1 .. Len(said[c]) : said[c][i] = <<text>>}

Asking(c, name) ==
  {i \in 1 .. Len(said[c]) :
     Len(said[c][i]) = 5 /\ said[c][i][3] = name /\ said[c][i][1] \in {"/login", "/register"}}

(* What is printed as said by a user was typed into a client whose user    *)
(* had asked, before, to be him, and not more often than it was typed: "the*)
(* server signs a message with your name" (docs/architecture/security.md). *)
SignedByItsAuthor ==
  \A c \in Clients : \A k \in 1 .. Len(shown[c]) :
    LET row == shown[c][k]
        Sources == {at \in Clients \X (1 .. MaxLines) :
                      /\ at[2] \in Saying(at[1], row.text)
                      /\ \E j \in Asking(at[1], row.from) : j < at[2]}
    IN  IsDm(row) \/
        Cardinality({i \in 1 .. Len(shown[c]) : shown[c][i] = row}) <= Cardinality(Sources)

(* The line that a message of a user is typed as.                          *)
TypedAs(row) == IF IsDm(row) THEN <<"@", row.to, " ", row.text>> ELSE <<row.text>>

(* Whatever a client prints as said by a user, at once or from a history,  *)
(* to all or to one, was typed like that into a client whose user had asked*)
(* before to be him: no author, no addressee and no text is mixed up on the*)
(* way through handlers, log and queries (docs/architecture/security.md).  *)
PrintedWasTyped ==
  \A c \in Clients : \A k \in 1 .. Len(shown[c]) :
    LET row == shown[c][k]
    IN  \E at \in LinesTyped :
          /\ said[at[1]][at[2]] = TypedAs(row)
          /\ \E j \in Asking(at[1], row.from) : j < at[2]

(* A private message, also from a history, is only ever printed by a client*)
(* whose user has asked to be its author or its addressee: it is not in a  *)
(* connection that somebody else gets, whenever users log out, leave and   *)
(* take over names, slots and descriptors.                                 *)
DmsReachTheirParties ==
  \A c \in Clients : \A k \in 1 .. Len(shown[c]) :
    LET row == shown[c][k]
    IN  IsDm(row) => Asking(c, row.from) \cup Asking(c, row.to) # {}

(* Nothing of a client is under way, in either direction.                  *)
Settled(c) ==
  /\ conn[c] # -1 /\ Running(c) /\ inbox[c] = <<>> /\ wire[conn[c]] = <<>>
  /\ cur_fd # conn[c]

(* When all is read, a client was last told that it is logged in exactly   *)
(* if the server has a session for it: the replies of REGISTER with its    *)
(* chained LOGIN, of refused logins, of switches and of LOGOUT, in the     *)
(* order they come, say how things stand.                                  *)
ToldTheTruth ==
  \A c \in Clients : Settled(c) =>
    (told[c] = LoggedIn <=> ss_is_fd_logged_in(conn[c]))

(* A line that is typed is taken, its request is executed, and every reply *)
(* is read in the end, unless the connection ends.  Clients and server wait*)
(* for each other in writes, the server for one client at a time and while *)
(* it serves no other: no order of lines, records and passes of the loops  *)
(* leaves somebody waiting, as long as the connection has room for what    *)
(* the lines that a user types ahead bring (Room).                         *)
AllIsAnswered ==
  \A c \in Clients :
    line[c] # NULL ~> (Settled(c) /\ line[c] = NULL) \/ ~ Running(c) \/ conn[c] = -1

(* What the comments say of the notice: a client that receives it is told, *)
(* and ends (client-commands.c, cmdc_server_disconnected).                 *)
NoticedClientsLeave == \A c \in Clients : told[c] = "SERVER_DISCONNECTED" => place[c] = "gone"
=============================================================================
