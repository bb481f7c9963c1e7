------------------------------- MODULE Client -------------------------------
(***************************************************************************)
(* The client process (client.c and client-commands.c): one thread, whose  *)
(* loop waits for a record of the server or a line of its user, takes at   *)
(* most one record and then at most one line, and writes a request for the *)
(* line.  place[c] is where client c is:                                   *)
(*                                                                         *)
(*   off -> connecting -> select -> (input ->) select                      *)
(*                                                                         *)
(*   input     in the write, until the connection has room for the request *)
(*   closing   /exit has written its request and not closed yet            *)
(*   gone, crashed                                                         *)
(*   lost      at end-of-file for ever: nothing tells the loop to end      *)
(*                                                                         *)
(* The clients' ends of the connections are in Chat.                       *)
(***************************************************************************)
EXTENDS ChatTypes, FiniteSets

CONSTANTS Clients,
          Lines,     \* what each user may type, as sequences of symbols
          MaxLines,  \* bound: the lines of all users together
          Room       \* the unread frames that a connection holds for a client

ASSUME ClientAssumption == IsFiniteSet(Clients) /\ MaxLines \in Nat /\ Room \in Nat

VARIABLES
  place,
  line,   \* the line that waits on the terminal of each client, or NULL
  inbox,  \* the frames that have arrived and are not read
  shown,  \* what has been printed of the messages of users
  told,   \* the last news of its session, or of the end of the server
  said    \* all lines that the user has typed

client == <<place, line, inbox, shown, told, said>>

(* Names and words are single symbols here, and hashing keeps them apart.  *)
Hash(password) == password

Commands == INSTANCE ClientCommands WITH SHA256 <- Hash, MinPassword <- 1

News == {LoggedIn, LoggedOut, "SERVER_DISCONNECTED"}

ClientInit ==
  /\ place = [c \in Clients |-> "off"]
  /\ line = [c \in Clients |-> NULL]
  /\ inbox = [c \in Clients |-> <<>>]
  /\ shown = [c \in Clients |-> <<>>]
  /\ told = [c \in Clients |-> "none"]
  /\ said = [c \in Clients |-> <<>>]

LinesTyped == {at \in Clients \X (1 .. MaxLines) : at[2] <= Len(said[at[1]])}

Running(c) == place[c] \in {"select", "input"}

Goes(c, at) == place' = [place EXCEPT ![c] = at]

(* The user is ahead of the client by a line at most.                      *)
user_types(c, text) ==
  /\ Running(c) /\ line[c] = NULL /\ Cardinality(LinesTyped) < MaxLines
  /\ line' = [line EXCEPT ![c] = text]
  /\ said' = [said EXCEPT ![c] = Append(@, text)]
  /\ UNCHANGED <<place, inbox, shown, told>>

(* A pass of the loop without a record.                                    *)
takes_line(c) ==
  /\ place[c] = "select" /\ inbox[c] = <<>> /\ line[c] # NULL
  /\ Goes(c, "input")
  /\ UNCHANGED <<line, inbox, shown, told, said>>

(* The notice of a shutdown is written without the length in front, and is *)
(* captured as an empty message: its route is uninitialized memory, a bad  *)
(* pointer or the name of no command.                                      *)
Unreadable(frame) == frame.kind = "SERVER_DISCONNECTED"

(* Mutant: the records of one connection are taken in any order.           *)
cmdc_execute_server_command_last(c) ==
  /\ place[c] = "select" /\ inbox[c] # <<>>
  /\ LET frame == inbox[c][Len(inbox[c])]
     IN  /\ inbox' = [inbox EXCEPT ![c] = SubSeq(@, 1, Len(@) - 1)]
         /\ shown' = [shown EXCEPT ![c] = @ \o frame.rows]
         /\ told' = IF frame.kind \in News THEN [told EXCEPT ![c] = frame.kind] ELSE told
         /\ Goes(c, IF line[c] = NULL THEN "select" ELSE "input")
  /\ UNCHANGED <<line, said>>

(* GLOBAL, SERV_RESPONSE and HEALTH: the first two print what they bring.  *)
(* The HEALTH request that every third record should be answered with is   *)
(* never sent: its counter is set back in each pass.                       *)
cmdc_execute_server_command(c) ==
  /\ place[c] = "select" /\ inbox[c] # <<>>
  /\ LET frame == Head(inbox[c])
     IN  /\ inbox' = [inbox EXCEPT ![c] = Tail(@)]
         /\ shown' = [shown EXCEPT ![c] = @ \o frame.rows]
         /\ told' = IF frame.kind \in News THEN [told EXCEPT ![c] = frame.kind] ELSE told
         /\ \/ Goes(c, IF line[c] = NULL THEN "select" ELSE "input")
            \/ Unreadable(frame) /\ Goes(c, "crashed")
  /\ UNCHANGED <<line, said>>

(* The line is taken and what is written for it is in the connection.      *)
Wrote(c, request) ==
  /\ place[c] = "input"
  /\ line' = [line EXCEPT ![c] = NULL]
  /\ Goes(c, IF Commands!utils_str_to_args(line[c])[1] = <<"/exit">> THEN "closing" ELSE "select")
  /\ UNCHANGED <<inbox, shown, told, said>>
=============================================================================
