--------------------------- MODULE ServerCommands ---------------------------
(***************************************************************************)
(* The command handlers of the server (server-commands.c): one action per  *)
(* handler, for the message in hand and the connection it was read from.   *)
(* A handler that does two things the outside can tell apart is two        *)
(* actions: REGISTER answers and then chains to the login, GLOBAL and DM   *)
(* deliver and then save, and a peer can disconnect, or the process be     *)
(* killed, in between.  Times are left out of the messages.                *)
(***************************************************************************)
EXTENDS ServerDb, SslNonblock

CONSTANTS Requests,     \* the messages that a client may send
          TooLong,      \* the names of more than 20 characters
          EmptyWord,    \* the empty text
          HistoryLimit  \* the most messages that a history request may ask for

ASSUME RequestsAssumption ==
  /\ Requests \subseteq [route : STRING, argc : Nat, name : Names, word : Words, count : Int]
  /\ EmptyWord \in Words
  /\ NULL \notin Requests
  /\ HistoryLimit \in Nat

VARIABLES
  pc,       \* where the process is
  cur_fd,   \* the connection being served, -1 between two of them
  message,  \* the message being served; NULL stands for "||CLOSE", which the
            \* loop executes for an empty message and for a dead tunnel
  out       \* the frames that the last step handed to connections

process == <<child_fd, active_users, sock, pending, pc, cur_fd, message>>
database == <<users, messages, db_file>>

Down == {"stopped", "crashed"}

Frame(kind, rows) == [kind |-> kind, rows |-> rows]

Frames(W, frame) == {[to |-> fd, frame |-> frame] : fd \in Written(W)}

(* The process is gone, and the kernel closes its descriptors.             *)
ProcessGone(how) ==
  /\ pc' = how
  /\ child_fd' = NoConnections
  /\ active_users' = NoSessions
  /\ sock' = NoSockets
  /\ pending' = NoRecords
  /\ cur_fd' = -1
  /\ message' = NULL

Continue(at) ==
  /\ pc' = at
  /\ IF at = "pass" THEN cur_fd' = -1 /\ message' = NULL
                    ELSE UNCHANGED <<cur_fd, message>>

(* A handler's last write, to each connection of W, in slot order: the     *)
(* process dies of SIGPIPE at the first one that is reset.                 *)
Send(W, frame, sessions, at) ==
  /\ out' = Frames(W, frame)
  /\ IF Broken(W) # {}
     THEN ProcessGone("crashed")
     ELSE /\ Continue(at)
          /\ sock' = AfterWrites(W)
          /\ active_users' = sessions
          /\ UNCHANGED <<child_fd, pending>>

Reply(text) == Send({cur_fd}, Frame(text, <<>>), active_users, "pass")

Silent == Send({}, Frame("none", <<>>), active_users, "pass")

Segfault == ProcessGone("crashed") /\ out' = {}

NotLoggedIn == ~ ss_is_fd_logged_in(cur_fd)

Executes(route) == pc = "execute" /\ message # NULL /\ message.route = route

cmdh_msg_global ==
  /\ Executes("GLOBAL")
  /\ UNCHANGED database
  /\ \/ message.argc # 2 /\ Silent
     \/ message.argc = 2 /\ NotLoggedIn /\ Reply("You are not logged in.")
     \/ /\ message.argc = 2 /\ ~ NotLoggedIn
        /\ LET name == ss_get_username(cur_fd)
           IN  IF name = NULL THEN Segfault
               ELSE Send(sm_recipients(cur_fd),
                         Frame("GLOBAL", <<Row(name, Everyone, message.word)>>),
                         active_users, "save")

(* Mutant: one can talk to oneself.                                        *)
CannotReceive_lonely(pm_fd) == pm_fd = -1

(* Two tests of the code with a refusal each.  A user is logged in on a    *)
(* connection, so the -1 is what it guards against, not what happens.      *)
CannotReceive(pm_fd) == pm_fd \in {-1, cur_fd}

cmdh_msg_pm ==
  /\ Executes("DM")
  /\ UNCHANGED database
  /\ \/ NotLoggedIn /\ Reply("You are not logged in.")
     \/ ~ NotLoggedIn /\ message.argc # 3 /\ Reply("Bad Request")
     \/ /\ ~ NotLoggedIn /\ message.argc = 3
        /\ \/ ~ ss_is_user_logged_in(message.name) /\ Reply("Cannot find user")
           \/ /\ ss_is_user_logged_in(message.name)
              /\ \/ message.word = EmptyWord /\ Reply("Cannot send empty messages.")
                 \/ /\ message.word # EmptyWord
                    /\ LET name == ss_get_username(cur_fd)
                           pm_fd == ss_get_fd_from_username(message.name)
                       IN  IF name = NULL THEN Segfault
                           ELSE IF CannotReceive(pm_fd) THEN Reply("No friends to talk to?")
                           ELSE Send({pm_fd},
                                     Frame("DM", <<Row(name, message.name, message.word)>>),
                                     active_users, "save")

(* The second half of the two handlers above.                              *)
cmdh_save ==
  /\ pc = "save"
  /\ LET to == IF message.route = "DM" THEN message.name ELSE Everyone
     IN  \E inserted \in sm_insert_outcomes :
            messages' = sm_save_message(Row(ss_get_username(cur_fd), to, message.word), inserted)
  /\ UNCHANGED <<users, db_file>>
  /\ Silent

cmdh_register ==
  /\ Executes("REGISTER")
  /\ UNCHANGED <<messages, db_file>>
  /\ LET response == su_can_register(message.name, message.word)
     IN  \/ message.argc # 3 /\ Reply("Bad Request.") /\ UNCHANGED users
         \/ /\ message.argc = 3 /\ message.name \in TooLong
            /\ Reply("Username must be less than 20.") /\ UNCHANGED users
         \/ /\ message.argc = 3 /\ message.name \notin TooLong /\ response # "ok"
            /\ Reply(response) /\ UNCHANGED users
         \/ /\ message.argc = 3 /\ message.name \notin TooLong /\ response = "ok"
            /\ \E outcome \in su_insert_outcomes :
                 /\ users' = su_insert(message.name, message.word, outcome)
                 /\ IF outcome = "failed" THEN Reply("")
                    ELSE Send({cur_fd}, Frame("Register successful!", <<>>), active_users, "chain")

cmdh_login ==
  /\ Executes("LOGIN") \/ pc = "chain"
  /\ UNCHANGED database
  /\ LET response == su_validate_login(message.name, message.word)
     IN  \/ message.argc # 3 /\ Silent
         \/ /\ message.argc = 3 /\ ss_is_user_logged_in(message.name)
            /\ Reply("Already logged in, logout of other account first.")
         \/ /\ message.argc = 3 /\ ~ ss_is_user_logged_in(message.name) /\ response # "ok"
            /\ Reply(response)
         \/ /\ message.argc = 3 /\ ~ ss_is_user_logged_in(message.name) /\ response = "ok"
            /\ Send({cur_fd}, Frame(LoggedIn, <<>>), ss_login_fd(cur_fd, message.name), "pass")

cmdh_close ==
  /\ pc = "execute"
  /\ message # NULL => message.route = "CLOSE"
  /\ Continue("pass")
  /\ active_users' = ss_logout_fd(cur_fd)
  /\ child_fd' = ss_remove_child_connection(cur_fd)
  /\ sock' = [sock EXCEPT ![cur_fd] = "free"]
  /\ pending' = [pending EXCEPT ![cur_fd] = 0]
  /\ out' = {}
  /\ UNCHANGED database

cmdh_logout ==
  /\ Executes("LOGOUT")
  /\ UNCHANGED database
  /\ \/ NotLoggedIn /\ Reply("You are not logged in.")
     \/ /\ ~ NotLoggedIn
        /\ Send({cur_fd}, Frame(LoggedOut, <<>>), ss_logout_fd(cur_fd), "pass")

(* The connection that asks is active, so there is always a list to send.  *)
cmdh_get_active_users ==
  /\ Executes("USERS")
  /\ UNCHANGED database
  /\ Reply(IF NotLoggedIn THEN "You are not logged in." ELSE "USERS")

(* Nothing asks whether the user is logged in.  The count is parsed before *)
(* the number of arguments is tested: with one argument the process reads  *)
(* past the argument array, and may die of it.  A query whose table does   *)
(* not exist is answered with nothing at all.                              *)
cmdh_get_global_history ==
  /\ Executes("HISTORY")
  /\ UNCHANGED database
  /\ \/ message.argc < 2 /\ Segfault
     \/ (message.argc # 2 \/ message.count > HistoryLimit) /\ Reply("Bad Request")
     \/ message.argc = 2 /\ message.count <= HistoryLimit /\ db_file # "ready" /\ Silent
     \/ /\ message.argc = 2 /\ message.count <= HistoryLimit /\ db_file = "ready"
        /\ Send({cur_fd}, Frame("HISTORY", global_history(message.count)), active_users, "pass")

cmdh_pm_history ==
  /\ Executes("PMHISTORY")
  /\ UNCHANGED database
  /\ LET accepted == message.argc = 3 /\ message.count <= HistoryLimit
         name == ss_get_username(cur_fd)
     IN  \/ ~ accepted /\ Reply("Bad Request")
         \/ accepted /\ NotLoggedIn /\ Reply("You are not logged in.")
         \/ accepted /\ ~ NotLoggedIn /\ db_file # "ready" /\ Silent
         \/ accepted /\ ~ NotLoggedIn /\ db_file = "ready" /\ name = NULL /\ Segfault
         \/ /\ accepted /\ ~ NotLoggedIn /\ db_file = "ready" /\ name # NULL
            /\ IF ~ su_has_user(name) \/ ~ su_has_user(message.name)
               THEN Reply("Name given was invalid.")
               ELSE Send({cur_fd},
                         Frame("PMHISTORY", pm_history(name, message.name, message.count)),
                         active_users, "pass")

cmdh_server_health_ping == Executes("HEALTH") /\ Silent /\ UNCHANGED database

Registered == {"GLOBAL", "CLOSE", "REGISTER", "LOGIN", "LOGOUT", "USERS", "HISTORY",
               "PMHISTORY", "DM", "HEALTH"}

(* The entries of the registry that nothing was registered for have the    *)
(* empty name and no function, and an empty route finds the first of them. *)
(* Of a message without a separator the route is uninitialized memory: a   *)
(* bad pointer, or the name of no command.                                 *)
UnnamedCommand ==
  /\ Executes("")
  /\ \/ Segfault
     \/ message.argc = 0 /\ Silent
  /\ UNCHANGED database

(* cmdh_execute_command of a route that nothing is registered for.         *)
InvalidCommand ==
  /\ pc = "execute" /\ message # NULL /\ message.route \notin Registered \cup {""}
  /\ Silent
  /\ UNCHANGED database

cmdh_execute_command ==
  \/ cmdh_msg_global \/ cmdh_msg_pm \/ cmdh_save
  \/ cmdh_register \/ cmdh_login \/ cmdh_close \/ cmdh_logout
  \/ cmdh_get_active_users \/ cmdh_get_global_history \/ cmdh_pm_history
  \/ cmdh_server_health_ping \/ UnnamedCommand \/ InvalidCommand
=============================================================================
