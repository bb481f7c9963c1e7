---------------------------- MODULE ServerProofs ----------------------------
(***************************************************************************)
(* For every number of slots, users, peers and records: the types, and the *)
(* agreement of the connection table with the sockets, the sessions and    *)
(* the accounts, are invariants of the server.  They are proved together,  *)
(* as each is needed to prove another: a logout clears the right slot only *)
(* if no descriptor is in two slots, a session dies with its connection    *)
(* only if the connection served is in the table, and so on.               *)
(***************************************************************************)
EXTENDS ServerProperties, TLAPS

(* The conditions on the sessions, for given values of the arrays they     *)
(* relate: of an active user the slot is filled, the account exists, and   *)
(* no other slot has the same user.                                        *)
SessionsFit(slots, sessions, accounts) ==
  \A i \in Slots : sessions[i] # NoUser =>
    /\ slots[i] # -1
    /\ accounts[sessions[i]] # NoPassword
    /\ \A j \in Slots : sessions[i] = sessions[j] => i = j

(* What a place in the program knows: a peer is waiting where one is       *)
(* accepted, the message is in hand where a handler has a second half, and *)
(* a message is saved under the name of a user.                            *)
PlaceKnows ==
  /\ pc = "accept" => backlog > 0
  /\ pc \in {"chain", "save"} => message # NULL
  /\ pc = "save" => ss_get_username(cur_fd) \in Names
  /\ pc \in Serving => cur_fd \in Fds

IInv ==
  /\ TypeOK
  /\ TableMatchesSockets
  /\ SessionsFit(child_fd, active_users, users)
  /\ ServedIsConnected
  /\ PlaceKnows

(* What Execute does to the variables of the loop.                         *)
LoopStep == IF pc' \in Down THEN LoopGone ELSE UNCHANGED loop

-----------------------------------------------------------------------------
(* Lemmas about the table.                                                 *)

(* Descriptors are positive, and none is the listening socket's.           *)
LEMMA FdFacts ==
  /\ Fds \subseteq Nat
  /\ -1 \notin Fds
  /\ server_fd \notin Fds /\ STDIN_FILENO \notin Fds /\ server_fd # STDIN_FILENO
  /\ Slots \subseteq Nat
BY TableAssumption DEF Fds, server_fd, STDIN_FILENO, Slots

(* ss_get_fd_loc finds the slot of a connection, which is its only one.    *)
LEMMA LocOf ==
  ASSUME TypeOK, TableMatchesSockets,
         NEW i \in Slots, child_fd[i] # -1
  PROVE  ss_get_fd_loc(child_fd[i]) = i
<1> DEFINE S == {j \in Slots : child_fd[j] = child_fd[i]}
<1>1. \A j \in S : j = i
  BY DEF TableMatchesSockets
<1>2. i \in Nat
  BY FdFacts
<1>3. \A j \in Slots : IsFirst(j, S) <=> j = i
  BY <1>1, <1>2 DEF IsFirst
<1> QED
  BY <1>3 DEF ss_get_fd_loc

(* The connection that is served has a slot.                               *)
LEMMA ServedLoc ==
  ASSUME IInv, pc \in Serving
  PROVE  /\ ss_get_fd_loc(cur_fd) \in Slots
         /\ child_fd[ss_get_fd_loc(cur_fd)] = cur_fd
         /\ cur_fd \in Fds
<1>1. PICK i \in Slots : child_fd[i] = cur_fd
  BY DEF IInv, ServedIsConnected
<1>2. cur_fd \in Fds /\ cur_fd # -1
  BY FdFacts DEF IInv, PlaceKnows
<1> QED
  BY <1>1, <1>2, LocOf DEF IInv

(* Who gets a broadcast is connected.                                      *)
LEMMA RecipientsAreFds ==
  ASSUME TypeOK, NEW fd
  PROVE  sm_recipients(fd) \subseteq Fds
BY DEF TypeOK, sm_recipients, ss_get_active_connections

(* A frame is only handed to a connection.                                 *)
LEMMA FrameTypes ==
  ASSUME NEW W \in SUBSET Fds, NEW frame
  PROVE  \A o \in Frames(W, frame) : o.to \in Fds
BY DEF Frames, Written

(* The fields of the message in hand.                                      *)
LEMMA MessageTypes ==
  ASSUME TypeOK, message # NULL
  PROVE  /\ message \in Requests
         /\ message.name \in Names /\ message.word \in Words
         /\ message.argc \in Nat /\ message.count \in Int
BY RequestsAssumption DEF TypeOK

(* Writing may wear a socket out, but closes none.                         *)
LEMMA WritesKeepSockets ==
  ASSUME TypeOK, NEW W \in SUBSET Fds
  PROVE  /\ AfterWrites(W) \in [Fds -> SockStates]
         /\ \A fd \in Fds : AfterWrites(W)[fd] = "free" <=> sock[fd] = "free"
BY DEF TypeOK, AfterWrites, SockStates, AtEof

-----------------------------------------------------------------------------
(* Lemmas about the ways a step ends.                                      *)

DbTypes ==
  /\ users \in [Names -> Words \cup {NoPassword}]
  /\ messages \in Seq(Rows)
  /\ db_file \in Files

(* However the process ends, it leaves an empty table and no sockets.      *)
LEMMA CrashStep ==
  ASSUME NEW how \in Down, ProcessGone(how), LoopGone,
         DbTypes', \A o \in out' : o.to \in Fds
  PROVE  IInv'
<1>1. TypeOK'
  BY DEF ProcessGone, LoopGone, DbTypes, TypeOK, NoConnections, NoSessions, NoSockets,
         NoRecords, SockStates, Places
<1>2. TableMatchesSockets'
  BY FdFacts DEF ProcessGone, TableMatchesSockets, NoConnections, NoSockets
<1>3. SessionsFit(child_fd, active_users, users)'
  BY DEF ProcessGone, SessionsFit, NoSessions
<1>4. ServedIsConnected' /\ PlaceKnows'
  BY DEF ProcessGone, ServedIsConnected, PlaceKnows, Serving, Down
<1> QED
  BY <1>1, <1>2, <1>3, <1>4 DEF IInv

(* A handler's last write, from a place where a message is served.         *)
LEMMA SendStep ==
  ASSUME IInv, pc \in Serving,
         NEW W \in SUBSET Fds, NEW frame,
         NEW sessions \in [Slots -> Names \cup {NoUser}],
         NEW at \in {"pass", "chain", "save"},
         Send(W, frame, sessions, at), LoopStep,
         DbTypes', SessionsFit(child_fd, sessions, users'),
         at # "pass" => message # NULL,
         at = "save" => sessions = active_users /\ ss_get_username(cur_fd) \in Names
  PROVE  IInv'
<1>1. \A o \in out' : o.to \in Fds
  BY FrameTypes DEF Send
<1>2. CASE Broken(W) # {}
  BY <1>1, <1>2, CrashStep DEF Send, LoopStep, ProcessGone, Down
<1>3. CASE Broken(W) = {}
  <2>1. /\ Continue(at) /\ sock' = AfterWrites(W) /\ active_users' = sessions
        /\ child_fd' = child_fd /\ pending' = pending /\ UNCHANGED loop
    BY <1>3 DEF Send, LoopStep, Continue, Down
  <2>2. pc' = at /\ pc' \in Places
    BY <2>1 DEF Continue, Places, Serving
  <2>3. cur_fd' \in Fds \cup {-1} /\ message' \in Requests \cup {NULL}
    BY <2>1 DEF IInv, TypeOK, Continue
  <2>4. TypeOK'
    BY <1>1, <2>1, <2>2, <2>3, WritesKeepSockets DEF IInv, TypeOK, DbTypes, loop
  <2>5. TableMatchesSockets'
    BY <2>1, WritesKeepSockets DEF IInv, TableMatchesSockets
  <2>6. SessionsFit(child_fd, active_users, users)'
    BY <2>1 DEF SessionsFit
  <2>7. at # "pass" => cur_fd' = cur_fd /\ message' = message
    BY <2>1 DEF Continue
  <2>8. at = "pass" => pc' \notin Serving
    BY <2>2 DEF Serving
  <2>9. ServedIsConnected'
    BY <2>1, <2>7, <2>8 DEF IInv, ServedIsConnected
  <2>10. ASSUME at = "save" PROVE ss_get_username(cur_fd)' = ss_get_username(cur_fd)
    <3>1. child_fd' = child_fd /\ active_users' = active_users /\ cur_fd' = cur_fd
      BY <2>1, <2>7, <2>10
    <3> QED
      BY <3>1 DEF ss_get_username, ss_get_fd_loc, IsFirst
  <2>11. PlaceKnows'
    BY <2>2, <2>7, <2>8, <2>10 DEF IInv, PlaceKnows
  <2> QED
    BY <2>4, <2>5, <2>6, <2>9, <2>11 DEF IInv
<1> QED
  BY <1>2, <1>3

(* The most frequent case: sessions, accounts and messages stay.           *)
LEMMA ReplyStep ==
  ASSUME IInv, pc \in Serving, UNCHANGED database, LoopStep,
         NEW W \in SUBSET Fds, NEW frame,
         Send(W, frame, active_users, "pass")
  PROVE  IInv'
BY SendStep DEF IInv, TypeOK, DbTypes, database

(* Reply and Silent are such sends.                                        *)
LEMMA AnswerStep ==
  ASSUME IInv, pc \in Serving, UNCHANGED database, LoopStep,
         NEW text, Reply(text) \/ Silent
  PROVE  IInv'
<1>1. {cur_fd} \in SUBSET Fds
  BY ServedLoc
<1> QED
  BY <1>1, ReplyStep DEF Reply, Silent

(* A read through a bad pointer ends the process inside a handler.         *)
LEMMA SegfaultStep ==
  ASSUME IInv, UNCHANGED database, LoopStep, Segfault
  PROVE  IInv'
BY CrashStep DEF IInv, TypeOK, DbTypes, database, Segfault, LoopStep, ProcessGone, Down

(* The name of a user that is logged in, where it is found.                *)
LEMMA NameOf ==
  ASSUME IInv, pc \in Serving, ~ NotLoggedIn, ss_get_username(cur_fd) # NULL
  PROVE  ss_get_username(cur_fd) \in Names
BY ServedLoc DEF IInv, TypeOK, NotLoggedIn, ss_is_fd_logged_in, ss_get_username

-----------------------------------------------------------------------------
(* One lemma per handler.                                                  *)

(* A message to everyone, as far as its delivery.                          *)
LEMMA GlobalStep ==
  ASSUME IInv, cmdh_msg_global, LoopStep
  PROVE  IInv'
<1> pc \in Serving /\ message # NULL /\ UNCHANGED database
  BY DEF cmdh_msg_global, Executes, Serving
<1>1. CASE (message.argc # 2 /\ Silent) \/ Reply("You are not logged in.")
  BY <1>1, AnswerStep
<1>2. ASSUME ~ NotLoggedIn,
             LET name == ss_get_username(cur_fd)
             IN  IF name = NULL THEN Segfault
                 ELSE Send(sm_recipients(cur_fd),
                           Frame("GLOBAL", <<Row(name, Everyone, message.word)>>),
                           active_users, "save")
      PROVE  IInv'
  <2>1. CASE ss_get_username(cur_fd) = NULL
    BY <1>2, <2>1, SegfaultStep
  <2>2. CASE ss_get_username(cur_fd) # NULL
    <3>1. ss_get_username(cur_fd) \in Names
      BY <1>2, <2>2, NameOf
    <3>2. sm_recipients(cur_fd) \in SUBSET Fds
      BY RecipientsAreFds DEF IInv
    <3>3. DbTypes' /\ SessionsFit(child_fd, active_users, users')
      BY DEF IInv, TypeOK, DbTypes, database
    <3>4. active_users \in [Slots -> Names \cup {NoUser}]
      BY DEF IInv, TypeOK
    <3> QED
      BY <1>2, <2>2, <3>1, <3>2, <3>3, <3>4, SendStep
  <2> QED
    BY <2>1, <2>2
<1> QED
  BY <1>1, <1>2 DEF cmdh_msg_global

(* A private message, as far as its delivery to the one slot it has.       *)
LEMMA PmStep ==
  ASSUME IInv, cmdh_msg_pm, LoopStep
  PROVE  IInv'
<1> pc \in Serving /\ message # NULL /\ UNCHANGED database
  BY DEF cmdh_msg_pm, Executes, Serving
<1>1. CASE \E text : Reply(text)
  BY <1>1, AnswerStep
<1>2. CASE Segfault
  BY <1>2, SegfaultStep
<1>3. ASSUME ~ NotLoggedIn, ss_is_user_logged_in(message.name),
             ss_get_username(cur_fd) # NULL, NEW frame,
             Send({ss_get_fd_from_username(message.name)}, frame, active_users, "save")
      PROVE  IInv'
  <2>1. ss_get_username(cur_fd) \in Names
    BY <1>3, NameOf
  <2>2. ss_get_fd_from_username(message.name) \in Fds
    <3>1. message.name \in Names /\ message.name # NoUser
      BY MessageTypes, TypesAssumption DEF IInv
    <3> DEFINE S == {j \in Slots : active_users[j] = message.name}
    <3>2. PICK i \in Slots : active_users[i] = message.name
      BY <1>3 DEF ss_is_user_logged_in
    <3>3. \A j \in S : j = i
      BY <3>1, <3>2 DEF IInv, SessionsFit
    <3>4. \A j \in Slots : IsFirst(j, S) <=> j = i
      BY <3>2, <3>3, FdFacts DEF IsFirst
    <3>5. ss_get_fd_from_username(message.name) = child_fd[i]
      BY <3>4 DEF ss_get_fd_from_username
    <3> QED
      BY <3>1, <3>2, <3>5 DEF IInv, SessionsFit, TypeOK
  <2>3. DbTypes' /\ SessionsFit(child_fd, active_users, users')
    BY DEF IInv, TypeOK, DbTypes, database
  <2>4. active_users \in [Slots -> Names \cup {NoUser}]
    BY DEF IInv, TypeOK
  <2>5. {ss_get_fd_from_username(message.name)} \in SUBSET Fds
    BY <2>2
  <2> QED
    BY <1>3, <2>1, <2>3, <2>4, <2>5, SendStep
<1> QED
  BY <1>1, <1>2, <1>3 DEF cmdh_msg_pm

(* The second half of both: the row has an author.                         *)
LEMMA SaveStep ==
  ASSUME IInv, cmdh_save, LoopStep
  PROVE  IInv'
<1>1. pc \in Serving /\ message # NULL /\ ss_get_username(cur_fd) \in Names
  BY DEF cmdh_save, Serving, IInv, PlaceKnows
<1>2. message.name \in Names /\ message.word \in Words
  BY <1>1, MessageTypes DEF IInv
<1>3. messages' \in Seq(Rows)
  <2>1. PICK to \in Names \cup {Everyone}, inserted \in sm_insert_outcomes :
          messages' = sm_save_message(Row(ss_get_username(cur_fd), to, message.word), inserted)
    BY <1>2 DEF cmdh_save
  <2>2. Row(ss_get_username(cur_fd), to, message.word) \in Rows
    BY <1>1, <1>2 DEF Row, Rows
  <2> QED
    BY <2>1, <2>2 DEF sm_save_message, IInv, TypeOK
<1>4. DbTypes' /\ SessionsFit(child_fd, active_users, users')
  BY <1>3 DEF IInv, TypeOK, DbTypes, cmdh_save
<1>5. active_users \in [Slots -> Names \cup {NoUser}]
  BY DEF IInv, TypeOK
<1>6. Send({}, Frame("none", <<>>), active_users, "pass")
  BY DEF cmdh_save, Silent
<1> QED
  BY <1>1, <1>4, <1>5, <1>6, SendStep

(* An account that is made or kept is still an account.                    *)
LEMMA RegisterStep ==
  ASSUME IInv, cmdh_register, LoopStep
  PROVE  IInv'
<1> pc \in Serving /\ message # NULL
  BY DEF cmdh_register, Executes, Serving
<1>0. message.name \in Names /\ message.word \in Words
  BY MessageTypes DEF IInv
<1>1. CASE UNCHANGED database /\ \E text : Reply(text)
  BY <1>1, AnswerStep
<1>2. ASSUME NEW outcome, NEW frame, NEW at \in {"pass", "chain"},
             users' = su_insert(message.name, message.word, outcome), UNCHANGED <<messages, db_file>>,
             Send({cur_fd}, frame, active_users, at)
      PROVE  IInv'
  <2>1. DbTypes'
    BY <1>0, <1>2 DEF IInv, TypeOK, DbTypes, su_insert
  <2>2. SessionsFit(child_fd, active_users, users')
    BY <1>0, <1>2, DbAssumption DEF IInv, TypeOK, SessionsFit, su_insert
  <2>3. active_users \in [Slots -> Names \cup {NoUser}] /\ {cur_fd} \in SUBSET Fds
    BY ServedLoc DEF IInv, TypeOK
  <2> QED
    BY <1>2, <2>1, <2>2, <2>3, SendStep
<1> QED
  BY <1>1, <1>2 DEF cmdh_register, database, Reply

(* The user that logs in is logged in nowhere else and has an account.     *)
LEMMA LoginStep ==
  ASSUME IInv, cmdh_login, LoopStep
  PROVE  IInv'
<1> /\ pc \in Serving /\ message # NULL /\ UNCHANGED database
  BY DEF cmdh_login, Executes, Serving, IInv, PlaceKnows
<1>0. message.name \in Names
  BY MessageTypes DEF IInv
<1>1. CASE Silent \/ \E text : Reply(text)
  BY <1>1, AnswerStep
<1>2. ASSUME ~ ss_is_user_logged_in(message.name),
             su_validate_login(message.name, message.word) = "ok", NEW frame,
             Send({cur_fd}, frame, ss_login_fd(cur_fd, message.name), "pass")
      PROVE  IInv'
  <2> DEFINE sessions == ss_login_fd(cur_fd, message.name)
  <2>1. users[message.name] # NoPassword
    BY <1>2 DEF su_validate_login, su_has_user
  <2>2. \A i \in Slots : active_users[i] # message.name
    BY <1>2 DEF ss_is_user_logged_in
  <2>3. sessions \in [Slots -> Names \cup {NoUser}]
    BY <1>0, ServedLoc DEF IInv, TypeOK, ss_login_fd
  <2>4. SessionsFit(child_fd, sessions, users)
    BY <1>0, <2>1, <2>2, ServedLoc, FdFacts DEF IInv, TypeOK, SessionsFit, ss_login_fd
  <2>5. DbTypes' /\ SessionsFit(child_fd, sessions, users')
    BY <2>4 DEF IInv, TypeOK, DbTypes, database
  <2>6. {cur_fd} \in SUBSET Fds
    BY ServedLoc
  <2> QED
    BY <1>2, <2>3, <2>5, <2>6, SendStep
<1> QED
  BY <1>1, <1>2 DEF cmdh_login

(* Fewer sessions still fit.                                               *)
LEMMA LogoutStep ==
  ASSUME IInv, cmdh_logout, LoopStep
  PROVE  IInv'
<1> pc \in Serving /\ UNCHANGED database
  BY DEF cmdh_logout, Executes, Serving
<1>1. CASE \E text : Reply(text)
  BY <1>1, AnswerStep
<1>2. ASSUME NEW frame, Send({cur_fd}, frame, ss_logout_fd(cur_fd), "pass")
      PROVE  IInv'
  <2>1. ss_logout_fd(cur_fd) \in [Slots -> Names \cup {NoUser}]
    BY DEF IInv, TypeOK, ss_logout_fd
  <2>2. DbTypes' /\ SessionsFit(child_fd, ss_logout_fd(cur_fd), users')
    BY DEF IInv, TypeOK, DbTypes, database, SessionsFit, ss_logout_fd
  <2>3. {cur_fd} \in SUBSET Fds
    BY ServedLoc
  <2> QED
    BY <1>2, <2>1, <2>2, <2>3, SendStep
<1> QED
  BY <1>1, <1>2 DEF cmdh_logout

(* The slot, its session and its socket go together.                       *)
LEMMA CloseStep ==
  ASSUME IInv, cmdh_close, LoopStep
  PROVE  IInv'
<1> DEFINE loc == ss_get_fd_loc(cur_fd)
<1>0. pc \in Serving
  BY DEF cmdh_close, Serving
<1>1. loc \in Slots /\ child_fd[loc] = cur_fd /\ cur_fd \in Fds
  BY <1>0, ServedLoc
<1>2. /\ pc' = "pass" /\ cur_fd' = -1 /\ message' = NULL /\ out' = {}
      /\ child_fd' = [child_fd EXCEPT ![loc] = -1]
      /\ active_users' = [active_users EXCEPT ![loc] = NoUser]
      /\ sock' = [sock EXCEPT ![cur_fd] = "free"]
      /\ pending' = [pending EXCEPT ![cur_fd] = 0]
      /\ UNCHANGED database /\ UNCHANGED loop
  BY DEF cmdh_close, Continue, ss_remove_child_connection, ss_logout_fd, LoopStep, Down
<1> HIDE DEF loc
<1>3. TypeOK'
  BY <1>1, <1>2 DEF IInv, TypeOK, database, loop, SockStates, Places
<1>4. TableMatchesSockets'
  <2>1. \A i \in Slots : child_fd[i] = cur_fd => i = loc
    BY <1>1, FdFacts DEF IInv, TableMatchesSockets
  <2>2. \A i \in Slots : child_fd'[i] = IF i = loc THEN -1 ELSE child_fd[i]
    BY <1>2 DEF IInv, TypeOK
  <2>3. \A fd \in Fds : sock'[fd] = IF fd = cur_fd THEN "free" ELSE sock[fd]
    BY <1>2 DEF IInv, TypeOK
  <2> QED
    BY <1>1, <2>1, <2>2, <2>3, FdFacts DEF IInv, TableMatchesSockets
<1>5. SessionsFit(child_fd, active_users, users)'
  BY <1>2 DEF IInv, TypeOK, SessionsFit, database
<1>6. ServedIsConnected' /\ PlaceKnows'
  BY <1>2 DEF ServedIsConnected, PlaceKnows, Serving
<1> QED
  BY <1>3, <1>4, <1>5, <1>6 DEF IInv

(* The handlers that only read and answer.                                 *)
LEMMA QueryStep ==
  ASSUME IInv, LoopStep,
         \/ cmdh_get_active_users \/ cmdh_get_global_history \/ cmdh_pm_history
         \/ cmdh_server_health_ping \/ UnnamedCommand \/ InvalidCommand
  PROVE  IInv'
<1> pc \in Serving /\ UNCHANGED database
  BY DEF cmdh_get_active_users, cmdh_get_global_history, cmdh_pm_history,
         cmdh_server_health_ping, UnnamedCommand, InvalidCommand, Executes, Serving
<1> {cur_fd} \in SUBSET Fds
  BY ServedLoc
<1>1. CASE Silent \/ \E text : Reply(text)
  BY <1>1, AnswerStep
<1>2. CASE Segfault
  BY <1>2, SegfaultStep
<1>3. CASE \E frame : Send({cur_fd}, frame, active_users, "pass")
  BY <1>3, ReplyStep
<1>4. CASE cmdh_get_active_users
  BY <1>1, <1>4 DEF cmdh_get_active_users
<1>5. CASE cmdh_get_global_history
  BY <1>1, <1>2, <1>3, <1>5 DEF cmdh_get_global_history
<1>6. CASE cmdh_pm_history
  BY <1>1, <1>2, <1>3, <1>6 DEF cmdh_pm_history
<1>7. CASE cmdh_server_health_ping \/ UnnamedCommand \/ InvalidCommand
  BY <1>1, <1>2, <1>7 DEF cmdh_server_health_ping, UnnamedCommand, InvalidCommand
<1> QED
  BY <1>4, <1>5, <1>6, <1>7

(* Every handler, and the loop when the process dies in it.                *)
LEMMA ExecuteStep ==
  ASSUME IInv, Execute
  PROVE  IInv'
<1> LoopStep
  BY DEF Execute, LoopStep
<1> QED
  BY GlobalStep, PmStep, SaveStep, RegisterStep, LoginStep, CloseStep, LogoutStep, QueryStep
     DEF Execute, cmdh_execute_command

-----------------------------------------------------------------------------
(* One lemma per step of the loop.                                         *)

(* The listening socket is in the snapshot only when a peer is waiting.    *)
LEMMA SelectStep ==
  ASSUME IInv, Select \/ OperatorQuits
  PROVE  IInv'
<1>1. PICK fds \in SUBSET (Fds \cup {STDIN_FILENO, server_fd}) :
        SelectWith(fds) /\ (server_fd \in fds => backlog > 0)
  <2>1. \A typed \in Typed : typed \subseteq {STDIN_FILENO}
    BY DEF Typed
  <2>2. Ready \subseteq Fds \cup {server_fd}
    BY DEF Ready, ss_get_active_connections, IInv, TypeOK
  <2>3. server_fd \in Ready => backlog > 0
    BY FdFacts DEF Ready, ss_get_active_connections, IInv, TypeOK
  <2>4. CASE Select
    <3>1. PICK typed \in Typed : SelectWith(Ready \cup typed)
      BY <2>4 DEF Select
    <3>2. Ready \cup typed \in SUBSET (Fds \cup {STDIN_FILENO, server_fd})
      BY <2>1, <2>2
    <3>3. server_fd \in Ready \cup typed => backlog > 0
      BY <2>1, <2>3, FdFacts
    <3> QED
      BY <3>1, <3>2, <3>3
  <2>5. CASE OperatorQuits
    <3>1. SelectWith({STDIN_FILENO})
      BY <2>5 DEF OperatorQuits
    <3>2. server_fd \notin {STDIN_FILENO}
      BY FdFacts
    <3> QED
      BY <3>1, <3>2
  <2> QED
    BY <2>4, <2>5
<1>2. pc' \in {"accept", "pass"} /\ (pc' = "accept" => backlog' > 0)
  BY <1>1 DEF SelectWith
<1> QED
  BY <1>1, <1>2 DEF SelectWith, IInv, TypeOK, TableMatchesSockets, SessionsFit, Places,
     ServedIsConnected, PlaceKnows, Serving, database

(* A new connection takes a free slot and a free descriptor.               *)
LEMMA AcceptStep ==
  ASSUME IInv, Accept
  PROVE  IInv'
<1>1. CASE Gone("crashed")
  BY <1>1, CrashStep DEF Accept, Gone, IInv, TypeOK, DbTypes, database, Down
<1>2. ASSUME NEW loc \in Slots, NEW fd \in Fds,
             IsFirst(loc, FreeSlots), IsFirst(fd, {f \in Fds : sock[f] = "free"}),
             child_fd' = ss_add_child_connection(loc, fd),
             sock' = [sock EXCEPT ![fd] = "connecting"],
             backlog' = backlog - 1, pc' = "handshake",
             UNCHANGED <<active_users, pending, cur_fd, message, readfds, stack_msg>>
      PROVE  IInv'
  <2>1. child_fd[loc] = -1 /\ sock[fd] = "free"
    BY <1>2 DEF IsFirst, FreeSlots
  <2>2. backlog' \in Nat
    BY <1>2 DEF Accept, IInv, TypeOK, PlaceKnows
  <2>3. child_fd' = [child_fd EXCEPT ![loc] = fd]
    BY <1>2 DEF ss_add_child_connection
  <2>4. TypeOK'
    BY <1>2, <2>2, <2>3 DEF Accept, IInv, TypeOK, SockStates, Places, database
  <2>5. TableMatchesSockets'
    <3>1. \A i \in Slots : child_fd[i] # fd
      BY <2>1 DEF IInv, TableMatchesSockets
    <3>2. \A i \in Slots : child_fd'[i] = IF i = loc THEN fd ELSE child_fd[i]
      BY <2>3 DEF IInv, TypeOK
    <3>3. \A f \in Fds : sock'[f] = IF f = fd THEN "connecting" ELSE sock[f]
      BY <1>2 DEF IInv, TypeOK
    <3> QED
      BY <2>1, <3>1, <3>2, <3>3, FdFacts DEF IInv, TableMatchesSockets
  <2>6. SessionsFit(child_fd, active_users, users)'
    BY <1>2, <2>1, <2>3, FdFacts DEF Accept, IInv, TypeOK, SessionsFit, database
  <2>7. ServedIsConnected' /\ PlaceKnows'
    BY <1>2 DEF ServedIsConnected, PlaceKnows, Serving
  <2> QED
    BY <2>4, <2>5, <2>6, <2>7 DEF IInv
<1> QED
  BY <1>1, <1>2 DEF Accept

(* A handshake leaves the socket in use, finished or not.                  *)
LEMMA HandshakeStep ==
  ASSUME IInv, ssl_block_accept
  PROVE  IInv'
<1>1. PICK fd \in Fds, end \in {"open", "failed"} :
        sock[fd] = "connecting" /\ sock' = [sock EXCEPT ![fd] = end]
  BY DEF ssl_block_accept
<1>2. /\ sock' \in [Fds -> SockStates]
      /\ \A f \in Fds : sock'[f] = "free" <=> sock[f] = "free"
  BY <1>1 DEF IInv, TypeOK, SockStates, AtEof
<1> QED
  BY <1>2 DEF ssl_block_accept, IInv, TypeOK, TableMatchesSockets, SessionsFit, Places,
     ServedIsConnected, PlaceKnows, Serving, database, loop

(* The connection that is read from has a slot.                            *)
LEMMA CaptureStep ==
  ASSUME IInv, NEW fd \in Fds, Capture(fd) \/ CaptureEof(fd)
  PROVE  IInv'
<1>1. \E i \in Slots : child_fd[i] = fd
  BY DEF Capture, CaptureEof, IsNext
<1>2. sock' \in [Fds -> SockStates] /\ \A f \in Fds : sock'[f] = "free" <=> sock[f] = "free"
  BY DEF Capture, CaptureEof, AfterEof, IInv, TypeOK, SockStates, AtEof
<1>3. pending' \in [Fds -> Nat]
  BY DEF Capture, CaptureEof, IInv, TypeOK
<1>4. message' \in Requests \cup {NULL} /\ stack_msg' \in Requests \cup {NULL}
  BY DEF Capture, CaptureEof, Remembers, IInv, TypeOK
<1>5. /\ pc' \in {"health", "execute"} /\ cur_fd' = fd /\ out' = {}
      /\ readfds' = readfds \ {fd}
      /\ UNCHANGED <<child_fd, active_users, database, backlog>>
  BY DEF Capture, CaptureEof
<1>6. TypeOK'
  BY <1>2, <1>3, <1>4, <1>5 DEF IInv, TypeOK, Places, Serving, database
<1>7. TableMatchesSockets' /\ SessionsFit(child_fd, active_users, users)'
  BY <1>2, <1>5 DEF IInv, TableMatchesSockets, SessionsFit, database
<1>8. ServedIsConnected' /\ PlaceKnows'
  BY <1>1, <1>5 DEF ServedIsConnected, PlaceKnows
<1> QED
  BY <1>6, <1>7, <1>8 DEF IInv

(* The health check changes the message, not the connection.               *)
LEMMA HealthStep ==
  ASSUME IInv, HealthCheck
  PROVE  IInv'
<1>1. CASE Gone("crashed")
  BY <1>1, CrashStep DEF HealthCheck, Gone, IInv, TypeOK, DbTypes, database, Down
<1>2. CASE ~ Gone("crashed")
  <2>1. {cur_fd} \in SUBSET Fds
    BY ServedLoc DEF HealthCheck, Serving
  <2>2. message' \in Requests \cup {NULL}
    BY <1>2 DEF HealthCheck, IInv, TypeOK
  <2>3. /\ sock' = AfterWrites({cur_fd}) /\ pc = "health" /\ pc' = "execute" /\ out' = {}
        /\ UNCHANGED <<child_fd, active_users, pending, cur_fd, loop, database>>
    BY <1>2 DEF HealthCheck
  <2>4. /\ sock' \in [Fds -> SockStates]
        /\ \A f \in Fds : sock'[f] = "free" <=> sock[f] = "free"
    BY <2>1, <2>3, WritesKeepSockets DEF IInv
  <2> QED
    BY <2>2, <2>3, <2>4 DEF IInv, TypeOK, TableMatchesSockets, SessionsFit, Places,
       ServedIsConnected, PlaceKnows, Serving, database, loop
<1> QED
  BY <1>1, <1>2

(* The end of a pass.                                                      *)
LEMMA EndStep ==
  ASSUME IInv, EndPass
  PROVE  IInv'
BY DEF EndPass, IInv, TypeOK, TableMatchesSockets, SessionsFit, Places,
   ServedIsConnected, PlaceKnows, Serving, database

(* Shutdown and kill.                                                      *)
LEMMA FreeStep ==
  ASSUME IInv, ss_free \/ Kill
  PROVE  IInv'
<1>1. \A frame : \A o \in Frames(sm_recipients(server_fd), frame) : o.to \in Fds
  BY RecipientsAreFds, FrameTypes DEF IInv
<1>2. \A o \in out' : o.to \in Fds
  BY <1>1 DEF ss_free, Kill
<1>3. PICK how \in Down : Gone(how)
  BY DEF ss_free, Kill, Down
<1>4. DbTypes'
  BY DEF ss_free, Kill, IInv, TypeOK, DbTypes, database
<1> QED
  BY <1>2, <1>3, <1>4, CrashStep DEF Gone

(* A peer that waits is in no slot yet.                                    *)
LEMMA ConnectStep ==
  ASSUME IInv, Connect
  PROVE  IInv'
BY DEF Connect, IInv, TypeOK, TableMatchesSockets, SessionsFit,
   ServedIsConnected, PlaceKnows, process, database, ss_get_username, ss_get_fd_loc, IsFirst

(* While the database is set up nothing else changes.                      *)
LEMMA SetUpStep ==
  ASSUME IInv, sdb_setup \/ sdb_execute
  PROVE  IInv'
<1>1. PICK file \in Files, at \in {"create", "select"} : SetUp(file, at)
  BY DEF sdb_setup, sdb_execute, create_tables, Files, IInv, TypeOK
<1> QED
  BY <1>1 DEF SetUp, IInv, TypeOK, TableMatchesSockets, SessionsFit, Places, Starting,
     ServedIsConnected, PlaceKnows, Serving, loop

(* A restart finds the empty table that the old process left.              *)
LEMMA RestartStep ==
  ASSUME IInv, Restart
  PROVE  IInv'
BY DEF Restart, IInv, TypeOK, TableMatchesSockets, SessionsFit, Places, Starting,
   ServedIsConnected, PlaceKnows, Serving, database, loop

(* What a peer does changes the state of a socket, but does not free it.   *)
LEMMA PeerStep ==
  ASSUME IInv, NEW fd \in Fds,
         PeerSends(fd) \/ PeerCloses(fd) \/ PeerAborts(fd) \/ RstArrives(fd)
  PROVE  IInv'
<1>1. /\ sock' \in [Fds -> SockStates]
      /\ \A f \in Fds : sock'[f] = "free" <=> sock[f] = "free"
      /\ pending' \in [Fds -> Nat]
  <2>1. CASE PeerSends(fd)
    BY <2>1 DEF PeerSends, IInv, TypeOK
  <2>2. ASSUME NEW s \in {"closed", "aborted", "reset"}, sock[fd] # "free", SocketBecomes(fd, s)
        PROVE  <1>1!:
    BY <2>2 DEF SocketBecomes, IInv, TypeOK, SockStates, AtEof
  <2> QED
    BY <2>1, <2>2 DEF PeerCloses, PeerAborts, RstArrives
<1>2. UNCHANGED <<child_fd, active_users, pc, cur_fd, message, database, out, loop>>
  BY DEF PeerSends, PeerCloses, PeerAborts, RstArrives, SocketBecomes
<1>3. ss_get_username(cur_fd)' = ss_get_username(cur_fd)
  BY <1>2 DEF ss_get_username, ss_get_fd_loc, IsFirst
<1> QED
  BY <1>1, <1>2, <1>3 DEF IInv, TypeOK, TableMatchesSockets, SessionsFit,
     ServedIsConnected, PlaceKnows, database, loop

-----------------------------------------------------------------------------
(* The invariant.                                                          *)

(* An empty table and no accounts satisfy it.                              *)
LEMMA InitInv == Init => IInv
<1> SUFFICES ASSUME Init PROVE IInv
  OBVIOUS
<1>1. TypeOK
  BY DEF Init, TypeOK, NoConnections, NoSessions, NoSockets, NoRecords, SockStates, Files,
         Places, Starting
<1>2. TableMatchesSockets
  BY FdFacts DEF Init, TableMatchesSockets, NoConnections, NoSockets
<1>3. SessionsFit(child_fd, active_users, users)
  BY DEF Init, SessionsFit, NoSessions
<1>4. ServedIsConnected /\ PlaceKnows
  BY DEF Init, ServedIsConnected, PlaceKnows, Serving
<1> QED
  BY <1>1, <1>2, <1>3, <1>4 DEF IInv

(* It depends on the variables of the server only.                         *)
LEMMA StutterInv == IInv /\ UNCHANGED vars => IInv'
BY DEF vars, process, database, loop, IInv, TypeOK, TableMatchesSockets, SessionsFit,
   ServedIsConnected, PlaceKnows, ss_get_username, ss_get_fd_loc, IsFirst

(* Every step of the process, the peers and the operator keeps it.         *)
LEMMA NextInv == IInv /\ [Next]_vars => IInv'
<1> SUFFICES ASSUME IInv, Next PROVE IInv'
  BY StutterInv
<1>1. CASE Loop
  BY <1>1, SetUpStep, SelectStep, AcceptStep, HealthStep, ExecuteStep, EndStep, FreeStep, CaptureStep
     DEF Loop
<1>2. CASE ssl_block_accept
  BY <1>2, HandshakeStep
<1>3. CASE Environment
  BY <1>3, SelectStep, ConnectStep, FreeStep, RestartStep, PeerStep DEF Environment
<1> QED
  BY <1>1, <1>2, <1>3 DEF Next

(* The types, the table, the sessions, the connection being served and     *)
(* what each place in the program knows hold together in every state.      *)
THEOREM Invariance == Spec => []IInv
BY InitInv, NextInv, PTL DEF Spec

-----------------------------------------------------------------------------
(* What follows from it.                                                   *)

(* The arrays of the table, the descriptors and the messages in hand keep  *)
(* their types in every state of the server.                               *)
THEOREM TypeCorrect == Spec => []TypeOK
<1>1. IInv => TypeOK
  BY DEF IInv
<1> QED
  BY <1>1, Invariance, PTL

(* No descriptor is in two slots, and those in the table are the open      *)
(* ones, whatever is accepted, closed and reused (ss_add_child_connection, *)
(* ss_remove_child_connection).                                            *)
THEOREM TableIsFaithful == Spec => []TableMatchesSockets
<1>1. IInv => TableMatchesSockets
  BY DEF IInv
<1> QED
  BY <1>1, Invariance, PTL

(* An empty slot has no user, so that the connection which                 *)
(* ss_add_child_connection puts there starts without a session.            *)
THEOREM NoGhostSessions == Spec => []SessionsAreLive
<1>1. IInv => SessionsAreLive
  BY DEF IInv, SessionsFit, SessionsAreLive
<1> QED
  BY <1>1, Invariance, PTL

(* cmdh_login logs nobody in twice, through any sequence of logins,        *)
(* switches of users, logouts and closes.                                  *)
THEOREM SingleLogin == Spec => []OneSessionPerUser
<1>1. IInv => OneSessionPerUser
  BY DEF IInv, SessionsFit, OneSessionPerUser
<1> QED
  BY <1>1, Invariance, PTL

(* A user that is logged in has an account, also across failing inserts,   *)
(* crashes and restarts.                                                   *)
THEOREM RegisteredSessions == Spec => []SessionsAreRegistered
<1>1. IInv => SessionsAreRegistered
  BY DEF IInv, SessionsFit, SessionsAreRegistered, su_has_user
<1> QED
  BY <1>1, Invariance, PTL

(* The connection a handler works for is in the table while it works.      *)
THEOREM ServedStays == Spec => []ServedIsConnected
<1>1. IInv => ServedIsConnected
  BY DEF IInv
<1> QED
  BY <1>1, Invariance, PTL

-----------------------------------------------------------------------------
(* The slots.                                                              *)

(* Only an accept, a close and the end of the process change the table.    *)
LEMMA SlotChanges ==
  ASSUME Next
  PROVE  \/ child_fd' = child_fd \/ pc' \in Down
         \/ Accept \/ cmdh_close
<1>1. ASSUME NEW W, NEW frame, NEW sessions, NEW at, Send(W, frame, sessions, at)
      PROVE  child_fd' = child_fd \/ pc' \in Down
  BY <1>1 DEF Send, ProcessGone, Down
<1>2. CASE Execute
  <2>1. ASSUME cmdh_msg_global \/ cmdh_msg_pm
        PROVE  child_fd' = child_fd \/ pc' \in Down
    BY <1>1, <2>1 DEF cmdh_msg_global, cmdh_msg_pm, Reply, Silent, Segfault, ProcessGone, Down
  <2>2. ASSUME cmdh_save \/ cmdh_register \/ cmdh_login \/ cmdh_logout
        PROVE  child_fd' = child_fd \/ pc' \in Down
    BY <1>1, <2>2 DEF cmdh_save, cmdh_register, cmdh_login, cmdh_logout, Reply, Silent
  <2>3. ASSUME \/ cmdh_get_active_users \/ cmdh_get_global_history \/ cmdh_pm_history
               \/ cmdh_server_health_ping \/ UnnamedCommand \/ InvalidCommand
        PROVE  child_fd' = child_fd \/ pc' \in Down
    BY <1>1, <2>3 DEF cmdh_get_active_users, cmdh_get_global_history, cmdh_pm_history,
       cmdh_server_health_ping, UnnamedCommand, InvalidCommand, Reply, Silent, Segfault, ProcessGone, Down
  <2> QED
    BY <1>2, <2>1, <2>2, <2>3 DEF Execute, cmdh_execute_command
<1>3. CASE Loop /\ ~ Execute
  BY <1>3 DEF Loop, sdb_setup, sdb_execute, SetUp, Select, SelectWith, HealthCheck, EndPass, ss_free, Capture, CaptureEof,
     Gone, ProcessGone, Down
<1>4. CASE ssl_block_accept \/ Environment
  BY <1>4 DEF ssl_block_accept, Environment, OperatorQuits, SelectWith, Connect, Kill, Restart,
     PeerSends, PeerCloses, PeerAborts, RstArrives, SocketBecomes, Gone, ProcessGone, process, Down
<1> QED
  BY <1>2, <1>3, <1>4 DEF Next

(* A slot keeps its connection until the connection itself is served with  *)
(* CLOSE or a dead tunnel (cmdh_close), or the process ends.               *)
THEOREM StableSlots == Spec => SlotsAreStable
<1> DEFINE Stable == \A i \in Slots : child_fd[i] # -1 /\ child_fd'[i] # child_fd[i]
                       => pc' \in Down \/ (child_fd[i] = cur_fd /\ child_fd'[i] = -1)
<1>1. IInv /\ [Next]_vars => [Stable]_vars
  <2> SUFFICES ASSUME IInv, Next PROVE Stable
    OBVIOUS
  <2>1. CASE child_fd' = child_fd \/ pc' \in Down
    BY <2>1
  <2>2. CASE Accept
    <3>1. \A loc \in Slots : IsFirst(loc, FreeSlots) => child_fd[loc] = -1
      BY DEF IsFirst, FreeSlots
    <3> QED
      BY <2>2, <3>1 DEF Accept, Gone, ProcessGone, Down, ss_add_child_connection, IInv, TypeOK
  <2>3. CASE cmdh_close
    <3>1. pc \in Serving
      BY <2>3 DEF cmdh_close, Serving
    <3>2. ss_get_fd_loc(cur_fd) \in Slots /\ child_fd[ss_get_fd_loc(cur_fd)] = cur_fd
      BY <3>1, ServedLoc
    <3> QED
      BY <2>3, <3>2 DEF cmdh_close, ss_remove_child_connection, IInv, TypeOK
  <2> QED
    BY <2>1, <2>2, <2>3, SlotChanges
<1>2. [][Stable]_vars <=> SlotsAreStable
  BY PTL DEF SlotsAreStable
<1> QED
  BY <1>1, <1>2, Invariance, PTL DEF Spec

-----------------------------------------------------------------------------
(* What the second half of a handler can rely on.                          *)

(* A handler is left half done by those that have a second half, and then  *)
(* only the outside moves.                                                 *)
LEMMA HalfDone ==
  ASSUME Next, pc' \in {"chain", "save"}
  PROVE  \/ pc' = "chain" /\ cmdh_register
         \/ pc' = "save" /\ (cmdh_msg_global \/ cmdh_msg_pm)
         \/ /\ pc' = pc
            /\ UNCHANGED <<child_fd, active_users, cur_fd, message, database>>
<1>1. ASSUME NEW W, NEW frame, NEW sessions, NEW at, Send(W, frame, sessions, at)
      PROVE  pc' = at \/ pc' = "crashed"
  BY <1>1 DEF Send, Continue, ProcessGone
<1>2. ASSUME Segfault \/ Silent \/ \E text : Reply(text)
      PROVE  FALSE
  BY <1>1, <1>2 DEF Segfault, ProcessGone, Silent, Reply
<1>3. CASE Execute
  <2>1. ASSUME cmdh_register PROVE pc' # "save"
    BY <1>1, <1>2, <2>1 DEF cmdh_register
  <2>2. ASSUME cmdh_msg_global PROVE pc' # "chain"
    BY <1>1, <1>2, <2>2 DEF cmdh_msg_global
  <2>3. ASSUME cmdh_msg_pm PROVE pc' # "chain"
    BY <1>1, <1>2, <2>3 DEF cmdh_msg_pm
  <2>4. ~ (cmdh_save \/ cmdh_login \/ cmdh_logout \/ cmdh_close)
    BY <1>1, <1>2 DEF cmdh_save, cmdh_login, cmdh_logout, cmdh_close, Continue
  <2>5. ~ (cmdh_get_active_users \/ cmdh_get_global_history \/ cmdh_pm_history)
    BY <1>1, <1>2 DEF cmdh_get_active_users, cmdh_get_global_history, cmdh_pm_history
  <2>6. ~ (cmdh_server_health_ping \/ UnnamedCommand \/ InvalidCommand)
    BY <1>2 DEF cmdh_server_health_ping, UnnamedCommand, InvalidCommand
  <2> QED
    BY <1>3, <2>1, <2>2, <2>3, <2>4, <2>5, <2>6 DEF Execute, cmdh_execute_command
<1>4. CASE Loop /\ ~ Execute
  BY <1>4 DEF Loop, sdb_setup, sdb_execute, SetUp, Select, SelectWith, Accept, HealthCheck, EndPass, ss_free, Capture,
     CaptureEof, Gone, ProcessGone
<1>5. CASE ssl_block_accept \/ Environment
  BY <1>5 DEF ssl_block_accept, Environment, OperatorQuits, SelectWith, Connect, Kill, Restart,
     PeerSends, PeerCloses, PeerAborts, RstArrives, SocketBecomes, Gone, ProcessGone, process
<1> QED
  BY <1>3, <1>4, <1>5 DEF Next

(* Whoever registers is new: nobody is logged in as him, for he would have *)
(* an account.                                                             *)
LEMMA ChainInv ==
  IInv /\ ChainedLoginSucceeds /\ [Next]_vars => ChainedLoginSucceeds'
<1> SUFFICES ASSUME IInv, ChainedLoginSucceeds, [Next]_vars, pc' = "chain"
             PROVE  /\ \A i \in Slots : active_users'[i] # message'.name
                    /\ users'[message'.name] # NoPassword =>
                         users'[message'.name] = message'.word
  BY DEF ChainedLoginSucceeds, ss_is_user_logged_in, su_has_user
<1>1. CASE cmdh_register
  <2>1. message # NULL
    BY <1>1 DEF cmdh_register, Executes
  <2>2. message.name \in Names /\ message.word \in Words /\ message.name # NoUser
    BY <2>1, MessageTypes, TypesAssumption DEF IInv
  <2>3. ASSUME NEW outcome, NEW frame, su_can_register(message.name, message.word) = "ok",
               users' = su_insert(message.name, message.word, outcome),
               Send({cur_fd}, frame, active_users, "chain")
        PROVE  /\ \A i \in Slots : active_users'[i] # message'.name
               /\ users'[message'.name] # NoPassword => users'[message'.name] = message'.word
    <3>1. users[message.name] = NoPassword
      BY <2>3 DEF su_can_register, su_has_user
    <3>2. active_users' = active_users /\ message' = message
      BY <2>3 DEF Send, ProcessGone, Continue
    <3>3. \A i \in Slots : active_users[i] # message.name
      BY <2>2, <3>1 DEF IInv, SessionsFit
    <3> QED
      BY <2>2, <2>3, <3>1, <3>2, <3>3 DEF su_insert, IInv, TypeOK
  <2>4. ASSUME NEW text, Reply(text) PROVE FALSE
    BY <2>4 DEF Reply, Send, Continue, ProcessGone
  <2> QED
    BY <1>1, <2>3, <2>4 DEF cmdh_register
<1>2. CASE UNCHANGED <<pc, active_users, message, users>>
  BY <1>2 DEF ChainedLoginSucceeds, ss_is_user_logged_in, su_has_user
<1>3. CASE UNCHANGED vars
  BY <1>2, <1>3 DEF vars, process, database
<1> QED
  BY <1>1, <1>2, <1>3, HalfDone DEF database

(* The login that cmdh_register chains to finds nobody logged in under the *)
(* new name, and no other password.                                        *)
THEOREM ChainedLogin == Spec => []ChainedLoginSucceeds
<1>1. Init => ChainedLoginSucceeds
  BY DEF Init, ChainedLoginSucceeds
<1> QED
  BY <1>1, ChainInv, Invariance, PTL DEF Spec

(* A private message that is about to be saved is not for its author.      *)
SaveIsForAnother ==
  pc = "save" /\ message.route = "DM" => message.name # ss_get_username(cur_fd)

(* The addressee is served by another connection than the author, and a    *)
(* user has only one.                                                      *)
LEMMA SaveInv ==
  IInv /\ SaveIsForAnother /\ [Next]_vars => SaveIsForAnother'
<1> SUFFICES ASSUME IInv, SaveIsForAnother, [Next]_vars, pc' = "save", message'.route = "DM"
             PROVE  message'.name # ss_get_username(cur_fd)'
  BY DEF SaveIsForAnother
<1>1. CASE UNCHANGED <<pc, child_fd, active_users, cur_fd, message>>
  BY <1>1 DEF SaveIsForAnother, ss_get_username, ss_get_fd_loc, IsFirst
<1>2. CASE cmdh_msg_global
  <2>1. message' = message
    BY <1>2 DEF cmdh_msg_global, Reply, Silent, Segfault, Send, Continue, ProcessGone
  <2> QED
    BY <1>2, <2>1 DEF cmdh_msg_global, Executes
<1>3. CASE cmdh_msg_pm
  <2>1. pc \in Serving /\ message # NULL
    BY <1>3 DEF cmdh_msg_pm, Executes, Serving
  <2>2. message.name \in Names /\ message.name # NoUser /\ message.name # NULL
    BY <2>1, MessageTypes, TypesAssumption DEF IInv
  <2>3. /\ ss_is_user_logged_in(message.name)
        /\ ss_get_fd_from_username(message.name) # cur_fd
        /\ UNCHANGED <<child_fd, active_users, cur_fd, message>>
    BY <1>3 DEF cmdh_msg_pm, CannotReceive, Reply, Segfault, Send, Continue, ProcessGone
  <2> DEFINE loc == ss_get_fd_loc(cur_fd)
             S == {j \in Slots : active_users[j] = message.name}
  <2>4. loc \in Slots /\ child_fd[loc] = cur_fd
    BY <2>1, ServedLoc
  <2>5. active_users[loc] # message.name
    <3> SUFFICES ASSUME active_users[loc] = message.name PROVE FALSE
      OBVIOUS
    <3>1. \A j \in S : j = loc
      BY <2>2, <2>4 DEF IInv, SessionsFit
    <3>2. \A j \in Slots : IsFirst(j, S) <=> j = loc
      BY <2>4, <3>1, FdFacts DEF IsFirst
    <3>3. ss_get_fd_from_username(message.name) = child_fd[loc]
      BY <2>4, <3>2 DEF ss_get_fd_from_username
    <3> QED
      BY <2>3, <2>4, <3>3
  <2>6. ss_get_username(cur_fd) # message.name
    BY <2>2, <2>5 DEF ss_get_username
  <2>7. ss_get_username(cur_fd)' = ss_get_username(cur_fd)
    BY <2>3 DEF ss_get_username, ss_get_fd_loc, IsFirst
  <2> QED
    BY <2>3, <2>6, <2>7
<1>4. CASE UNCHANGED vars
  BY <1>1, <1>4 DEF vars, process
<1> QED
  BY <1>1, <1>2, <1>3, <1>4, HalfDone

(* Only the second half of a message handler changes the log.              *)
LEMMA LogChanges ==
  ASSUME Next
  PROVE  messages' = messages \/ cmdh_save
BY DEF Next, Loop, Environment, sdb_setup, sdb_execute, SetUp, Select, SelectWith, Accept, HealthCheck, Execute, EndPass,
   ss_free, Capture, CaptureEof, ssl_block_accept, OperatorQuits, Connect, Kill, Restart,
   PeerSends, PeerCloses, PeerAborts, RstArrives, SocketBecomes, database,
   cmdh_execute_command, cmdh_msg_global, cmdh_msg_pm, cmdh_register, cmdh_login, cmdh_close,
   cmdh_logout, cmdh_get_active_users, cmdh_get_global_history, cmdh_pm_history,
   cmdh_server_health_ping, UnnamedCommand, InvalidCommand

(* Every row that is added is from one to another.                         *)
LEMMA LogInv ==
  IInv /\ SaveIsForAnother /\ NoSelfDm /\ [Next]_vars => NoSelfDm'
<1> SUFFICES ASSUME IInv, SaveIsForAnother, NoSelfDm, [Next]_vars PROVE NoSelfDm'
  OBVIOUS
<1>1. CASE messages' = messages
  BY <1>1 DEF NoSelfDm
<1>2. CASE cmdh_save
  <2> DEFINE to == IF message.route = "DM" THEN message.name ELSE Everyone
             row == Row(ss_get_username(cur_fd), to, message.word)
  <2>1. PICK inserted \in sm_insert_outcomes : messages' = sm_save_message(row, inserted)
    BY <1>2 DEF cmdh_save
  <2>2. pc = "save" /\ ss_get_username(cur_fd) \in Names /\ message # NULL
    BY <1>2 DEF cmdh_save, IInv, PlaceKnows
  <2>3. message.name \in Names /\ message.word \in Words
    BY <2>2, MessageTypes DEF IInv
  <2>4. row \in Rows /\ row.from # row.to
    BY <2>2, <2>3, DbAssumption DEF Row, Rows, SaveIsForAnother
  <2>5. messages \in Seq(Rows)
    BY DEF IInv, TypeOK
  <2> HIDE DEF row
  <2>6. CASE messages' = Append(messages, row)
    BY <2>4, <2>5, <2>6 DEF NoSelfDm
  <2> QED
    BY <1>1, <2>1, <2>6 DEF sm_save_message
<1> QED
  BY <1>1, <1>2, LogChanges DEF vars, database

(* Nobody's private message to himself is ever saved, whoever shares or    *)
(* switches connections (cmdh_msg_pm).                                     *)
THEOREM NoPrivateMonologue == Spec => []NoSelfDm
<1>1. Init => SaveIsForAnother /\ NoSelfDm
  BY DEF Init, SaveIsForAnother, NoSelfDm
<1>2. /\ IInv /\ SaveIsForAnother /\ NoSelfDm /\ [Next]_vars
      => (SaveIsForAnother /\ NoSelfDm)'
  BY SaveInv, LogInv
<1> QED
  BY <1>1, <1>2, Invariance, PTL DEF Spec
=============================================================================
