--------------------------- MODULE SessionProofs ---------------------------
(***************************************************************************)
(* For every number of slots, users, peers and records: the server         *)
(* implements the specification of its sessions (ChatSessions), the        *)
(* sessions being those of the descriptors; a message that is about to be  *)
(* saved has been handed to everybody it is for, whoever leaves between the*)
(* two halves of the handler; and a private message is only ever handed to *)
(* its author and its addressee.                                           *)
(***************************************************************************)
EXTENDS ServerProofs, Induction

(* The sessions that the refinement shows.                                 *)
Sessions == [fd \in Fds |-> Session(fd)]

-----------------------------------------------------------------------------
(* What a step does to the sessions, the accounts and the log.             *)

(* No socket is opened or freed.                                           *)
SocketsStay == \A fd \in Fds : sock'[fd] = "free" <=> sock[fd] = "free"

TableStays == UNCHANGED <<child_fd, active_users>> /\ SocketsStay

TableIsLost ==
  child_fd' = NoConnections /\ active_users' = NoSessions /\ sock' = NoSockets

LogStays == UNCHANGED <<users, messages>>

(* A handler's last write sets the sessions, or ends the process.          *)
LEMMA SendEffect ==
  ASSUME NEW W, NEW frame, NEW sessions, NEW at, Send(W, frame, sessions, at)
  PROVE  \/ TableIsLost
         \/ child_fd' = child_fd /\ active_users' = sessions /\ SocketsStay
BY DEF Send, ProcessGone, TableIsLost, AfterWrites, SocketsStay

(* Most steps change none of them, or end the process.                     *)
LEMMA StepKinds ==
  ASSUME IInv, Next
  PROVE  \/ LogStays /\ (TableStays \/ TableIsLost)
         \/ Accept \/ cmdh_close \/ cmdh_logout \/ cmdh_login \/ cmdh_register \/ cmdh_save
<1> DEFINE Quiet == LogStays /\ (TableStays \/ TableIsLost)
<1>1. ASSUME UNCHANGED database,
             Segfault \/ Silent \/ (\E text : Reply(text))
               \/ \E W, frame, at : Send(W, frame, active_users, at)
      PROVE  Quiet
  BY <1>1, SendEffect DEF Segfault, Silent, Reply, ProcessGone, TableIsLost, TableStays, LogStays,
     database
<1>2. CASE Execute
  <2>1. ASSUME cmdh_msg_global \/ cmdh_msg_pm PROVE Quiet
    BY <1>1, <2>1 DEF cmdh_msg_global, cmdh_msg_pm
  <2>2. ASSUME cmdh_get_active_users \/ cmdh_get_global_history \/ cmdh_pm_history PROVE Quiet
    BY <1>1, <2>2 DEF cmdh_get_active_users, cmdh_get_global_history, cmdh_pm_history
  <2>3. ASSUME cmdh_server_health_ping \/ UnnamedCommand \/ InvalidCommand PROVE Quiet
    BY <1>1, <2>3 DEF cmdh_server_health_ping, UnnamedCommand, InvalidCommand
  <2> QED
    BY <1>2, <2>1, <2>2, <2>3 DEF Execute, cmdh_execute_command
<1>3. CASE sdb_setup \/ sdb_execute \/ Select \/ EndPass \/ ss_free
  BY <1>3 DEF sdb_setup, sdb_execute, SetUp, Select, SelectWith, EndPass, ss_free, Gone,
     ProcessGone, database, LogStays, TableStays, TableIsLost, SocketsStay
<1>4. CASE HealthCheck \/ \E fd \in Fds : Capture(fd) \/ CaptureEof(fd)
  <2>1. \A fd \in Fds :
          \/ AfterEof(fd) = sock
          \/ sock[fd] = "aborted" /\ AfterEof(fd) = [sock EXCEPT ![fd] = "reset"]
    BY DEF AfterEof
  <2> QED
    BY <1>4, <2>1 DEF HealthCheck, Capture, CaptureEof, AfterWrites, Gone,
       ProcessGone, database, LogStays, TableStays, TableIsLost, SocketsStay, IInv, TypeOK
<1>5. CASE ssl_block_accept
  BY <1>5 DEF ssl_block_accept, database, LogStays, TableStays, SocketsStay, IInv, TypeOK
<1>6. CASE OperatorQuits \/ Connect \/ Kill \/ Restart
  BY <1>6 DEF OperatorQuits, SelectWith, Connect, Kill, Restart, Gone, ProcessGone,
     process, database, LogStays, TableStays, TableIsLost, SocketsStay
<1>7. CASE \E fd \in Fds : PeerSends(fd) \/ PeerCloses(fd) \/ PeerAborts(fd) \/ RstArrives(fd)
  BY <1>7 DEF PeerSends, PeerCloses, PeerAborts, RstArrives, SocketBecomes, database, LogStays,
     TableStays, SocketsStay, IInv, TypeOK
<1> QED
  BY <1>2, <1>3, <1>4, <1>5, <1>6, <1>7 DEF Next, Loop, Environment

-----------------------------------------------------------------------------
(* The sessions of the descriptors.                                        *)

(* A descriptor is free, or has a slot and the session of that slot; and a *)
(* slot that is filled has a descriptor.                                   *)
SessionsMatch ==
  /\ \A fd \in Fds : sock[fd] = "free" => Session(fd) = NULL
  /\ \A fd \in Fds : sock[fd] # "free" => \E i \in Slots : child_fd[i] = fd
  /\ \A i \in Slots : child_fd[i] # -1 =>
       /\ child_fd[i] \in Fds /\ sock[child_fd[i]] # "free"
       /\ Session(child_fd[i]) = active_users[i]

(* They do in every state.                                                 *)
LEMMA SessionsMatchInv == IInv => SessionsMatch
<1> SUFFICES ASSUME IInv PROVE SessionsMatch
  OBVIOUS
<1>1. ASSUME NEW i \in Slots, child_fd[i] # -1
      PROVE  /\ child_fd[i] \in Fds /\ sock[child_fd[i]] # "free"
             /\ Session(child_fd[i]) = active_users[i]
  <2>1. child_fd[i] \in Fds /\ sock[child_fd[i]] # "free"
    BY <1>1 DEF IInv, TypeOK, TableMatchesSockets
  <2>2. ss_get_fd_loc(child_fd[i]) = i
    BY <1>1, LocOf DEF IInv
  <2> QED
    BY <2>1, <2>2 DEF Session
<1> QED
  BY <1>1 DEF SessionsMatch, Session, IInv, TableMatchesSockets

(* The same after a step.                                                  *)
LEMMA SessionsMatchNext == IInv' => SessionsMatch'
BY SessionsMatchInv, PTL

-----------------------------------------------------------------------------
(* Each kind of step is one of the abstract steps.                         *)

(* Where the table stays, the sessions do.                                 *)
LEMMA SessionsStay ==
  ASSUME TableStays
  PROVE  Sessions' = Sessions
BY DEF TableStays, SocketsStay, Sessions, Session, ss_get_fd_loc, IsFirst

(* Where it is lost, all of them are.                                      *)
LEMMA SessionsAreLost ==
  ASSUME TableIsLost
  PROVE  Sessions' = [fd \in Fds |-> NULL]
BY DEF TableIsLost, NoSockets, Sessions, Session

(* One session changes: that of the connection that is served.             *)
LEMMA OneSessionChanges ==
  ASSUME IInv, pc \in Serving, NEW s,
         child_fd' = child_fd, SocketsStay,
         active_users' = [active_users EXCEPT ![ss_get_fd_loc(cur_fd)] = s]
  PROVE  Sessions' = [Sessions EXCEPT ![cur_fd] = s]
<1> DEFINE loc == ss_get_fd_loc(cur_fd)
<1>1. loc \in Slots /\ child_fd[loc] = cur_fd /\ cur_fd \in Fds
  BY ServedLoc
<1>2. \A fd \in Fds : ss_get_fd_loc(fd)' = ss_get_fd_loc(fd)
  BY DEF ss_get_fd_loc, IsFirst
<1>3. sock[cur_fd] # "free"
  BY <1>1 DEF IInv, TableMatchesSockets
<1>4. \A fd \in Fds \ {cur_fd} : sock[fd] # "free" => ss_get_fd_loc(fd) \in Slots /\ ss_get_fd_loc(fd) # loc
  <2>1. ASSUME NEW i \in Slots, child_fd[i] # -1, child_fd[i] # cur_fd
        PROVE  ss_get_fd_loc(child_fd[i]) = i /\ i # loc
    BY <2>1, <1>1, LocOf DEF IInv
  <2> QED
    BY <2>1, FdFacts DEF IInv, TableMatchesSockets
<1>5. \A fd \in Fds : Session(fd)' = IF fd = cur_fd THEN s ELSE Session(fd)
  BY <1>1, <1>2, <1>3, <1>4 DEF Session, SocketsStay, IInv, TypeOK
<1> QED
  BY <1>5 DEF Sessions

(* Nothing happens, or the server ends.                                    *)
LEMMA QuietStep ==
  ASSUME LogStays, TableStays \/ TableIsLost
  PROVE  Abstract!Next \/ UNCHANGED <<Sessions, users, messages>>
BY SessionsStay, SessionsAreLost DEF LogStays, Sessions, Abstract!Next, Abstract!Outage

(* Who is accepted has no session yet.                                     *)
LEMMA ArriveStep ==
  ASSUME IInv, IInv', Accept
  PROVE  Abstract!Next
<1>1. CASE Gone("crashed")
  <2>1. TableIsLost /\ LogStays
    BY <1>1 DEF Accept, Gone, ProcessGone, TableIsLost, LogStays, database
  <2> QED
    BY <2>1, SessionsAreLost DEF Abstract!Next, Abstract!Outage, Sessions, LogStays
<1>2. ASSUME NEW loc \in Slots, NEW fd \in Fds,
             IsFirst(loc, FreeSlots), IsFirst(fd, {f \in Fds : sock[f] = "free"}),
             child_fd' = ss_add_child_connection(loc, fd),
             sock' = [sock EXCEPT ![fd] = "connecting"],
             UNCHANGED active_users
      PROVE  Abstract!Next
  <2>1. child_fd[loc] = -1 /\ sock[fd] = "free"
    BY <1>2 DEF IsFirst, FreeSlots
  <2>2. \A i \in Slots : child_fd'[i] = IF i = loc THEN fd ELSE child_fd[i]
    BY <1>2 DEF ss_add_child_connection, IInv, TypeOK
  <2>3. \A f \in Fds : sock'[f] = IF f = fd THEN "connecting" ELSE sock[f]
    BY <1>2 DEF IInv, TypeOK
  <2>4. active_users[loc] = NoUser
    BY <2>1 DEF IInv, SessionsFit
  <2>5. Session(fd) = NULL /\ Session(fd)' = NoUser
    <3>1. Session(fd)' = active_users'[loc]
      BY <2>2, FdFacts, SessionsMatchNext DEF SessionsMatch
    <3> QED
      BY <1>2, <2>1, <2>4, <3>1 DEF Session
  <2>6. ASSUME NEW f \in Fds, f # fd PROVE Session(f)' = Session(f)
    <3>1. CASE sock[f] = "free"
      BY <2>3, <2>6, <3>1 DEF Session
    <3>2. CASE sock[f] # "free"
      <4>1. PICK i \in Slots : child_fd[i] = f
        BY <3>2 DEF IInv, TableMatchesSockets
      <4>2. Session(f) = active_users[i]
        BY <4>1, FdFacts, SessionsMatchInv DEF SessionsMatch
      <4>3. child_fd'[i] = f
        BY <2>1, <2>2, <4>1, FdFacts
      <4>4. Session(f)' = active_users'[i]
        BY <4>3, FdFacts, SessionsMatchNext DEF SessionsMatch
      <4> QED
        BY <1>2, <4>2, <4>4
    <3> QED
      BY <3>1, <3>2
  <2>7. Abstract!Arrive(fd)
    BY <2>5, <2>6 DEF Abstract!Arrive, Abstract!Becomes, Accept, database
  <2> QED
    BY <2>7 DEF Abstract!Next
<1> QED
  BY <1>1, <1>2 DEF Accept

(* A connection that is closed is that of a client.                        *)
LEMMA LeaveStep ==
  ASSUME IInv, IInv', cmdh_close
  PROVE  Abstract!Next
<1>1. PICK loc \in Slots, fd \in Fds :
        loc = ss_get_fd_loc(cur_fd) /\ fd = cur_fd /\ child_fd[loc] = fd
  BY ServedLoc DEF cmdh_close, Serving
<1>2. /\ \A i \in Slots : child_fd'[i] = IF i = loc THEN -1 ELSE child_fd[i]
      /\ \A i \in Slots : active_users'[i] = IF i = loc THEN NoUser ELSE active_users[i]
      /\ \A f \in Fds : sock'[f] = IF f = fd THEN "free" ELSE sock[f]
      /\ UNCHANGED database
  BY <1>1 DEF cmdh_close, ss_remove_child_connection, ss_logout_fd, IInv, TypeOK
<1>3. Session(fd) # NULL /\ Session(fd)' = NULL
  <2>1. Session(fd) = active_users[loc]
    BY <1>1, FdFacts, SessionsMatchInv DEF SessionsMatch
  <2>2. active_users[loc] # NULL
    BY <1>1, TypesAssumption DEF IInv, TypeOK
  <2> QED
    BY <1>2, <2>1, <2>2 DEF Session
<1>4. ASSUME NEW f \in Fds, f # fd PROVE Session(f)' = Session(f)
  <2>1. CASE sock[f] = "free"
    BY <1>2, <1>4, <2>1 DEF Session
  <2>2. CASE sock[f] # "free"
    <3>1. PICK i \in Slots : child_fd[i] = f
      BY <2>2 DEF IInv, TableMatchesSockets
    <3>2. Session(f) = active_users[i]
      BY <3>1, FdFacts, SessionsMatchInv DEF SessionsMatch
    <3>3. i # loc /\ child_fd'[i] = f
      BY <1>1, <1>2, <1>4, <3>1
    <3>4. Session(f)' = active_users'[i]
      BY <3>3, FdFacts, SessionsMatchNext DEF SessionsMatch
    <3> QED
      BY <1>2, <3>2, <3>3, <3>4
  <2> QED
    BY <2>1, <2>2
<1>5. Abstract!Leave(fd)
  BY <1>2, <1>3, <1>4 DEF Abstract!Leave, Abstract!Becomes, database
<1> QED
  BY <1>5 DEF Abstract!Next

(* What a handler knows of the connection it serves.                       *)
LEMMA ServedSession ==
  ASSUME IInv, pc \in Serving
  PROVE  /\ cur_fd \in Fds
         /\ Sessions[cur_fd] = active_users[ss_get_fd_loc(cur_fd)]
         /\ Sessions[cur_fd] \in Names \cup {NoUser}
         /\ Sessions[cur_fd] # NULL
<1>1. PICK loc \in Slots :
        loc = ss_get_fd_loc(cur_fd) /\ child_fd[loc] = cur_fd /\ cur_fd \in Fds
  BY ServedLoc
<1>2. Session(cur_fd) = active_users[loc]
  BY <1>1, FdFacts, SessionsMatchInv DEF SessionsMatch
<1> QED
  BY <1>1, <1>2, TypesAssumption DEF Sessions, IInv, TypeOK

(* A reply and nothing else.                                               *)
LEMMA AnswerQuiet ==
  ASSUME NEW text, Reply(text) \/ Silent
  PROVE  TableStays \/ TableIsLost
BY SendEffect DEF Reply, Silent, TableStays

(* Who is logged out was logged in.                                        *)
LEMMA SignOutStep ==
  ASSUME IInv, cmdh_logout
  PROVE  Abstract!Next \/ UNCHANGED <<Sessions, users, messages>>
<1> pc \in Serving /\ LogStays
  BY DEF cmdh_logout, Executes, Serving, database, LogStays
<1>1. CASE \E text : Reply(text)
  BY <1>1, AnswerQuiet, QuietStep
<1>2. ASSUME NEW frame, ~ NotLoggedIn,
             Send({cur_fd}, frame, ss_logout_fd(cur_fd), "pass")
      PROVE  Abstract!Next
  <2>1. CASE TableIsLost
    BY <2>1, SessionsAreLost DEF Abstract!Next, Abstract!Outage, Sessions, LogStays
  <2>2. CASE child_fd' = child_fd /\ active_users' = ss_logout_fd(cur_fd) /\ SocketsStay
    <3>1. Sessions' = [Sessions EXCEPT ![cur_fd] = NoUser]
      BY <2>2, OneSessionChanges DEF ss_logout_fd
    <3>2. cur_fd \in Fds /\ Sessions[cur_fd] \in Names
      BY <1>2, ServedSession DEF NotLoggedIn, ss_is_fd_logged_in
    <3>3. Abstract!SignOut(cur_fd)
      BY <3>1, <3>2 DEF Abstract!SignOut, Abstract!Becomes, Sessions, LogStays
    <3> QED
      BY <3>2, <3>3 DEF Abstract!Next
  <2> QED
    BY <1>2, <2>1, <2>2, SendEffect
<1> QED
  BY <1>1, <1>2 DEF cmdh_logout

(* Who is logged in has an account and is logged in nowhere else.          *)
LEMMA SignInStep ==
  ASSUME IInv, cmdh_login
  PROVE  Abstract!Next \/ UNCHANGED <<Sessions, users, messages>>
<1> pc \in Serving /\ LogStays /\ message # NULL
  BY DEF cmdh_login, Executes, Serving, database, LogStays, IInv, PlaceKnows
<1>1. CASE Silent \/ \E text : Reply(text)
  BY <1>1, AnswerQuiet, QuietStep
<1>2. ASSUME NEW frame, ~ ss_is_user_logged_in(message.name),
             su_validate_login(message.name, message.word) = "ok",
             Send({cur_fd}, frame, ss_login_fd(cur_fd, message.name), "pass")
      PROVE  Abstract!Next
  <2>1. CASE TableIsLost
    BY <2>1, SessionsAreLost DEF Abstract!Next, Abstract!Outage, Sessions, LogStays
  <2>2. CASE child_fd' = child_fd /\ active_users' = ss_login_fd(cur_fd, message.name) /\ SocketsStay
    <3> DEFINE n == message.name
    <3>1. Sessions' = [Sessions EXCEPT ![cur_fd] = n]
      BY <2>2, OneSessionChanges DEF ss_login_fd
    <3>2. cur_fd \in Fds /\ Sessions[cur_fd] # NULL
      BY ServedSession
    <3>3. n \in Names /\ n # NULL
      BY MessageTypes, TypesAssumption DEF IInv
    <3>4. users[n] # NoPassword
      BY <1>2 DEF su_validate_login, su_has_user
    <3>5. \A fd \in Fds : Sessions[fd] # n
      BY <1>2, <3>3, SessionsMatchInv, FdFacts DEF SessionsMatch, Sessions, ss_is_user_logged_in
    <3> HIDE DEF n
    <3>6. Abstract!SignIn(cur_fd, n)
      BY <3>1, <3>2, <3>4, <3>5 DEF Abstract!SignIn, Abstract!Becomes, Sessions, LogStays
    <3> QED
      BY <3>2, <3>3, <3>6 DEF Abstract!Next
  <2> QED
    BY <1>2, <2>1, <2>2, SendEffect
<1> QED
  BY <1>1, <1>2 DEF cmdh_login

(* Whoever signs up is new, and somebody is there who does.                *)
LEMMA SignUpStep ==
  ASSUME IInv, cmdh_register
  PROVE  Abstract!Next \/ UNCHANGED <<Sessions, users, messages>>
<1> pc \in Serving /\ message # NULL /\ messages' = messages
  BY DEF cmdh_register, Executes, Serving
<1>1. CASE UNCHANGED users /\ \E text : Reply(text)
  BY <1>1, AnswerQuiet, QuietStep DEF LogStays
<1>2. ASSUME NEW outcome, NEW frame, NEW at,
             su_can_register(message.name, message.word) = "ok",
             users' = su_insert(message.name, message.word, outcome),
             Send({cur_fd}, frame, active_users, at)
      PROVE  Abstract!Next \/ UNCHANGED <<Sessions, users, messages>>
  <2>1. TableStays \/ TableIsLost
    BY <1>2, SendEffect DEF TableStays
  <2>2. CASE outcome # "done"
    BY <1>2, <2>1, <2>2, QuietStep DEF su_insert, LogStays
  <2>3. CASE outcome = "done"
    <3>1. Abstract!SignUp(message.name, message.word)
      <4>1. users[message.name] = NoPassword
        BY <1>2 DEF su_can_register, su_has_user
      <4>2. users' = [users EXCEPT ![message.name] = message.word]
        BY <1>2, <2>3 DEF su_insert
      <4>3. cur_fd \in Fds /\ Sessions[cur_fd] # NULL
        BY ServedSession
      <4>4. Sessions' = Sessions \/ Sessions' = [fd \in Fds |-> NULL]
        BY <2>1, SessionsStay, SessionsAreLost
      <4> QED
        BY <4>1, <4>2, <4>3, <4>4 DEF Abstract!SignUp, Sessions
    <3>2. message.name \in Names /\ message.word \in Words
      BY MessageTypes DEF IInv
    <3> QED
      BY <3>1, <3>2 DEF Abstract!Next
  <2> QED
    BY <2>2, <2>3
<1> QED
  BY <1>1, <1>2 DEF cmdh_register, Reply

(* A private message that is about to be saved is for somebody who is      *)
(* logged in.                                                              *)
AddresseeIsThere ==
  pc = "save" /\ message.route = "DM" => ss_is_user_logged_in(message.name)

(* Nobody logs out between the two halves of cmdh_msg_pm.                  *)
LEMMA AddresseeInv == IInv /\ AddresseeIsThere /\ [Next]_vars => AddresseeIsThere'
<1> SUFFICES ASSUME IInv, AddresseeIsThere, [Next]_vars, pc' = "save", message'.route = "DM"
             PROVE  ss_is_user_logged_in(message.name)'
  BY DEF AddresseeIsThere
<1>1. CASE UNCHANGED <<pc, active_users, message>>
  BY <1>1 DEF AddresseeIsThere, ss_is_user_logged_in
<1>2. CASE cmdh_msg_global
  <2>1. message' = message
    BY <1>2 DEF cmdh_msg_global, Reply, Silent, Segfault, Send, Continue, ProcessGone
  <2> QED
    BY <1>2, <2>1 DEF cmdh_msg_global, Executes
<1>3. CASE cmdh_msg_pm
  <2>1. ss_is_user_logged_in(message.name) /\ UNCHANGED <<active_users, message>>
    BY <1>3 DEF cmdh_msg_pm, Reply, Segfault, Send, Continue, ProcessGone
  <2> QED
    BY <2>1 DEF ss_is_user_logged_in
<1>4. CASE UNCHANGED vars
  BY <1>1, <1>4 DEF vars, process
<1> QED
  BY <1>1, <1>2, <1>3, <1>4, HalfDone

(* What is said is said by the session of the connection, to everyone or   *)
(* to somebody else who has a session.                                     *)
LEMMA SayStep ==
  ASSUME IInv, SaveIsForAnother, AddresseeIsThere, cmdh_save
  PROVE  Abstract!Next \/ UNCHANGED <<Sessions, users, messages>>
<1> DEFINE to == IF message.route = "DM" THEN message.name ELSE Everyone
           author == ss_get_username(cur_fd)
           row == Row(author, to, message.word)
<1>1. pc \in Serving /\ pc = "save" /\ message # NULL /\ author \in Names
  BY DEF cmdh_save, Serving, IInv, PlaceKnows
<1>2. message.name \in Names /\ message.name # NoUser /\ message.word \in Words
  BY <1>1, MessageTypes, TypesAssumption DEF IInv
<1>3. cur_fd \in Fds /\ Sessions[cur_fd] = author
  BY <1>1, ServedSession, TypesAssumption DEF ss_get_username
<1>4. PICK inserted \in sm_insert_outcomes : messages' = sm_save_message(row, inserted)
  BY DEF cmdh_save
<1>5. users' = users
  BY DEF cmdh_save
<1>6. Sessions' = Sessions
  <2>1. Broken({}) = {}
    BY DEF Broken
  <2>2. TableStays
    BY <2>1 DEF cmdh_save, Silent, Send, TableStays, SocketsStay, AfterWrites
  <2> QED
    BY <2>2, SessionsStay
<1>7. CASE messages' = Append(messages, row)
  <2>1. ASSUME to # Everyone PROVE \E fd \in Fds \ {cur_fd} : Sessions[fd] = to
    <3>1. to = message.name /\ message.name # author
      BY <1>1, <2>1 DEF SaveIsForAnother
    <3>2. PICK i \in Slots : active_users[i] = message.name
      BY <1>1, <2>1 DEF AddresseeIsThere, ss_is_user_logged_in
    <3>3. child_fd[i] \in Fds /\ Sessions[child_fd[i]] = message.name
      BY <1>2, <3>2, SessionsMatchInv DEF IInv, SessionsFit, SessionsMatch, Sessions
    <3> QED
      BY <1>3, <3>1, <3>3
  <2>2. to \in Names \cup {Everyone}
    BY <1>2
  <2>3. row = [from |-> Sessions[cur_fd], to |-> to, text |-> message.word]
    BY <1>3 DEF Row
  <2> HIDE DEF row, to
  <2>4. Abstract!Say(cur_fd, to, message.word)
    BY <1>1, <1>3, <1>5, <1>6, <1>7, <2>1, <2>3 DEF Abstract!Say, Sessions
  <2> QED
    BY <1>2, <1>3, <2>2, <2>4 DEF Abstract!Next
<1>8. CASE messages' = messages
  BY <1>5, <1>6, <1>8
<1> QED
  BY <1>4, <1>7, <1>8 DEF sm_save_message

-----------------------------------------------------------------------------
(* The refinement.                                                         *)

(* At first nobody has a session, an account or said anything.             *)
LEMMA InitMaps == Init => Abstract!Init
BY DEF Init, Abstract!Init, Session, NoSockets

(* Every step is one of the specification, or none.                        *)
LEMMA NextMaps ==
  ASSUME IInv, IInv', SaveIsForAnother, AddresseeIsThere, [Next]_vars
  PROVE  [Abstract!Next]_<<Sessions, users, messages>>
<1>1. CASE Next
  BY <1>1, StepKinds, QuietStep, ArriveStep, LeaveStep, SignOutStep, SignInStep, SignUpStep,
     SayStep
<1>2. CASE UNCHANGED vars
  BY <1>2, QuietStep DEF vars, process, database, LogStays, TableStays, SocketsStay
<1> QED
  BY <1>1, <1>2

(* Every behaviour of the server, with its sockets, slots and half done    *)
(* handlers, its kills and restarts, is one of the specification of its    *)
(* sessions: nobody talks under a name he is not signed in with, or with   *)
(* an account that does not exist, and the log and the accounts survive    *)
(* whatever ends the sessions.                                             *)
THEOREM Refinement == Spec => ImplementsSessions
<1>1. Init => SaveIsForAnother /\ AddresseeIsThere
  BY DEF Init, SaveIsForAnother, AddresseeIsThere
<1>2. IInv /\ SaveIsForAnother /\ AddresseeIsThere /\ [Next]_vars
        => (SaveIsForAnother /\ AddresseeIsThere)'
  BY SaveInv, AddresseeInv
<1>3. IInv /\ IInv' /\ SaveIsForAnother /\ AddresseeIsThere /\ [Next]_vars
        => [Abstract!Next]_<<[fd \in Fds |-> Session(fd)], users, messages>>
  BY NextMaps DEF Sessions
<1> QED
  BY <1>1, <1>2, <1>3, InitMaps, Invariance, PTL DEF Spec, ImplementsSessions, Abstract!Spec

-----------------------------------------------------------------------------
(* Who is logged in, and by which message.                                 *)

(* Only a login gives a connection a user, and the user it asks for.       *)
LEMMA SessionChanges ==
  ASSUME IInv, Next, NEW i \in Slots, active_users'[i] # NoUser
  PROVE  /\ child_fd'[i] = child_fd[i]
         /\ \/ active_users'[i] = active_users[i]
            \/ cmdh_login /\ child_fd[i] = cur_fd /\ active_users'[i] = message.name
<1> DEFINE Kept == child_fd'[i] = child_fd[i] /\ active_users'[i] = active_users[i]
<1>1. ASSUME TableIsLost PROVE FALSE
  BY <1>1 DEF TableIsLost, NoSessions
<1>2. CASE TableStays
  BY <1>2 DEF TableStays
<1>3. CASE Accept
  <2>1. ~ Gone("crashed")
    BY <1>1 DEF Gone, ProcessGone, TableIsLost
  <2>2. PICK loc \in Slots, fd \in Fds :
          IsFirst(loc, FreeSlots) /\ child_fd' = ss_add_child_connection(loc, fd)
          /\ active_users' = active_users
    BY <1>3, <2>1 DEF Accept
  <2>3. child_fd[loc] = -1
    BY <2>2 DEF IsFirst, FreeSlots
  <2>4. active_users[loc] = NoUser
    BY <2>3 DEF IInv, SessionsFit
  <2> QED
    BY <2>2, <2>4 DEF ss_add_child_connection, IInv, TypeOK
<1>4. CASE cmdh_close
  <2>1. ss_get_fd_loc(cur_fd) \in Slots
    BY <1>4, ServedLoc DEF cmdh_close, Serving
  <2> QED
    BY <1>4, <2>1 DEF cmdh_close, ss_remove_child_connection, ss_logout_fd, IInv, TypeOK
<1>5. CASE cmdh_logout
  <2>1. ss_get_fd_loc(cur_fd) \in Slots
    BY <1>5, ServedLoc DEF cmdh_logout, Executes, Serving
  <2>2. ASSUME NEW W, NEW frame, NEW at, NEW sessions \in {active_users, ss_logout_fd(cur_fd)},
               Send(W, frame, sessions, at)
        PROVE  Kept
    BY <1>1, <2>1, <2>2, SendEffect DEF ss_logout_fd, IInv, TypeOK
  <2> QED
    BY <1>5, <2>2 DEF cmdh_logout, Reply
<1>6. CASE cmdh_login
  <2>1. ss_get_fd_loc(cur_fd) \in Slots /\ child_fd[ss_get_fd_loc(cur_fd)] = cur_fd
    BY <1>6, ServedLoc DEF cmdh_login, Executes, Serving
  <2>2. ASSUME NEW W, NEW frame, NEW at, Send(W, frame, active_users, at)
        PROVE  Kept
    BY <1>1, <2>2, SendEffect
  <2>3. ASSUME NEW frame, Send({cur_fd}, frame, ss_login_fd(cur_fd, message.name), "pass")
        PROVE  /\ child_fd'[i] = child_fd[i]
               /\ \/ active_users'[i] = active_users[i]
                  \/ child_fd[i] = cur_fd /\ active_users'[i] = message.name
    <3>1. child_fd' = child_fd /\ active_users' = ss_login_fd(cur_fd, message.name)
      BY <1>1, <2>3, SendEffect
    <3> QED
      BY <2>1, <3>1 DEF ss_login_fd, IInv, TypeOK
  <2> QED
    BY <1>6, <2>2, <2>3 DEF cmdh_login, Reply, Silent
<1>7. CASE cmdh_register \/ cmdh_save
  <2>1. ASSUME NEW W, NEW frame, NEW at, Send(W, frame, active_users, at)
        PROVE  Kept
    BY <1>1, <2>1, SendEffect
  <2> QED
    BY <1>7, <2>1 DEF cmdh_register, cmdh_save, Reply, Silent
<1> QED
  BY <1>1, <1>2, <1>3, <1>4, <1>5, <1>6, <1>7, StepKinds

(* A handler leaves the message in hand only where it has a second half.   *)
LEMMA ExecuteEnds ==
  ASSUME Execute
  PROVE  pc' \notin {"health", "execute"}
<1>1. ASSUME NEW W, NEW frame, NEW sessions, NEW at \in {"pass", "chain", "save"},
             Send(W, frame, sessions, at)
      PROVE  pc' \notin {"health", "execute"}
  BY <1>1 DEF Send, Continue, ProcessGone
<1>2. ASSUME Segfault \/ Silent \/ \E text : Reply(text)
      PROVE  pc' \notin {"health", "execute"}
  BY <1>1, <1>2 DEF Segfault, ProcessGone, Silent, Reply
<1>3. ASSUME cmdh_msg_global \/ cmdh_msg_pm PROVE pc' \notin {"health", "execute"}
  BY <1>1, <1>2, <1>3 DEF cmdh_msg_global, cmdh_msg_pm
<1>4. ASSUME cmdh_save \/ cmdh_register \/ cmdh_login PROVE pc' \notin {"health", "execute"}
  BY <1>1, <1>2, <1>4 DEF cmdh_save, cmdh_register, cmdh_login
<1>5. ASSUME cmdh_close \/ cmdh_logout \/ cmdh_get_active_users PROVE pc' \notin {"health", "execute"}
  BY <1>1, <1>2, <1>5 DEF cmdh_close, Continue, cmdh_logout, cmdh_get_active_users
<1>6. ASSUME cmdh_get_global_history \/ cmdh_pm_history PROVE pc' \notin {"health", "execute"}
  BY <1>1, <1>2, <1>6 DEF cmdh_get_global_history, cmdh_pm_history
<1>7. ASSUME cmdh_server_health_ping \/ UnnamedCommand \/ InvalidCommand
      PROVE  pc' \notin {"health", "execute"}
  BY <1>2, <1>7 DEF cmdh_server_health_ping, UnnamedCommand, InvalidCommand
<1> QED
  BY <1>3, <1>4, <1>5, <1>6, <1>7 DEF Execute, cmdh_execute_command

(* The message in hand was read in this step, or was in hand before.       *)
LEMMA HandChanges ==
  ASSUME IInv, EofReads = {-1}, Next, pc' \in Serving, message' # NULL
  PROVE  \/ \E fd \in Fds : Capture(fd)
         \/ /\ pc \in Serving /\ message' = message /\ cur_fd' = cur_fd
            /\ pc' = "chain" => pc = "chain" \/ Executes("REGISTER")
<1>1. CASE pc' \in {"chain", "save"}
  <2>1. CASE cmdh_register \/ cmdh_msg_global \/ cmdh_msg_pm
    <3>1. ASSUME NEW W, NEW frame, NEW sessions, NEW at, Send(W, frame, sessions, at)
          PROVE  message' = message /\ cur_fd' = cur_fd
      BY <1>1, <3>1 DEF Send, Continue, ProcessGone
    <3>2. message' = message /\ cur_fd' = cur_fd
      BY <1>1, <2>1, <3>1 DEF cmdh_register, cmdh_msg_global, cmdh_msg_pm, Reply, Silent, Segfault,
         ProcessGone
    <3>3. pc = "execute" /\ (cmdh_register => Executes("REGISTER"))
      BY <2>1 DEF cmdh_register, cmdh_msg_global, cmdh_msg_pm, Executes
    <3> QED
      BY <2>1, <3>2, <3>3, HalfDone, <1>1 DEF Serving
  <2> QED
    BY <1>1, <2>1, HalfDone DEF Serving
<1>2. CASE pc' \in {"health", "execute"}
  <2>1. ~ Execute
    BY <1>2, ExecuteEnds
  <2>2. CASE HealthCheck
    BY <1>2, <2>2 DEF HealthCheck, Gone, ProcessGone, Serving
  <2>3. CASE \E fd \in Fds : CaptureEof(fd)
    BY <2>3 DEF CaptureEof
  <2>4. CASE Environment
    BY <1>2, <2>4 DEF Environment, OperatorQuits, SelectWith, Connect, Kill, Restart, Gone,
       ProcessGone, PeerSends, PeerCloses, PeerAborts, RstArrives, SocketBecomes, process, Serving
  <2>5. CASE sdb_setup \/ sdb_execute \/ Select \/ Accept \/ EndPass \/ ss_free \/ ssl_block_accept
    BY <1>2, <2>5 DEF sdb_setup, sdb_execute, SetUp, Select, SelectWith, Accept, EndPass, ss_free,
       Gone, ProcessGone, ssl_block_accept
  <2> QED
    BY <2>1, <2>2, <2>3, <2>4, <2>5 DEF Next, Loop
<1> QED
  BY <1>1, <1>2 DEF Serving

-----------------------------------------------------------------------------
(* Who is given a message.                                                 *)


(* Who should have the message that is about to be saved.                  *)
Addressees ==
  {fd \in ss_get_active_connections \ {cur_fd} :
     LET user == active_users[ss_get_fd_loc(fd)]
     IN  IF message.route = "DM" THEN user = message.name ELSE user # NoUser}

Got == {o.to : o \in out}

(* They depend on the table and the message only.                          *)
LEMMA AddresseesKept ==
  ASSUME UNCHANGED <<child_fd, active_users, cur_fd, message>>
  PROVE  Addressees' = Addressees
BY DEF Addressees, ss_get_active_connections, ss_get_fd_loc, IsFirst

(* A send to W that the process survives reaches all of W that is open.    *)
LEMMA SendDelivers ==
  ASSUME TypeOK, NEW W \in SUBSET Fds, NEW frame,
         Send(W, frame, active_users, "save"), pc' = "save"
  PROVE  /\ UNCHANGED <<child_fd, active_users, cur_fd, message>>
         /\ Got' \subseteq W
         /\ \A fd \in W : sock'[fd] = "open" => fd \in Got'
<1>1. Broken(W) = {}
  BY DEF Send, ProcessGone
<1>2. /\ UNCHANGED <<child_fd, active_users, cur_fd, message>>
      /\ out' = Frames(W, frame) /\ sock' = AfterWrites(W)
  BY <1>1 DEF Send, Continue
<1>3. Got' = Written(W)
  <2> DEFINE Handed == Written(W)
  <2>1. out' = {[to |-> fd, frame |-> frame] : fd \in Handed}
    BY <1>2 DEF Frames
  <2> HIDE DEF Handed
  <2>2. \A o \in out' : o.to \in Handed
    BY <2>1
  <2>3. ASSUME NEW fd \in Handed PROVE \E o \in out' : o.to = fd
    <3>1. [to |-> fd, frame |-> frame] \in out'
      BY <2>1
    <3> QED
      BY <3>1
  <2>4. Got' = Handed
    BY <2>2, <2>3 DEF Got
  <2> QED
    BY <2>4 DEF Handed
<1>4. \A fd \in W : sock'[fd] = "open" => fd \in Written(W)
  BY <1>1, <1>2 DEF AfterWrites, Written, ssl_block_write
<1> QED
  BY <1>2, <1>3, <1>4 DEF Written

(* Between the halves of a handler peers may leave, but none arrives.      *)
LEMMA WhileHalfDone ==
  ASSUME TypeOK, Next, pc = "save", pc' = "save"
  PROVE  /\ UNCHANGED <<child_fd, active_users, cur_fd, message, out>>
         /\ \A fd \in Fds : sock'[fd] = "open" => sock[fd] = "open"
<1>1. CASE \E fd \in Fds : PeerSends(fd) \/ PeerCloses(fd) \/ PeerAborts(fd) \/ RstArrives(fd)
  BY <1>1 DEF PeerSends, PeerCloses, PeerAborts, RstArrives, SocketBecomes, TypeOK
<1>2. CASE Connect
  BY <1>2 DEF Connect, process
<1>3. CASE OperatorQuits \/ Kill \/ Restart \/ ssl_block_accept
  BY <1>3 DEF OperatorQuits, SelectWith, Kill, Gone, ProcessGone, Restart, ssl_block_accept
<1>4. CASE Loop /\ ~ Execute
  BY <1>4 DEF Loop, sdb_setup, sdb_execute, Select, SelectWith, Accept, HealthCheck, EndPass,
     ss_free, Capture, CaptureEof, IsNext
<1>5. CASE Execute
  <2>1. cmdh_save
    BY <1>5 DEF Execute, cmdh_execute_command, cmdh_msg_global, cmdh_msg_pm, cmdh_register,
       cmdh_login, cmdh_close, cmdh_logout, cmdh_get_active_users, cmdh_get_global_history,
       cmdh_pm_history, cmdh_server_health_ping, UnnamedCommand, InvalidCommand, Executes
  <2> QED
    BY <2>1 DEF cmdh_save, Silent, Send, Continue, ProcessGone
<1> QED
  BY <1>1, <1>2, <1>3, <1>4, <1>5 DEF Next, Environment

(* A broadcast goes to all the others.                                     *)
LEMMA GlobalReachesAll ==
  ASSUME TypeOK, message.route = "GLOBAL"
  PROVE  sm_recipients(cur_fd) = Addressees
BY FdFacts DEF TypeOK, sm_recipients, ss_get_active_connections, ss_is_fd_logged_in, Addressees

(* A private message goes to the one connection of its addressee.          *)
LEMMA PmReachesOne ==
  ASSUME IInv, message # NULL, message.route = "DM", ss_is_user_logged_in(message.name),
         ~ CannotReceive(ss_get_fd_from_username(message.name))
  PROVE  {ss_get_fd_from_username(message.name)} = Addressees
<1> DEFINE S == {j \in Slots : active_users[j] = message.name}
<1>1. message.name # NoUser
  BY MessageTypes, TypesAssumption DEF IInv
<1>2. PICK i \in Slots : active_users[i] = message.name
  BY DEF ss_is_user_logged_in
<1>3. \A j \in S : j = i
  BY <1>1, <1>2 DEF IInv, SessionsFit
<1>4. \A j \in Slots : IsFirst(j, S) <=> j = i
  BY <1>2, <1>3, FdFacts DEF IsFirst
<1>5. ss_get_fd_from_username(message.name) = child_fd[i]
  BY <1>4 DEF ss_get_fd_from_username
<1>6. child_fd[i] # -1 /\ child_fd[i] # cur_fd
  BY <1>5 DEF CannotReceive
<1>7. \A j \in Slots : child_fd[j] # -1 => ss_get_fd_loc(child_fd[j]) = j
  BY LocOf DEF IInv
<1>8. \A fd \in ss_get_active_connections :
        active_users[ss_get_fd_loc(fd)] = message.name <=> fd = child_fd[i]
  BY <1>2, <1>3, <1>6, <1>7 DEF ss_get_active_connections
<1> QED
  BY <1>5, <1>6, <1>8, <1>2 DEF Addressees, ss_get_active_connections

(* Each way into the second half, and what happens there.                  *)
LEMMA DeliveryInv == IInv /\ DeliveredBeforeSaved /\ [Next]_vars => DeliveredBeforeSaved'
<1> DEFINE Reached == Got \subseteq Addressees
                      /\ \A fd \in Addressees : sock[fd] = "open" => fd \in Got
<1>0. DeliveredBeforeSaved <=> (pc = "save" => Reached)
  BY DEF DeliveredBeforeSaved, Addressees, Got
<1> SUFFICES ASSUME IInv, pc = "save" => Reached, [Next]_vars, pc' = "save"
             PROVE  Reached'
  BY <1>0 DEF DeliveredBeforeSaved, Addressees, Got
<1>1. Addressees \subseteq Fds
  BY DEF Addressees, ss_get_active_connections, IInv, TypeOK
<1>2. ASSUME NEW frame, Send(Addressees, frame, active_users, "save") PROVE Reached'
  BY <1>1, <1>2, SendDelivers, AddresseesKept DEF IInv
<1>3. ASSUME NEW text, Reply(text) \/ Silent \/ Segfault PROVE FALSE
  BY <1>3 DEF Reply, Silent, Segfault, Send, Continue, ProcessGone
<1>4. CASE cmdh_msg_global
  BY <1>2, <1>3, <1>4, GlobalReachesAll DEF cmdh_msg_global, Executes, IInv
<1>5. CASE cmdh_msg_pm
  BY <1>2, <1>3, <1>5, PmReachesOne DEF cmdh_msg_pm, Executes
<1>6. CASE pc = "save" /\ Next
  BY <1>1, <1>6, WhileHalfDone, AddresseesKept DEF IInv, Got
<1>7. CASE UNCHANGED vars
  BY <1>7, AddresseesKept DEF vars, process, Got
<1> QED
  BY <1>4, <1>5, <1>6, <1>7, HalfDone

(* What is about to be saved is delivered to every connection it is for    *)
(* that is still there, and to no other (cmdh_msg_global, cmdh_msg_pm).    *)
THEOREM Delivery == Spec => []DeliveredBeforeSaved
<1>1. Init => DeliveredBeforeSaved
  BY DEF Init, DeliveredBeforeSaved
<1> QED
  BY <1>1, DeliveryInv, Invariance, PTL DEF Spec

-----------------------------------------------------------------------------
(* Who may read what.                                                      *)

(* What is handed to a connection is a frame of rows.                      *)
FramesFit == \A o \in out : o.frame.rows \in Seq(Rows)

(* A history is made of rows of the log, each of which the query asks for. *)
LEMMA HistoryRows ==
  ASSUME messages \in Seq(Rows), NEW ids \in SUBSET (1 .. Len(messages)), NEW n \in Int
  PROVE  /\ RowsAt(LastOf(ids, n)) \in Seq(Rows)
         /\ \A k \in 1 .. Len(RowsAt(LastOf(ids, n))) :
              \E i \in ids : RowsAt(LastOf(ids, n))[k] = messages[i]
<1> DEFINE last == LastOf(ids, n)
           at == InOrder(last)
<1>1. last \subseteq ids
  BY DEF LastOf
<1> HIDE DEF last
<1>2. last \in SUBSET (1 .. Len(messages)) /\ Len(messages) \in Nat
  BY <1>1
<1>3. /\ Cardinality(last) \in Nat
      /\ \E f \in [1 .. Cardinality(last) -> last] : Increasing(f)
  BY <1>2, InOrderExists
<1>4. at \in [1 .. Cardinality(last) -> last]
  BY <1>3 DEF InOrder, Increasing
<1> HIDE DEF at
<1>5. RowsAt(last) = [k \in 1 .. Cardinality(last) |-> messages[at[k]]]
  BY DEF RowsAt, at
<1>6. \A k \in 1 .. Cardinality(last) : at[k] \in ids /\ messages[at[k]] \in Rows
  <2>1. \A i \in last : i \in ids /\ messages[i] \in Rows
    BY <1>1, <1>2
  <2> QED
    BY <1>4, <2>1
<1>7. RowsAt(last) \in Seq(Rows) /\ Len(RowsAt(last)) = Cardinality(last)
  BY <1>3, <1>5, <1>6
<1> QED
  BY <1>5, <1>6, <1>7 DEF last

(* The global history has no private messages.                             *)
LEMMA GlobalHistoryRows ==
  ASSUME messages \in Seq(Rows), NEW n \in Int
  PROVE  /\ global_history(n) \in Seq(Rows)
         /\ \A k \in 1 .. Len(global_history(n)) : ~ IsDm(global_history(n)[k])
<1> DEFINE ids == {k \in 1 .. Len(messages) : ~ IsDm(messages[k])}
<1>1. ids \in SUBSET (1 .. Len(messages)) /\ \A i \in ids : ~ IsDm(messages[i])
  OBVIOUS
<1>2. global_history(n) = RowsAt(LastOf(ids, n))
  BY DEF global_history
<1> HIDE DEF ids
<1>3. /\ global_history(n) \in Seq(Rows)
      /\ \A k \in 1 .. Len(global_history(n)) : \E i \in ids : global_history(n)[k] = messages[i]
  <2>1. /\ RowsAt(LastOf(ids, n)) \in Seq(Rows)
        /\ \A k \in 1 .. Len(RowsAt(LastOf(ids, n))) :
             \E i \in ids : RowsAt(LastOf(ids, n))[k] = messages[i]
    BY <1>1, HistoryRows
  <2> QED
    BY <1>2, <2>1
<1>4. ASSUME NEW k \in 1 .. Len(global_history(n)) PROVE ~ IsDm(global_history(n)[k])
  <2>1. PICK i \in ids : global_history(n)[k] = messages[i]
    BY <1>3, <1>4
  <2>2. IsDm(messages[i]) <=> IsDm(global_history(n)[k])
    BY <2>1 DEF IsDm
  <2> QED
    BY <1>1, <2>1, <2>2
<1> QED
  BY <1>3, <1>4

(* A private history has those between its two users, in both directions   *)
(* and, as there are none of somebody to himself, in no other.             *)
LEMMA PmHistoryRows ==
  ASSUME messages \in Seq(Rows), NoSelfDm, NEW u, NEW v, NEW n \in Int
  PROVE  /\ pm_history(u, v, n) \in Seq(Rows)
         /\ \A k \in 1 .. Len(pm_history(u, v, n)) :
              /\ IsDm(pm_history(u, v, n)[k])
              /\ u \in {pm_history(u, v, n)[k].from, pm_history(u, v, n)[k].to}
<1> DEFINE ids == {k \in 1 .. Len(messages) : /\ IsDm(messages[k])
                                              /\ messages[k].from \in {u, v}
                                              /\ messages[k].to \in {u, v}}
<1>1. ids \in SUBSET (1 .. Len(messages))
  OBVIOUS
<1>2. \A i \in ids : IsDm(messages[i]) /\ u \in {messages[i].from, messages[i].to}
  BY DEF NoSelfDm
<1>3. pm_history(u, v, n) = RowsAt(LastOf(ids, n))
  BY DEF pm_history
<1> HIDE DEF ids
<1>4. /\ pm_history(u, v, n) \in Seq(Rows)
      /\ \A k \in 1 .. Len(pm_history(u, v, n)) : \E i \in ids : pm_history(u, v, n)[k] = messages[i]
  <2>1. /\ RowsAt(LastOf(ids, n)) \in Seq(Rows)
        /\ \A k \in 1 .. Len(RowsAt(LastOf(ids, n))) :
             \E i \in ids : RowsAt(LastOf(ids, n))[k] = messages[i]
    BY <1>1, HistoryRows
  <2> QED
    BY <1>3, <2>1
<1>5. ASSUME NEW k \in 1 .. Len(pm_history(u, v, n))
      PROVE  /\ IsDm(pm_history(u, v, n)[k])
             /\ u \in {pm_history(u, v, n)[k].from, pm_history(u, v, n)[k].to}
  <2>1. PICK i \in ids : pm_history(u, v, n)[k] = messages[i]
    BY <1>4, <1>5
  <2>2. IsDm(messages[i]) <=> IsDm(pm_history(u, v, n)[k])
    BY <2>1 DEF IsDm
  <2> QED
    BY <1>2, <2>1, <2>2
<1> QED
  BY <1>4, <1>5

(* Who may read a private message: its author and its addressee.           *)
MayRead(fd, row) ==
  \E i \in Slots : child_fd[i] = fd /\ active_users[i] \in {row.from, row.to}

(* A send of what nobody must not read.                                    *)
LEMMA SendIsPrivate ==
  ASSUME NEW W, NEW kind, NEW rows \in Seq(Rows), NEW sessions, NEW at,
         Send(W, Frame(kind, rows), sessions, at),
         \/ \A k \in 1 .. Len(rows) : ~ IsDm(rows[k])
         \/ /\ sessions = active_users
            /\ \E fd : W = {fd} /\ \A k \in 1 .. Len(rows) : MayRead(fd, rows[k])
  PROVE  FramesFit' /\ DmStaysPrivate'
<1>1. \A o \in out' : o.to \in Written(W) /\ o.frame = Frame(kind, rows)
  BY DEF Send, Frames
<1>2. \A o \in out' : o.frame.rows = rows
  BY <1>1 DEF Frame
<1>3. CASE \A k \in 1 .. Len(rows) : ~ IsDm(rows[k])
  BY <1>2, <1>3 DEF FramesFit, DmStaysPrivate, IsDm
<1>4. ASSUME sessions = active_users, NEW fd, W = {fd},
             \A k \in 1 .. Len(rows) : MayRead(fd, rows[k])
      PROVE  FramesFit' /\ DmStaysPrivate'
  <2>1. CASE Broken(W) = {}
    <3>1. UNCHANGED <<child_fd, active_users>>
      BY <1>4, <2>1 DEF Send
    <3>2. \A o \in out' : o.to = fd
      BY <1>1, <1>4 DEF Written
    <3> QED
      BY <1>2, <1>4, <3>1, <3>2 DEF FramesFit, DmStaysPrivate, MayRead
  <2>2. CASE Broken(W) # {}
    <3>1. Written(W) = {}
      BY <1>4, <2>2 DEF Written, Broken, ssl_block_write
    <3>2. out' = {}
      BY <1>1, <3>1
    <3> QED
      BY <3>2 DEF FramesFit, DmStaysPrivate
  <2> QED
    BY <2>1, <2>2
<1> QED
  BY <1>3, <1>4

(* What most handlers send has no rows.                                    *)
LEMMA AnswerIsPrivate ==
  ASSUME \/ Segfault \/ Silent \/ \E text : Reply(text)
         \/ \E W, kind, sessions, at : Send(W, Frame(kind, <<>>), sessions, at)
  PROVE  FramesFit' /\ DmStaysPrivate'
<1>1. <<>> \in Seq(Rows) /\ \A k \in 1 .. Len(<<>>) : ~ IsDm(<<>>[k])
  OBVIOUS
<1>2. CASE Segfault
  BY <1>2 DEF Segfault, FramesFit, DmStaysPrivate
<1>3. ASSUME NEW W, NEW kind, NEW sessions, NEW at, Send(W, Frame(kind, <<>>), sessions, at)
      PROVE  FramesFit' /\ DmStaysPrivate'
  BY <1>1, <1>3, SendIsPrivate
<1> QED
  BY <1>2, <1>3 DEF Silent, Reply

(* A message to everyone is not private.                                   *)
LEMMA GlobalIsPrivate ==
  ASSUME IInv, cmdh_msg_global
  PROVE  FramesFit' /\ DmStaysPrivate'
<1> DEFINE row == Row(ss_get_username(cur_fd), Everyone, message.word)
<1>1. CASE Segfault \/ Silent \/ \E text : Reply(text)
  BY <1>1, AnswerIsPrivate
<1>2. ASSUME ~ NotLoggedIn, ss_get_username(cur_fd) # NULL,
             Send(sm_recipients(cur_fd), Frame("GLOBAL", <<row>>), active_users, "save")
      PROVE  FramesFit' /\ DmStaysPrivate'
  <2>1. pc \in Serving /\ message # NULL
    BY DEF cmdh_msg_global, Executes, Serving
  <2>2. row \in Rows /\ ~ IsDm(row)
    BY <1>2, <2>1, NameOf, MessageTypes DEF IInv, Row, Rows, IsDm
  <2> HIDE DEF row
  <2>3. <<row>> \in Seq(Rows) /\ Len(<<row>>) = 1 /\ \A k \in 1 .. 1 : ~ IsDm(<<row>>[k])
    BY <2>2 DEF IsDm
  <2> QED
    BY <1>2, <2>3, SendIsPrivate
<1> QED
  BY <1>1, <1>2 DEF cmdh_msg_global

(* A private message goes to its addressee.                                *)
LEMMA PmIsPrivate ==
  ASSUME IInv, cmdh_msg_pm
  PROVE  FramesFit' /\ DmStaysPrivate'
<1> DEFINE row == Row(ss_get_username(cur_fd), message.name, message.word)
           pm_fd == ss_get_fd_from_username(message.name)
<1>1. CASE Segfault \/ \E text : Reply(text)
  BY <1>1, AnswerIsPrivate
<1>2. ASSUME ~ NotLoggedIn, ss_get_username(cur_fd) # NULL, ss_is_user_logged_in(message.name),
             Send({pm_fd}, Frame("DM", <<row>>), active_users, "save")
      PROVE  FramesFit' /\ DmStaysPrivate'
  <2>1. pc \in Serving /\ message # NULL
    BY DEF cmdh_msg_pm, Executes, Serving
  <2>2. row \in Rows /\ row.to = message.name
    BY <1>2, <2>1, NameOf, MessageTypes DEF IInv, Row, Rows
  <2>3. \E i \in Slots : child_fd[i] = pm_fd /\ active_users[i] = message.name
    <3> DEFINE S == {j \in Slots : active_users[j] = message.name}
    <3>1. PICK i \in Slots : active_users[i] = message.name
      BY <1>2 DEF ss_is_user_logged_in
    <3>2. message.name # NoUser
      BY <2>1, MessageTypes, TypesAssumption DEF IInv
    <3>3. \A j \in S : j = i
      BY <3>1, <3>2 DEF IInv, SessionsFit
    <3>4. i \in Nat /\ i \in S
      BY <3>1, FdFacts
    <3>5. \A j \in Slots : IsFirst(j, S) <=> j = i
      BY <3>3, <3>4 DEF IsFirst
    <3> QED
      BY <3>1, <3>5 DEF ss_get_fd_from_username
  <2> HIDE DEF row, pm_fd
  <2>4. MayRead(pm_fd, row)
    BY <2>2, <2>3 DEF MayRead
  <2>5. /\ <<row>> \in Seq(Rows) /\ Len(<<row>>) = 1
        /\ \A k \in 1 .. 1 : MayRead(pm_fd, <<row>>[k])
    BY <2>2, <2>4 DEF MayRead
  <2> QED
    BY <1>2, <2>5, SendIsPrivate
<1> QED
  BY <1>1, <1>2 DEF cmdh_msg_pm

(* A private history goes to one of its two users.                         *)
LEMMA PmHistoryIsPrivate ==
  ASSUME IInv, NoSelfDm, cmdh_pm_history
  PROVE  FramesFit' /\ DmStaysPrivate'
<1> DEFINE name == ss_get_username(cur_fd)
           rows == pm_history(name, message.name, message.count)
<1>1. CASE Segfault \/ Silent \/ \E text : Reply(text)
  BY <1>1, AnswerIsPrivate
<1>2. ASSUME name # NULL, Send({cur_fd}, Frame("PMHISTORY", rows), active_users, "pass")
      PROVE  FramesFit' /\ DmStaysPrivate'
  <2>1. pc \in Serving /\ message # NULL
    BY DEF cmdh_pm_history, Executes, Serving
  <2>2. \E i \in Slots : child_fd[i] = cur_fd /\ active_users[i] = name
    BY <1>2, <2>1, ServedLoc DEF ss_get_username
  <2>3. message.count \in Int /\ messages \in Seq(Rows)
    BY <2>1, MessageTypes DEF IInv, TypeOK
  <2>4. rows \in Seq(Rows) /\ \A k \in 1 .. Len(rows) : name \in {rows[k].from, rows[k].to}
    BY <2>3, PmHistoryRows
  <2> HIDE DEF rows, name
  <2>5. \A k \in 1 .. Len(rows) : MayRead(cur_fd, rows[k])
    BY <2>2, <2>4 DEF MayRead
  <2> QED
    BY <1>2, <2>4, <2>5, SendIsPrivate
<1> QED
  BY <1>1, <1>2 DEF cmdh_pm_history

(* The global history has nothing private.                                 *)
LEMMA HistoryIsPrivate ==
  ASSUME IInv, cmdh_get_global_history
  PROVE  FramesFit' /\ DmStaysPrivate'
<1>1. CASE Segfault \/ Silent \/ \E text : Reply(text)
  BY <1>1, AnswerIsPrivate
<1>2. ASSUME Send({cur_fd}, Frame("HISTORY", global_history(message.count)), active_users, "pass")
      PROVE  FramesFit' /\ DmStaysPrivate'
  <2>1. message.count \in Int /\ messages \in Seq(Rows)
    BY MessageTypes DEF cmdh_get_global_history, Executes, IInv, TypeOK
  <2> QED
    BY <1>2, <2>1, GlobalHistoryRows, SendIsPrivate
<1> QED
  BY <1>1, <1>2 DEF cmdh_get_global_history

(* The other steps hand out no rows, or nothing new to the same sessions.  *)
LEMMA PrivacyInv ==
  IInv /\ NoSelfDm /\ FramesFit /\ DmStaysPrivate /\ [Next]_vars => FramesFit' /\ DmStaysPrivate'
<1> SUFFICES ASSUME IInv, NoSelfDm, FramesFit, DmStaysPrivate, [Next]_vars
             PROVE  FramesFit' /\ DmStaysPrivate'
  OBVIOUS
<1>1. ASSUME out' = {} PROVE FramesFit' /\ DmStaysPrivate'
  BY <1>1 DEF FramesFit, DmStaysPrivate
<1>2. ASSUME UNCHANGED <<child_fd, active_users, out>> PROVE FramesFit' /\ DmStaysPrivate'
  BY <1>2 DEF FramesFit, DmStaysPrivate
<1>3. CASE cmdh_save \/ cmdh_register \/ cmdh_login \/ cmdh_logout
  BY <1>3, AnswerIsPrivate DEF cmdh_save, cmdh_register, cmdh_login, cmdh_logout
<1>4. CASE cmdh_close
  BY <1>1, <1>4 DEF cmdh_close
<1>5. CASE cmdh_get_active_users \/ cmdh_server_health_ping \/ UnnamedCommand \/ InvalidCommand
  BY <1>5, AnswerIsPrivate
     DEF cmdh_get_active_users, cmdh_server_health_ping, UnnamedCommand, InvalidCommand
<1>6. CASE Execute
  BY <1>3, <1>4, <1>5, <1>6, GlobalIsPrivate, PmIsPrivate, HistoryIsPrivate, PmHistoryIsPrivate
     DEF Execute, cmdh_execute_command
<1>7. CASE ss_free
  <2>1. \A o \in out' : o.frame = Frame("SERVER_DISCONNECTED", <<>>)
    BY <1>7 DEF ss_free, Frames
  <2>2. <<>> \in Seq(Rows) /\ \A k \in 1 .. Len(<<>>) : FALSE
    OBVIOUS
  <2>3. \A o \in out' : o.frame.rows = <<>>
    BY <2>1 DEF Frame
  <2> QED
    BY <2>2, <2>3 DEF FramesFit, DmStaysPrivate
<1>8. CASE Loop /\ ~ Execute /\ ~ ss_free
  BY <1>1, <1>8 DEF Loop, sdb_setup, sdb_execute, SetUp, Select, SelectWith, Accept, HealthCheck,
     EndPass, Capture, CaptureEof
<1>9. CASE ssl_block_accept \/ Environment
  BY <1>1, <1>2, <1>9 DEF ssl_block_accept, Environment, OperatorQuits, SelectWith, Connect, Kill,
     Restart, PeerSends, PeerCloses, PeerAborts, RstArrives, SocketBecomes, process
<1>10. CASE UNCHANGED vars
  BY <1>2, <1>10 DEF vars, process
<1> QED
  BY <1>6, <1>7, <1>8, <1>9, <1>10 DEF Next

(* A private message, live or from a history, is only ever written to a    *)
(* connection logged in as its author or its addressee, whoever logs in    *)
(* and out, shares or switches connections, and whatever limits histories  *)
(* are asked for with (cmdh_msg_pm, cmdh_pm_history).                      *)
THEOREM Privacy == Spec => []DmStaysPrivate
<1>1. Init => FramesFit /\ DmStaysPrivate
  BY DEF Init, FramesFit, DmStaysPrivate
<1>2. IInv /\ NoSelfDm /\ FramesFit /\ DmStaysPrivate /\ [Next]_vars
        => (FramesFit /\ DmStaysPrivate)'
  BY PrivacyInv
<1> QED
  BY <1>1, <1>2, Invariance, NoPrivateMonologue, PTL DEF Spec
=============================================================================
