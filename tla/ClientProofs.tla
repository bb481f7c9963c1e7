---------------------------- MODULE ClientProofs ----------------------------
(***************************************************************************)
(* For every number of clients, slots, lines and frames: what the clients  *)
(* of the chat are told and shown.  The invariants are about the frames    *)
(* that are under way: what a client will have been told when it has read  *)
(* all of them, and where the messages in them are in the log.             *)
(***************************************************************************)
EXTENDS ChatProofs, FiniteSetTheorems

-----------------------------------------------------------------------------
(* The server's sockets.                                                   *)

(* Only while the server waits for a handshake is there a connection whose *)
(* handshake is not finished, and it is the only one.                      *)
OneHandshake ==
  \A fd \in Fds : sock[fd] = "connecting" =>
    pc = "handshake" /\ \A f \in Fds : sock[f] = "connecting" => f = fd

(* What the server's own steps do to a socket: only an accept takes one,   *)
(* and one that is open stays so or is closed.                             *)
LEMMA LoopSockets ==
  ASSUME IInv, Loop, NEW fd \in Fds
  PROVE  /\ pc # "handshake"
         /\ sock[fd] = "open" => sock'[fd] \in {"open", "free"}
         /\ sock[fd] = "free" => \/ sock'[fd] = "free"
                                 \/ /\ pc = "accept" /\ pc' = "handshake"
                                    /\ sock' = [sock EXCEPT ![fd] = "connecting"]
         /\ sock'[fd] = "connecting" => sock[fd] \in {"free", "connecting"}
<1> DEFINE Calm == /\ sock[fd] = "open" => sock'[fd] \in {"open", "free"}
                   /\ sock[fd] = "free" => sock'[fd] = "free"
                   /\ sock'[fd] = "connecting" => sock[fd] = "connecting"
<1>1. pc # "handshake"
  BY DEF Loop, sdb_setup, sdb_execute, Select, SelectWith, Accept, HealthCheck, EndPass, ss_free,
     Capture, CaptureEof, IsNext, Execute, cmdh_execute_command, cmdh_msg_global, cmdh_msg_pm,
     cmdh_save, cmdh_register, cmdh_login, cmdh_close, cmdh_logout, cmdh_get_active_users,
     cmdh_get_global_history, cmdh_pm_history, cmdh_server_health_ping, UnnamedCommand,
     InvalidCommand, Executes
<1>2. ASSUME sock' = sock \/ sock' = NoSockets \/ \E W : sock' = AfterWrites(W) PROVE Calm
  BY <1>2 DEF AfterWrites, NoSockets
<1>3. ASSUME \/ Segfault \/ Silent \/ \E text : Reply(text)
             \/ \E W, frame, sessions, at : Send(W, frame, sessions, at)
      PROVE  Calm
  BY <1>2, <1>3 DEF Segfault, Silent, Reply, Send, ProcessGone
<1>4. CASE Execute /\ ~ cmdh_close
  <2>1. ASSUME cmdh_msg_global \/ cmdh_msg_pm \/ cmdh_save PROVE Calm
    BY <1>3, <2>1 DEF cmdh_msg_global, cmdh_msg_pm, cmdh_save
  <2>2. ASSUME cmdh_register \/ cmdh_login \/ cmdh_logout PROVE Calm
    BY <1>3, <2>2 DEF cmdh_register, cmdh_login, cmdh_logout
  <2>3. ASSUME cmdh_get_active_users \/ cmdh_get_global_history \/ cmdh_pm_history PROVE Calm
    BY <1>3, <2>3 DEF cmdh_get_active_users, cmdh_get_global_history, cmdh_pm_history
  <2>4. ASSUME cmdh_server_health_ping \/ UnnamedCommand \/ InvalidCommand PROVE Calm
    BY <1>3, <2>4 DEF cmdh_server_health_ping, UnnamedCommand, InvalidCommand
  <2>5. Calm
    BY <1>4, <2>1, <2>2, <2>3, <2>4 DEF Execute, cmdh_execute_command
  <2> QED
    BY <1>1, <2>5
<1>5. CASE cmdh_close
  BY <1>1, <1>5 DEF cmdh_close, IInv, TypeOK
<1>6. CASE Accept
  <2>1. CASE Gone("crashed")
    BY <1>1, <1>2, <2>1 DEF Gone, ProcessGone
  <2>2. ASSUME NEW f \in Fds, IsFirst(f, {g \in Fds : sock[g] = "free"}), pc' = "handshake",
               sock' = [sock EXCEPT ![f] = "connecting"]
        PROVE  /\ sock[fd] = "open" => sock'[fd] \in {"open", "free"}
               /\ sock[fd] = "free" => \/ sock'[fd] = "free"
                                       \/ f = fd
               /\ sock'[fd] = "connecting" => sock[fd] \in {"free", "connecting"}
    BY <2>2 DEF IsFirst, IInv, TypeOK
  <2> QED
    BY <1>1, <1>6, <2>1, <2>2 DEF Accept
<1>7. CASE HealthCheck \/ \E f \in Fds : Capture(f) \/ CaptureEof(f)
  <2>1. \A f \in Fds :
          AfterEof(f) = sock \/ (sock[f] = "aborted" /\ AfterEof(f) = [sock EXCEPT ![f] = "reset"])
    BY DEF AfterEof
  <2>2. Calm
    BY <1>2, <1>7, <2>1 DEF HealthCheck, Capture, CaptureEof, Gone, ProcessGone, IInv, TypeOK
  <2> QED
    BY <1>1, <2>2
<1>8. CASE sdb_setup \/ sdb_execute \/ Select \/ EndPass \/ ss_free
  <2>1. Calm
    BY <1>2, <1>8 DEF sdb_setup, sdb_execute, SetUp, Select, SelectWith, EndPass, ss_free, Gone,
       ProcessGone
  <2> QED
    BY <1>1, <2>1
<1> QED
  BY <1>4, <1>5, <1>6, <1>7, <1>8 DEF Loop, Execute, cmdh_execute_command

(* There is one handshake at a time.                                       *)
LEMMA HandshakeInv == IInv /\ OneHandshake /\ [Next]_vars => OneHandshake'
<1> SUFFICES ASSUME IInv, OneHandshake, [Next]_vars PROVE OneHandshake'
  OBVIOUS
<1>1. CASE Loop
  <2>1. \A fd \in Fds : sock[fd] # "connecting"
    BY <1>1, LoopSockets DEF OneHandshake
  <2>2. ASSUME NEW fd \in Fds, sock'[fd] = "connecting"
        PROVE  pc' = "handshake" /\ sock' = [sock EXCEPT ![fd] = "connecting"]
    BY <1>1, <2>1, <2>2, LoopSockets
  <2> QED
    BY <2>1, <2>2 DEF OneHandshake, IInv, TypeOK
<1>2. CASE ssl_block_accept
  BY <1>2 DEF ssl_block_accept, OneHandshake, IInv, TypeOK
<1>3. CASE Environment
  <2>1. CASE Kill
    BY <2>1 DEF Kill, Gone, ProcessGone, NoSockets, OneHandshake
  <2>2. CASE OperatorQuits \/ Restart \/ Connect
    BY <2>2 DEF OperatorQuits, SelectWith, Restart, Connect, process, Down, OneHandshake
  <2>3. CASE \E fd \in Fds : PeerSends(fd) \/ PeerCloses(fd) \/ PeerAborts(fd) \/ RstArrives(fd)
    BY <2>3 DEF PeerSends, PeerCloses, PeerAborts, RstArrives, SocketBecomes, OneHandshake, IInv,
       TypeOK
  <2> QED
    BY <1>3, <2>1, <2>2, <2>3 DEF Environment
<1>4. CASE UNCHANGED vars
  BY <1>4 DEF vars, process, OneHandshake
<1> QED
  BY <1>1, <1>2, <1>3, <1>4 DEF Next

-----------------------------------------------------------------------------
(* What the server tells a connection about its session.                   *)

(* A connection whose slot keeps descriptor and user keeps its session.    *)
LEMMA SessionKept ==
  ASSUME IInv, IInv', NEW i \in Slots, child_fd[i] # -1,
         child_fd'[i] = child_fd[i], active_users'[i] = active_users[i]
  PROVE  Session(child_fd[i])' = Session(child_fd[i])
BY SessionsMatchInv, SessionsMatchNext DEF SessionsMatch

(* The step leaves the session of a connection alone and writes no news to *)
(* it, or writes just the news that its session now calls for.             *)
NewsFit(fd) ==
  \/ /\ Session(fd)' = Session(fd)
     /\ \A o \in out' : o.to = fd => o.frame.kind \notin News
  \/ \E kind \in News :
       /\ kind = LoggedIn <=> Session(fd)' # NoUser
       /\ \E o \in out' : o.to = fd
       /\ \A o \in out' : o.to = fd => o.frame.kind = kind

(* The news are two replies and the notice; the field of a frame.          *)
LEMMA NewsFacts ==
  /\ LoggedIn \in News /\ LoggedOut \in News /\ LoggedIn # LoggedOut
  /\ LoggedIn # "none" /\ LoggedIn # "SERVER_DISCONNECTED"
  /\ \A kind, rows : Frame(kind, rows).kind = kind /\ Frame(kind, rows).rows = rows
<1>1. LoggedIn # LoggedOut /\ LoggedIn # "none" /\ LoggedIn # "SERVER_DISCONNECTED"
  BY DEF LoggedIn, LoggedOut
<1>2. LoggedIn \in News /\ LoggedOut \in News
  BY DEF News
<1>3. \A kind, rows : Frame(kind, rows).kind = kind /\ Frame(kind, rows).rows = rows
  BY DEF Frame
<1> QED
  BY <1>1, <1>2, <1>3

(* All frames of a write are the same.                                     *)
LEMMA FrameOf ==
  ASSUME NEW W, NEW frame
  PROVE  /\ \A o \in Frames(W, frame) : o.frame = frame /\ o.to \in W
         /\ \A fd \in Written(W) : \E o \in Frames(W, frame) : o.to = fd
<1>1. Written(W) \subseteq W
  BY DEF Written
<1>2. \A o \in Frames(W, frame) : o.frame = frame /\ o.to \in W
  BY <1>1 DEF Frames
<1>3. ASSUME NEW fd \in Written(W) PROVE \E o \in Frames(W, frame) : o.to = fd
  <2> DEFINE o == [to |-> fd, frame |-> frame]
  <2>1. o \in Frames(W, frame)
    BY DEF Frames
  <2>2. o.to = fd
    OBVIOUS
  <2> HIDE DEF o
  <2> QED
    BY <2>1, <2>2
<1> QED
  BY <1>2, <1>3

(* Most handlers write no news.                                            *)
LEMMA QuietNews ==
  ASSUME IInv, IInv', NEW fd \in Fds, sock[fd] = "open", sock'[fd] # "free",
         NEW W, NEW frame, NEW at, Send(W, frame, active_users, at), frame.kind \notin News
  PROVE  NewsFit(fd)
<1>1. child_fd' = child_fd /\ active_users' = active_users
  BY DEF Send, ProcessGone, NoSockets
<1>2. PICK i \in Slots : child_fd[i] = fd
  BY DEF IInv, TableMatchesSockets
<1>3. Session(fd)' = Session(fd)
  BY <1>1, <1>2, FdFacts, SessionKept
<1> QED
  BY <1>3, FrameOf DEF NewsFit, Send

(* The two that change the session of the connection tell it so.           *)
LEMMA ChangeNews ==
  ASSUME IInv, IInv', NEW fd \in Fds, sock[fd] = "open", sock'[fd] # "free", pc \in Serving,
         NEW frame, NEW s, frame.kind \in News, frame.kind = LoggedIn <=> s # NoUser,
         Send({cur_fd}, frame, [active_users EXCEPT ![ss_get_fd_loc(cur_fd)] = s], "pass")
  PROVE  NewsFit(fd)
<1>1. /\ child_fd' = child_fd /\ Broken({cur_fd}) = {}
      /\ active_users' = [active_users EXCEPT ![ss_get_fd_loc(cur_fd)] = s]
      /\ out' = Frames({cur_fd}, frame)
  BY DEF Send, ProcessGone, NoSockets
<1>2. PICK i \in Slots : child_fd[i] = fd
  BY DEF IInv, TableMatchesSockets
<1>3. ss_get_fd_loc(cur_fd) \in Slots /\ child_fd[ss_get_fd_loc(cur_fd)] = cur_fd
  BY ServedLoc
<1>4. CASE fd = cur_fd
  <2>1. active_users'[ss_get_fd_loc(cur_fd)] = s /\ child_fd'[ss_get_fd_loc(cur_fd)] = fd
    BY <1>1, <1>3, <1>4 DEF IInv, TypeOK
  <2>2. Session(fd)' = s
    BY <1>3, <2>1, FdFacts, SessionsMatchNext DEF SessionsMatch
  <2>3. fd \in Written({cur_fd})
    <3>1. ssl_block_write(fd) > 0
      BY DEF ssl_block_write
    <3> QED
      BY <1>1, <1>4, <3>1 DEF Written
  <2> QED
    BY <1>1, <2>2, <2>3, FrameOf DEF NewsFit
<1>5. CASE fd # cur_fd
  <2>1. Session(fd)' = Session(fd)
    BY <1>1, <1>2, <1>3, <1>5, FdFacts, SessionKept DEF IInv, TypeOK
  <2>2. \A o \in out' : o.to # fd
    BY <1>1, <1>5, FrameOf
  <2> QED
    BY <2>1, <2>2 DEF NewsFit
<1> QED
  BY <1>4, <1>5

(* None of the other replies is one.                                       *)
LEMMA OtherReplies ==
  /\ "none" \notin News /\ "" \notin News /\ "Bad Request" \notin News /\ "Bad Request." \notin News
  /\ "You are not logged in." \notin News /\ "Cannot find user" \notin News
  /\ "Cannot send empty messages." \notin News /\ "No friends to talk to?" \notin News
  /\ "Username must be less than 20." \notin News /\ "Register successful!" \notin News
  /\ "Already logged in, logout of other account first." \notin News
  /\ "Name given was invalid." \notin News /\ "USERS" \notin News
  /\ "GLOBAL" \notin News /\ "DM" \notin News /\ "HISTORY" \notin News /\ "PMHISTORY" \notin News
BY Zenon DEF News, LoggedIn, LoggedOut

(* Nor are the reasons of a refusal.                                       *)
LEMMA RefusalReplies ==
  ASSUME NEW username, NEW password
  PROVE  su_can_register(username, password) \notin News /\ su_validate_login(username, password) \notin News
<1>1. "The credentials provided are invalid." \notin News /\ "This user is already registered" \notin News
      /\ "Cannot find account" \notin News /\ "Invalid password" \notin News /\ "ok" \notin News
  BY Zenon DEF News, LoggedIn, LoggedOut
<1> QED
  BY <1>1, Zenon DEF su_can_register, su_validate_login

(* No handler answers with news of a session that does not change.         *)
LEMMA HandlerNews ==
  ASSUME IInv, IInv', NEW fd \in Fds, sock[fd] = "open", sock'[fd] # "free",
         cmdh_execute_command
  PROVE  NewsFit(fd)
<1>1. ASSUME NEW kind, kind \notin News, NEW rows, NEW W, NEW at,
             Send(W, Frame(kind, rows), active_users, at)
      PROVE  NewsFit(fd)
  BY <1>1, QuietNews, NewsFacts
<1>2. ASSUME NEW text, text \notin News, Reply(text) PROVE NewsFit(fd)
  BY <1>1, <1>2 DEF Reply
<1>3. ASSUME Silent PROVE NewsFit(fd)
  BY <1>1, <1>3, OtherReplies, Zenon DEF Silent
<1>4. ~ Segfault
  BY DEF Segfault, ProcessGone, NoSockets
<1>5. CASE cmdh_msg_global
  BY <1>1, <1>2, <1>3, <1>4, <1>5, OtherReplies, Zenon DEF cmdh_msg_global
<1>6. CASE cmdh_msg_pm
  BY <1>1, <1>2, <1>4, <1>6, OtherReplies, Zenon DEF cmdh_msg_pm
<1>7. CASE cmdh_save
  BY <1>3, <1>7, Zenon DEF cmdh_save
<1>8. CASE cmdh_register
  BY <1>1, <1>2, <1>8, OtherReplies, RefusalReplies, Zenon DEF cmdh_register
<1>9. CASE cmdh_login
  <2>1. ASSUME Send({cur_fd}, Frame(LoggedIn, <<>>), ss_login_fd(cur_fd, message.name), "pass")
        PROVE  NewsFit(fd)
    <3>1. message # NULL /\ pc \in Serving
      BY <1>9, Zenon DEF cmdh_login, Executes, IInv, PlaceKnows, Serving
    <3>2. message.name # NoUser
      BY <3>1, MessageTypes, TypesAssumption DEF IInv
    <3>3. LET kind == Frame(LoggedIn, <<>>).kind
          IN  kind \in News /\ (kind = LoggedIn <=> message.name # NoUser)
      BY <3>2, NewsFacts
    <3> QED
      BY <2>1, <3>1, <3>3, ChangeNews, Zenon DEF ss_login_fd
  <2> QED
    BY <1>2, <1>3, <1>9, <2>1, OtherReplies, RefusalReplies, Zenon DEF cmdh_login
<1>10. CASE cmdh_logout
  <2>1. ASSUME Send({cur_fd}, Frame(LoggedOut, <<>>), ss_logout_fd(cur_fd), "pass")
        PROVE  NewsFit(fd)
    <3>1. pc \in Serving
      BY <1>10, Zenon DEF cmdh_logout, Executes, Serving
    <3>2. LET kind == Frame(LoggedOut, <<>>).kind
          IN  kind \in News /\ (kind = LoggedIn <=> NoUser # NoUser)
      BY NewsFacts
    <3> QED
      BY <2>1, <3>1, <3>2, ChangeNews, Zenon DEF ss_logout_fd
  <2> QED
    BY <1>2, <1>10, <2>1, OtherReplies, Zenon DEF cmdh_logout
<1>11. CASE cmdh_close
  <2>1. pc \in Serving /\ out' = {} /\ active_users' = ss_logout_fd(cur_fd)
        /\ child_fd' = ss_remove_child_connection(cur_fd)
        /\ sock' = [sock EXCEPT ![cur_fd] = "free"]
    BY <1>11 DEF cmdh_close, Serving
  <2>2. ss_get_fd_loc(cur_fd) \in Slots /\ child_fd[ss_get_fd_loc(cur_fd)] = cur_fd
        /\ cur_fd \in Fds
    BY <2>1, ServedLoc
  <2>3. fd # cur_fd
    BY <2>1, <2>2 DEF IInv, TypeOK
  <2>4. PICK i \in Slots : child_fd[i] = fd
    BY DEF IInv, TableMatchesSockets
  <2>5. child_fd'[i] = child_fd[i] /\ active_users'[i] = active_users[i]
    BY <2>1, <2>2, <2>3, <2>4 DEF ss_logout_fd, ss_remove_child_connection, IInv, TypeOK
  <2>6. Session(fd)' = Session(fd)
    BY <2>4, <2>5, FdFacts, SessionKept
  <2> QED
    BY <2>1, <2>6 DEF NewsFit
<1>12. CASE cmdh_get_active_users
  BY <1>2, <1>12, OtherReplies, Zenon DEF cmdh_get_active_users
<1>13. CASE cmdh_get_global_history
  BY <1>1, <1>2, <1>3, <1>4, <1>13, OtherReplies, Zenon DEF cmdh_get_global_history
<1>14. CASE cmdh_pm_history
  BY <1>1, <1>2, <1>3, <1>4, <1>14, OtherReplies, Zenon DEF cmdh_pm_history
<1>15. CASE cmdh_server_health_ping \/ UnnamedCommand \/ InvalidCommand
  BY <1>3, <1>4, <1>15, Zenon DEF cmdh_server_health_ping, UnnamedCommand, InvalidCommand
<1> QED
  BY <1>5, <1>6, <1>7, <1>8, <1>9, <1>10, <1>11, <1>12, <1>13, <1>14, <1>15
     DEF cmdh_execute_command

(* Nor does any other step of the server write news.                       *)
LEMMA SessionNews ==
  ASSUME IInv, IInv', NEW fd \in Fds, sock[fd] = "open", sock'[fd] # "free", Loop
  PROVE  NewsFit(fd)
<1>1. ASSUME ProcessGone("crashed") \/ ProcessGone("stopped") PROVE FALSE
  BY <1>1 DEF ProcessGone, NoSockets
<1>2. PICK i \in Slots : child_fd[i] = fd
  BY DEF IInv, TableMatchesSockets
<1>3. ASSUME out' = {}, child_fd'[i] = child_fd[i], active_users'[i] = active_users[i]
      PROVE  NewsFit(fd)
  BY <1>2, <1>3, FdFacts, SessionKept DEF NewsFit
<1>4. CASE Execute
  BY <1>4, HandlerNews DEF Execute
<1>5. CASE Accept
  <2>1. ASSUME NEW loc \in Slots, NEW f \in Fds, IsFirst(loc, FreeSlots),
               child_fd' = ss_add_child_connection(loc, f), UNCHANGED active_users
        PROVE  child_fd'[i] = child_fd[i] /\ active_users'[i] = active_users[i]
    BY <1>2, <2>1, FdFacts DEF IsFirst, FreeSlots, ss_add_child_connection, IInv, TypeOK
  <2> QED
    BY <1>1, <1>3, <1>5, <2>1 DEF Accept, Gone
<1>6. CASE HealthCheck
  BY <1>1, <1>3, <1>6 DEF HealthCheck, Gone
<1>7. CASE \E f \in Fds : Capture(f) \/ CaptureEof(f)
  BY <1>3, <1>7 DEF Capture, CaptureEof
<1>8. CASE sdb_setup \/ sdb_execute
  BY <1>3, <1>8 DEF sdb_setup, sdb_execute, SetUp
<1>9. CASE Select \/ EndPass
  BY <1>3, <1>9 DEF Select, SelectWith, EndPass
<1>10. CASE ss_free
  BY <1>1, <1>10 DEF ss_free, Gone
<1> QED
  BY <1>4, <1>5, <1>6, <1>7, <1>8, <1>9, <1>10 DEF Loop

-----------------------------------------------------------------------------
(* The clients.                                                            *)

ClientPlaces == {"off", "connecting", "select", "input", "closing", "gone", "lost", "crashed"}

IsSequence(s) == \E S : s \in Seq(S)

ClientTypes ==
  /\ place \in [Clients -> ClientPlaces]
  /\ DOMAIN inbox = Clients /\ \A c \in Clients : IsSequence(inbox[c]) /\ Len(inbox[c]) <= Room
  /\ told \in [Clients -> News \cup {"none"}]
  /\ said \in [Clients -> Seq(Typable)] /\ \A c \in Clients : Len(said[c]) <= MaxLines

(* Where the client of a connection is, and what has reached it: nothing   *)
(* before the handshake is finished, of which there is one at a time.      *)
PlacesMatch ==
  \A c \in Clients :
    /\ place[c] \in {"off", "connecting"} => inbox[c] = <<>> /\ told[c] = "none"
    /\ conn[c] # -1 => /\ place[c] # "off"
                       /\ sock[conn[c]] = IF place[c] = "connecting" THEN "connecting" ELSE "open"

(* The kind of the last news that a client will have had of its session    *)
(* when it has read all that has arrived.                                  *)
WillBeTold(last, frames, kind) ==
  LET news == {k \in 1 .. Len(frames) : frames[k].kind \in News}
  IN  \/ news = {} /\ kind = last
      \/ \E k \in news : (\A j \in news : j <= k) /\ kind = frames[k].kind

(* When it has, it will have been told whether it is logged in.            *)
TruthIsComing ==
  \A c \in Clients, fd \in Fds : conn[c] = fd =>
    \A kind : WillBeTold(told[c], inbox[c], kind) => (kind = LoggedIn <=> Session(fd) # NoUser)

(* Reading the first frame changes nothing in what is to be told.          *)
LEMMA ReadsNews ==
  ASSUME NEW last, NEW frames, IsSequence(frames), frames # <<>>, NEW kind,
         WillBeTold(IF Head(frames).kind \in News THEN Head(frames).kind ELSE last, Tail(frames), kind)
  PROVE  WillBeTold(last, frames, kind)
<1> DEFINE rest == Tail(frames)
           later == {k \in 1 .. Len(rest) : rest[k].kind \in News}
           news == {k \in 1 .. Len(frames) : frames[k].kind \in News}
<1>1. /\ Len(frames) \in Nat /\ Len(frames) >= 1 /\ Len(rest) = Len(frames) - 1
      /\ \A k \in 1 .. Len(rest) : rest[k] = frames[k + 1]
      /\ Head(frames) = frames[1]
  BY DEF IsSequence
<1> HIDE DEF rest
<1>2. \A k \in 2 .. Len(frames) : k \in news => k - 1 \in later
  BY <1>1
<1>3. CASE later = {}
  <2>1. \A k \in news : k = 1
    BY <1>1, <1>2, <1>3
  <2>2. kind = IF frames[1].kind \in News THEN frames[1].kind ELSE last
    BY <1>1, <1>3 DEF WillBeTold, rest
  <2>3. frames[1].kind \in News => 1 \in news
    BY <1>1
  <2> QED
    BY <2>1, <2>2, <2>3 DEF WillBeTold
<1>4. CASE later # {}
  <2>1. PICK k \in later : (\A j \in later : j <= k) /\ kind = rest[k].kind
    BY <1>4 DEF WillBeTold, rest
  <2>2. k + 1 \in news /\ kind = frames[k + 1].kind
    BY <1>1, <2>1
  <2>3. \A j \in news : j <= k + 1
    BY <1>1, <1>2, <2>1
  <2> QED
    BY <2>2, <2>3 DEF WillBeTold
<1> QED
  BY <1>3, <1>4

(* A frame that is no news changes nothing either, and one that is settles *)
(* the matter.                                                             *)
LEMMA WritesNews ==
  ASSUME NEW last, NEW frames, IsSequence(frames), NEW frame, NEW kind,
         WillBeTold(last, frames \o <<frame>>, kind)
  PROVE  IF frame.kind \in News THEN kind = frame.kind ELSE WillBeTold(last, frames, kind)
<1> DEFINE all_frames == frames \o <<frame>>
           n == Len(frames)
           news == {k \in 1 .. n : frames[k].kind \in News}
           all_news == {k \in 1 .. Len(all_frames) : all_frames[k].kind \in News}
<1>1. /\ n \in Nat /\ Len(all_frames) = n + 1
      /\ \A k \in 1 .. n : all_frames[k] = frames[k]
      /\ all_frames[n + 1] = frame
  BY DEF IsSequence
<1>2. \/ all_news = {} /\ kind = last
      \/ \E k \in all_news : (\A j \in all_news : j <= k) /\ kind = all_frames[k].kind
  BY DEF WillBeTold
<1> HIDE DEF all_frames, n
<1>3. CASE frame.kind \in News
  <2>1. n + 1 \in all_news /\ \A k \in all_news : k <= n + 1
    BY <1>1, <1>3
  <2> QED
    BY <1>1, <1>2, <1>3, <2>1
<1>4. CASE frame.kind \notin News
  <2>1. all_news = news
    BY <1>1, <1>4
  <2>2. \A k \in news : all_frames[k] = frames[k]
    BY <1>1
  <2>3. \/ news = {} /\ kind = last
        \/ \E k \in news : (\A j \in news : j <= k) /\ kind = frames[k].kind
    BY <1>2, <2>1, <2>2
  <2> QED
    BY <1>4, <2>3 DEF WillBeTold, n
<1> QED
  BY <1>3, <1>4

(* A server step hands a connection one frame at most.                     *)
LEMMA FramesShape ==
  ASSUME NEW fd
  PROVE  /\ IsSequence(FramesTo(fd))
         /\ FramesTo(fd) = <<>> \/ \E frame : FramesTo(fd) = <<frame>>
<1>1. FramesTo(fd) = <<>> \/ \E frame : FramesTo(fd) = <<frame>>
  BY DEF FramesTo
<1>2. <<>> \in Seq({})
  OBVIOUS
<1>3. ASSUME NEW frame PROVE <<frame>> \in Seq({frame})
  OBVIOUS
<1> QED
  BY <1>1, <1>2, <1>3 DEF IsSequence

(* It is the news of the session, or no news.                              *)
LEMMA NewsTo ==
  ASSUME IInv, IInv', Loop, NEW fd \in Fds, sock[fd] = "open", sock'[fd] # "free"
  PROVE  \/ /\ Session(fd)' = Session(fd)
            /\ FramesTo(fd) = <<>> \/ \E f : FramesTo(fd) = <<f>> /\ f.kind \notin News
         \/ \E f : /\ FramesTo(fd) = <<f>> /\ f.kind \in News
                   /\ f.kind = LoggedIn <=> Session(fd)' # NoUser
<1>1. NewsFit(fd)
  BY SessionNews
<1>2. CASE PingsClient /\ fd = cur_fd
  <2>1. out' = {}
    <3>1. ~ Execute
      BY <1>2, Zenon DEF PingsClient, Execute, cmdh_execute_command, cmdh_msg_global, cmdh_msg_pm, cmdh_save,
         cmdh_register, cmdh_login, cmdh_close, cmdh_logout, cmdh_get_active_users,
         cmdh_get_global_history, cmdh_pm_history, cmdh_server_health_ping, UnnamedCommand,
         InvalidCommand, Executes
    <3>2. ~ ss_free
      BY <1>2 DEF PingsClient, ss_free
    <3> QED
      BY <1>2, <3>1, <3>2 DEF Loop, sdb_setup, sdb_execute, SetUp, Select, SelectWith, Accept, HealthCheck,
         EndPass, Capture, CaptureEof
  <2>2. Session(fd)' = Session(fd)
    BY <1>1, <2>1 DEF NewsFit
  <2>3. FramesTo(fd) = <<Frame("HEALTH", <<>>)>>
    BY <1>2 DEF FramesTo
  <2>4. Frame("HEALTH", <<>>).kind \notin News
    <3>1. "HEALTH" \notin News
      BY Zenon DEF News, LoggedIn, LoggedOut
    <3> QED
      BY <3>1, NewsFacts
  <2> QED
    BY <2>2, <2>3, <2>4
<1>3. CASE ~ (PingsClient /\ fd = cur_fd)
  <2>1. CASE \A o \in out' : o.to # fd
    <3>1. FramesTo(fd) = <<>>
      BY <1>3, <2>1 DEF FramesTo
    <3> QED
      BY <1>1, <2>1, <3>1 DEF NewsFit
  <2>2. CASE \E o \in out' : o.to = fd
    <3> DEFINE o == CHOOSE o \in out' : o.to = fd
    <3>1. o \in out' /\ o.to = fd
      BY <2>2
    <3>2. FramesTo(fd) = <<o.frame>>
      BY <1>3, <2>2 DEF FramesTo
    <3> HIDE DEF o
    <3> QED
      BY <1>1, <3>1, <3>2 DEF NewsFit
  <2> QED
    BY <2>1, <2>2
<1> QED
  BY <1>2, <1>3

(* A user who may type another line has typed fewer than all together.     *)
LEMMA LinesBound ==
  ASSUME ClientTypes, Cardinality(LinesTyped) < MaxLines, NEW c \in Clients
  PROVE  Len(said[c]) < MaxLines
<1>1. Len(said[c]) \in Nat /\ Len(said[c]) <= MaxLines /\ MaxLines \in Nat
  BY ClientAssumption DEF ClientTypes
<1>2. SUFFICES ASSUME Len(said[c]) = MaxLines PROVE FALSE
  BY <1>1
<1>3. IsFiniteSet(1 .. MaxLines) /\ Cardinality(1 .. MaxLines) = MaxLines
  BY <1>1, FS_Interval
<1>4. IsFiniteSet(Clients \X (1 .. MaxLines))
  BY <1>3, FS_Product, ClientAssumption
<1>5. IsFiniteSet(LinesTyped)
  BY <1>4, FS_Subset DEF LinesTyped
<1>6. {c} \X (1 .. MaxLines) \subseteq LinesTyped
  BY <1>2 DEF LinesTyped
<1>7. Cardinality({c} \X (1 .. MaxLines)) = 1 * MaxLines
  <2>1. IsFiniteSet({c}) /\ Cardinality({c}) = 1
    BY FS_Singleton
  <2>2. Cardinality({c} \X (1 .. MaxLines)) = Cardinality({c}) * Cardinality(1 .. MaxLines)
    BY <1>3, <2>1, FS_Product
  <2> QED
    BY <1>3, <2>1, <2>2
<1>8. Cardinality({c} \X (1 .. MaxLines)) <= Cardinality(LinesTyped)
  BY <1>5, <1>6, FS_Subset
<1>9. Cardinality(LinesTyped) \in Nat
  BY <1>5, FS_CardinalityType
<1> QED
  BY <1>1, <1>7, <1>8, <1>9

(* A line is one that its user may type.                                   *)
LineTypes == line \in [Clients -> Typable]

(* A line is what its user may type.                                       *)
LEMMA LineTypesStep ==
  ASSUME LineTypes, ChatNext
  PROVE  LineTypes'
<1>1. ASSUME NEW c \in Clients, Closes(c) \/ takes_line(c) \/ cmdc_execute_server_command(c)
               \/ LosesServer(c) \/ (\E request : Wrote(c, request)) \/ WritesInVain(c)
      PROVE  LineTypes'
  BY <1>1, TypableFacts DEF Closes, takes_line, cmdc_execute_server_command, Wrote, WritesInVain,
     LosesServer, WithoutServer, LineTypes
<1>2. ASSUME NEW c \in Clients, NEW text \in Lines[c], user_types(c, text) PROVE LineTypes'
  <2>1. text \in Typable
    BY TypableFacts
  <2> QED
    BY <1>2, <2>1 DEF user_types, LineTypes
<1>3. ASSUME NEW c \in Clients, ClientStep(c) PROVE LineTypes'
  BY <1>1, <1>3 DEF ClientStep, WithoutServer, ssl_block_write_request, cmdc_exit_close
<1>4. ASSUME NEW c \in Clients, UserStep(c) \/ ssl_block_connect(c) PROVE LineTypes'
  BY <1>1, <1>2, <1>4 DEF UserStep, WithoutServer, do_server_connection, ctrl_c_handler,
     ssl_block_connect, LineTypes
<1>5. CASE ServerStep \/ RstStep \/ OperatorStep
  BY <1>5 DEF ServerStep, RstStep, OperatorStep, client, LineTypes
<1> QED
  BY <1>3, <1>4, <1>5 DEF ChatNext

(* What the parts of the chat leave of the clients' variables.             *)
LEMMA ClientTypesStep ==
  ASSUME ClientTypes, LineTypes, ChatNext
  PROVE  ClientTypes'
<1> DEFINE Kept == UNCHANGED <<inbox, told, said>>
<1>1. ASSUME Kept, place' \in [Clients -> ClientPlaces] PROVE ClientTypes'
  BY <1>1 DEF ClientTypes
<1>2. ASSUME NEW c \in Clients, NEW at \in ClientPlaces, Goes(c, at)
      PROVE  place' \in [Clients -> ClientPlaces]
  BY <1>2 DEF Goes, ClientTypes
<1>3. CASE ServerStep
  <2>1. ASSUME NEW c \in Clients PROVE IsSequence(inbox'[c]) /\ Len(inbox'[c]) <= Room
    <3>1. inbox'[c] = inbox[c] \o Delivered(c) /\ Len(inbox[c]) + Len(Delivered(c)) <= Room
      BY <1>3 DEF ServerStep, Delivers
    <3>2. Delivered(c) = <<>> \/ \E frame : Delivered(c) = <<frame>>
      BY FramesShape DEF Delivered
    <3>3. PICK S : inbox[c] \in Seq(S)
      BY DEF ClientTypes, IsSequence
    <3>4. CASE Delivered(c) = <<>>
      BY <3>1, <3>3, <3>4 DEF IsSequence
    <3>5. ASSUME NEW frame, Delivered(c) = <<frame>> PROVE IsSequence(inbox'[c]) /\ Len(inbox'[c]) <= Room
      <4>1. inbox'[c] \in Seq(S \cup {frame}) /\ Len(inbox'[c]) = Len(inbox[c]) + Len(<<frame>>)
        BY <3>1, <3>3, <3>5
      <4> QED
        BY <3>1, <3>5, <4>1 DEF IsSequence
    <3> QED
      BY <3>2, <3>4, <3>5
  <2>2. DOMAIN inbox' = Clients
    BY <1>3 DEF ServerStep, Delivers
  <2> QED
    BY <1>3, <2>1, <2>2 DEF ServerStep, ClientTypes
<1>4. CASE RstStep \/ OperatorStep
  BY <1>4 DEF RstStep, OperatorStep, client, ClientTypes
<1>5. ASSUME NEW c \in Clients, Closes(c) PROVE ClientTypes'
  <2>1. place' \in [Clients -> ClientPlaces]
    BY <1>2, <1>5 DEF Closes, ClientPlaces
  <2>2. IsSequence(<<>>) /\ Len(<<>>) <= Room
    <3>1. <<>> \in Seq({}) /\ Len(<<>>) = 0
      OBVIOUS
    <3> QED
      BY <3>1, ClientAssumption DEF IsSequence
  <2> QED
    BY <1>5, <2>1, <2>2 DEF Closes, ClientTypes
<1>6. ASSUME NEW c \in Clients, cmdc_execute_server_command(c) PROVE ClientTypes'
  <2>1. place' \in [Clients -> ClientPlaces]
    BY <1>2, <1>6 DEF cmdc_execute_server_command, ClientPlaces
  <2>2. IsSequence(Tail(inbox[c])) /\ Len(Tail(inbox[c])) <= Room
    BY <1>6, ClientAssumption DEF cmdc_execute_server_command, ClientTypes, IsSequence
  <2>3. told' \in [Clients -> News \cup {"none"}]
    BY <1>6 DEF cmdc_execute_server_command, ClientTypes
  <2> QED
    BY <1>6, <2>1, <2>2, <2>3 DEF cmdc_execute_server_command, ClientTypes
<1>7. ASSUME NEW c \in Clients, NEW text \in Lines[c], user_types(c, text) PROVE ClientTypes'
  <2>1. Len(said[c]) < MaxLines /\ said[c] \in Seq(Typable) /\ text \in Typable
    BY <1>7, LinesBound, TypableFacts DEF user_types, ClientTypes
  <2>2. Append(said[c], text) \in Seq(Typable) /\ Len(Append(said[c], text)) <= MaxLines
    BY <2>1, ClientAssumption
  <2> QED
    BY <1>7, <2>2 DEF user_types, ClientTypes
<1>8. ASSUME NEW c \in Clients, NEW request, Wrote(c, request) PROVE ClientTypes'
  <2>1. place' \in [Clients -> ClientPlaces]
    BY <1>2, <1>8 DEF Wrote, ClientPlaces
  <2> QED
    BY <1>1, <1>8, <2>1 DEF Wrote
<1>9. ASSUME NEW c \in Clients, ClientStep(c) PROVE ClientTypes'
  <2>1. CASE WithoutServer(takes_line(c)) \/ LosesServer(c)
    BY <1>1, <1>2, <2>1 DEF WithoutServer, takes_line, LosesServer, ClientPlaces
  <2>2. CASE WithoutServer(cmdc_execute_server_command(c))
    BY <1>6, <2>2 DEF WithoutServer
  <2>3. CASE ssl_block_write_request(c) \/ WritesInVain(c)
    BY <1>1, <1>2, <1>8, <2>3 DEF ssl_block_write_request, WritesInVain, ClientPlaces
  <2>4. CASE cmdc_exit_close(c)
    BY <1>5, <2>4 DEF cmdc_exit_close
  <2> QED
    BY <1>9, <2>1, <2>2, <2>3, <2>4 DEF ClientStep, WithoutServer
<1>10. ASSUME NEW c \in Clients, UserStep(c) \/ ssl_block_connect(c) PROVE ClientTypes'
  BY <1>1, <1>2, <1>5, <1>7, <1>10 DEF UserStep, WithoutServer, do_server_connection, ctrl_c_handler,
     ssl_block_connect, ClientPlaces
<1> QED
  BY <1>3, <1>4, <1>9, <1>10 DEF ChatNext

(* What only one client's step does keeps the others as they are.          *)
LEMMA PlacesStep ==
  ASSUME IInv, OneHandshake, ConnInv, ClientTypes, PlacesMatch, ChatNext
  PROVE  PlacesMatch'
<1> DEFINE Match(c) ==
      /\ place[c] \in {"off", "connecting"} => inbox[c] = <<>> /\ told[c] = "none"
      /\ conn[c] # -1 => /\ place[c] # "off"
                         /\ sock[conn[c]] = IF place[c] = "connecting" THEN "connecting" ELSE "open"
<1> SUFFICES ASSUME NEW c \in Clients PROVE Match(c)'
  BY DEF PlacesMatch
<1>1. Match(c) /\ (conn[c] # -1 => conn[c] \in Fds)
  BY DEF PlacesMatch, ConnInv, ConnTypes
<1>2. ASSUME UNCHANGED <<place, inbox, told>>, conn'[c] = conn[c],
             conn[c] # -1 => sock'[conn[c]] = sock[conn[c]]
      PROVE  Match(c)'
  BY <1>1, <1>2
<1>3. CASE ServerStep
  <2>1. UNCHANGED <<place, told>> /\ Loop
    BY <1>3 DEF ServerStep
  <2>2. /\ conn[c] # -1 => place[c] # "connecting" /\ sock[conn[c]] = "open"
        /\ conn[c] # -1 => sock'[conn[c]] \in {"open", "free"}
    BY <1>1, <2>1, LoopSockets DEF OneHandshake
  <2>3. place[c] \in {"off", "connecting"} => inbox'[c] = <<>>
    <3>1. SUFFICES ASSUME place[c] \in {"off", "connecting"} PROVE inbox'[c] = <<>>
      OBVIOUS
    <3>2. conn[c] = -1
      BY <1>1, <2>2, <3>1
    <3>3. inbox'[c] = inbox[c] \o <<>>
      BY <1>3, <3>2 DEF ServerStep, Delivers, Delivered
    <3> QED
      BY <1>1, <3>1, <3>3
  <2>4. CASE pc = "accept" /\ pc' = "handshake"
    <3>1. PICK d \in Clients, fd \in Fds :
            Waiting(d) /\ sock[fd] = "free" /\ sock'[fd] # "free" /\ conn' = [conn EXCEPT ![d] = fd]
      BY <1>3, <2>4 DEF ServerStep, Assigns
    <3>2. sock' = [sock EXCEPT ![fd] = "connecting"]
      BY <2>1, <3>1, LoopSockets
    <3>3. CASE d = c
      <4>1. conn'[c] = fd /\ sock'[fd] = "connecting" /\ place[c] = "connecting"
        BY <3>1, <3>2, <3>3 DEF Waiting, ConnInv, ConnTypes, IInv, TypeOK
      <4> QED
        BY <1>1, <2>1, <2>3, <4>1
    <3>4. CASE d # c
      <4>1. conn'[c] = conn[c]
        BY <3>1, <3>4 DEF ConnInv, ConnTypes
      <4>2. conn[c] # -1 => sock'[conn[c]] = sock[conn[c]]
        BY <1>1, <2>2, <3>1, <3>2 DEF IInv, TypeOK
      <4> QED
        BY <1>1, <2>1, <2>3, <4>1, <4>2
    <3> QED
      BY <3>3, <3>4
  <2>5. CASE ~ (pc = "accept" /\ pc' = "handshake")
    <3>1. conn'[c] = IF conn[c] # -1 /\ sock'[conn[c]] = "free" THEN -1 ELSE conn[c]
      BY <1>3, <2>5 DEF ServerStep, Assigns
    <3> QED
      BY <1>1, <2>1, <2>2, <2>3, <3>1
  <2> QED
    BY <2>4, <2>5
<1>4. CASE RstStep \/ OperatorStep
  <2>1. UNCHANGED <<place, inbox, told, conn>>
    BY <1>4 DEF RstStep, OperatorStep, client, network
  <2>2. ASSUME NEW fd \in Fds, sock[fd] \in {"open", "connecting"} PROVE sock'[fd] = sock[fd]
    BY <1>4, <2>2 DEF RstStep, RstArrives, SocketBecomes, OperatorStep, OperatorQuits, SelectWith, IInv, TypeOK
  <2> QED
    BY <1>1, <1>2, <2>1, <2>2
<1>5. ASSUME NEW d \in Clients, Closes(d) PROVE Match(c)'
  <2>1. CASE d = c
    BY <1>5, <2>1 DEF Closes, Goes, ClientTypes, ConnInv, ConnTypes
  <2>2. CASE d # c
    <3>1. place'[c] = place[c] /\ inbox'[c] = inbox[c] /\ told' = told /\ conn'[c] = conn[c]
      BY <1>5, <2>2 DEF Closes, Goes, ClientTypes, ConnInv, ConnTypes
    <3>2. conn[c] # -1 => conn[c] # conn[d]
      BY <2>2 DEF ConnInv
    <3>3. conn[c] # -1 => sock'[conn[c]] = sock[conn[c]]
      BY <1>1, <1>5, <3>2 DEF Closes, PeerCloses, PeerAborts, SocketBecomes, vars, process, IInv, TypeOK
    <3> QED
      BY <1>1, <3>1, <3>3
  <2> QED
    BY <2>1, <2>2
<1>6. ASSUME NEW d \in Clients, ssl_block_connect(d) PROVE Match(c)'
  <2>1. place[d] = "connecting" /\ conn[d] # -1 /\ conn[d] \in Fds /\ sock[conn[d]] = "connecting"
        /\ UNCHANGED <<inbox, told>>
    BY <1>6 DEF ssl_block_connect, PlacesMatch, ConnInv, ConnTypes
  <2>2. PICK fd \in Fds, end \in {"open", "failed"} :
          sock[fd] = "connecting" /\ sock' = [sock EXCEPT ![fd] = end]
    BY <1>6 DEF ssl_block_connect, ssl_block_accept
  <2>3. fd = conn[d]
    BY <2>1, <2>2 DEF OneHandshake
  <2>4. CASE d = c
    BY <1>1, <1>6, <2>1, <2>4 DEF ssl_block_connect, Goes, ClientTypes, ConnInv, ConnTypes
  <2>5. CASE d # c
    <3>1. place'[c] = place[c] /\ conn'[c] = conn[c]
      BY <1>6, <2>5 DEF ssl_block_connect, Goes, ClientTypes, ConnInv, ConnTypes
    <3>2. conn[c] # -1 => conn[c] # conn[d]
      BY <2>5 DEF ConnInv
    <3>3. conn[c] # -1 => sock'[conn[c]] = sock[conn[c]]
      BY <1>1, <2>2, <2>3, <3>2 DEF IInv, TypeOK
    <3> QED
      BY <1>1, <2>1, <3>1, <3>3
  <2> QED
    BY <2>4, <2>5
<1>7. ASSUME NEW d \in Clients, sock' = sock, conn' = conn,
             d # c => place'[c] = place[c] /\ inbox'[c] = inbox[c] /\ told'[c] = told[c],
             place[d] \notin {"off", "connecting"}, place'[d] \notin {"off", "connecting"}
      PROVE  Match(c)'
  BY <1>1, <1>7
<1>8. ASSUME NEW d \in Clients, ClientStep(d) PROVE Match(c)'
  <2>1. CASE WithoutServer(takes_line(d))
    BY <1>7, <2>1 DEF WithoutServer, takes_line, Goes, ClientTypes, vars, process, network
  <2>2. CASE WithoutServer(cmdc_execute_server_command(d))
    BY <1>7, <2>2 DEF WithoutServer, cmdc_execute_server_command, Goes, ClientTypes, vars, process, network
  <2>3. CASE ssl_block_write_request(d)
    BY <1>7, <2>3 DEF ssl_block_write_request, Wrote, Goes, PeerSends, ClientTypes, vars, process
  <2>4. CASE WritesInVain(d)
    BY <1>7, <2>4 DEF WritesInVain, Wrote, Goes, ClientTypes, vars, process, network
  <2>5. CASE cmdc_exit_close(d)
    BY <1>5, <2>5 DEF cmdc_exit_close
  <2>6. CASE LosesServer(d)
    BY <1>1, <2>6 DEF LosesServer, WithoutServer, Goes, ClientTypes, vars, process, network
  <2> QED
    BY <1>8, <2>1, <2>2, <2>3, <2>4, <2>5, <2>6 DEF ClientStep, WithoutServer
<1>9. ASSUME NEW d \in Clients, UserStep(d) PROVE Match(c)'
  <2>1. CASE \E text \in Lines[d] : WithoutServer(user_types(d, text))
    BY <1>2, <2>1 DEF WithoutServer, user_types, vars, process, network
  <2>2. CASE do_server_connection(d)
    <3>1. place[d] = "off" /\ Goes(d, "connecting") /\ UNCHANGED <<sock, conn, inbox, told>>
      BY <2>2 DEF do_server_connection, Connect, process, network
    <3> QED
      BY <1>1, <3>1 DEF Goes, ClientTypes
  <2>3. CASE ctrl_c_handler(d)
    BY <1>5, <2>3 DEF ctrl_c_handler
  <2> QED
    BY <1>9, <2>1, <2>2, <2>3 DEF UserStep
<1> QED
  BY <1>3, <1>4, <1>6, <1>8, <1>9 DEF ChatNext

(* A connection that is accepted is not logged in.                         *)
LEMMA NewSession ==
  ASSUME IInv, IInv', Loop, NEW fd \in Fds, sock[fd] = "free", sock'[fd] # "free"
  PROVE  Session(fd)' = NoUser
<1>1. pc = "accept" /\ pc' = "handshake"
  BY LoopSockets
<1>2. Accept
  BY <1>1 DEF Loop, sdb_setup, sdb_execute, Select, SelectWith, HealthCheck, EndPass, ss_free, Capture,
     CaptureEof, IsNext, Execute, cmdh_execute_command, cmdh_msg_global, cmdh_msg_pm, cmdh_save,
     cmdh_register, cmdh_login, cmdh_close, cmdh_logout, cmdh_get_active_users,
     cmdh_get_global_history, cmdh_pm_history, cmdh_server_health_ping, UnnamedCommand,
     InvalidCommand, Executes
<1>3. PICK loc \in Slots, f \in Fds :
        child_fd[loc] = -1 /\ child_fd' = [child_fd EXCEPT ![loc] = f] /\ active_users' = active_users
  BY <1>1, <1>2 DEF Accept, Gone, ProcessGone, IsFirst, FreeSlots, ss_add_child_connection
<1>4. PICK i \in Slots : child_fd'[i] = fd
  BY DEF IInv, TableMatchesSockets
<1>5. i = loc
  <2>1. child_fd[i] # fd
    BY DEF IInv, TableMatchesSockets
  <2> QED
    BY <1>3, <1>4, <2>1 DEF IInv, TypeOK
<1>6. active_users'[i] = NoUser
  BY <1>3, <1>5 DEF IInv, SessionsFit
<1> QED
  BY <1>4, <1>6, FdFacts, SessionsMatchNext DEF SessionsMatch

(* The news come with the changes.                                         *)
LEMMA TruthStep ==
  ASSUME IInv, IInv', OneHandshake, ConnInv, ConnInv', ClientTypes, PlacesMatch,
         TruthIsComing, ChatNext
  PROVE  TruthIsComing'
<1> SUFFICES ASSUME NEW c \in Clients, NEW fd \in Fds, conn'[c] = fd,
                    NEW kind, WillBeTold(told'[c], inbox'[c], kind)
             PROVE  kind = LoggedIn <=> Session(fd)' # NoUser
  BY DEF TruthIsComing, WillBeTold
<1>1. conn[c] = fd /\ WillBeTold(told[c], inbox[c], kind) => (kind = LoggedIn <=> Session(fd) # NoUser)
  BY DEF TruthIsComing
<1>2. IsSequence(inbox[c]) /\ fd # -1
  BY FdFacts DEF ClientTypes
<1>3. sock'[fd] # "free" /\ (conn[c] = fd => sock[fd] # "free")
  BY <1>2 DEF ConnInv
<1>4. CASE ServerStep
  <2>1. Loop /\ told' = told /\ inbox'[c] = inbox[c] \o Delivered(c)
    BY <1>4 DEF ServerStep, Delivers
  <2>2. CASE conn[c] = fd
    <3>1. sock[fd] = "open" /\ sock'[fd] # "free"
      <4>1. sock[fd] # "connecting"
        BY <2>1, LoopSockets DEF OneHandshake
      <4> QED
        BY <1>2, <2>2, <4>1 DEF PlacesMatch, ConnInv
    <3>2. Delivered(c) = FramesTo(fd)
      BY <1>2, <2>2 DEF Delivered
    <3>3. CASE Session(fd)' = Session(fd) /\ FramesTo(fd) = <<>>
      <4>1. inbox'[c] = inbox[c]
        BY <1>2, <2>1, <3>2, <3>3 DEF IsSequence
      <4> QED
        BY <1>1, <2>1, <2>2, <3>3, <4>1
    <3>4. ASSUME NEW f, FramesTo(fd) = <<f>>,
                 IF f.kind \in News THEN f.kind = LoggedIn <=> Session(fd)' # NoUser
                                    ELSE Session(fd)' = Session(fd)
          PROVE  kind = LoggedIn <=> Session(fd)' # NoUser
      <4>1. WillBeTold(told[c], inbox[c] \o <<f>>, kind)
        BY <2>1, <3>2, <3>4
      <4>2. IF f.kind \in News THEN kind = f.kind ELSE WillBeTold(told[c], inbox[c], kind)
        BY <1>2, <4>1, WritesNews
      <4> QED
        BY <1>1, <2>2, <3>4, <4>2
    <3> QED
      BY <2>1, <3>1, <3>3, <3>4, NewsTo
  <2>3. CASE conn[c] # fd
    <3>1. PICK d \in Clients, f \in Fds :
            Waiting(d) /\ sock[f] = "free" /\ sock'[f] # "free" /\ conn' = [conn EXCEPT ![d] = f]
      BY <1>2, <1>4, <2>3 DEF ServerStep, Assigns
    <3>2. d = c /\ f = fd
      BY <2>3, <3>1 DEF ConnInv, ConnTypes
    <3>3. inbox'[c] = <<>> /\ told'[c] = "none"
      <4>1. inbox[c] = <<>> /\ told[c] = "none" /\ Delivered(c) = <<>>
        BY <3>1, <3>2 DEF Waiting, PlacesMatch, Delivered
      <4> QED
        BY <2>1, <4>1
    <3>4. kind # LoggedIn
      <4>1. 1 .. Len(<<>>) = {}
        OBVIOUS
      <4>2. kind = "none"
        BY <3>3, <4>1 DEF WillBeTold
      <4> QED
        BY <4>2, NewsFacts
    <3>5. Session(fd)' = NoUser
      BY <2>1, <3>1, <3>2, NewSession
    <3> QED
      BY <3>4, <3>5
  <2> QED
    BY <2>2, <2>3
<1>5. ASSUME UNCHANGED <<child_fd, active_users>>, conn[c] = fd,
             WillBeTold(told[c], inbox[c], kind)
      PROVE  kind = LoggedIn <=> Session(fd)' # NoUser
  <2>1. Session(fd)' = Session(fd)
    BY <1>3, <1>5 DEF Session, ss_get_fd_loc, IsFirst
  <2> QED
    BY <1>1, <1>5, <2>1
<1>6. CASE RstStep \/ OperatorStep
  BY <1>5, <1>6 DEF RstStep, RstArrives, SocketBecomes, OperatorStep, OperatorQuits, SelectWith,
     client, network
<1>7. ASSUME NEW d \in Clients, Closes(d) PROVE kind = LoggedIn <=> Session(fd)' # NoUser
  <2>1. d # c /\ conn[c] = fd
    BY <1>2, <1>7 DEF Closes, ConnInv, ConnTypes
  <2>2. UNCHANGED <<child_fd, active_users>>
    BY <1>7 DEF Closes, PeerCloses, PeerAborts, SocketBecomes, vars, process
  <2> QED
    BY <1>5, <1>7, <2>1, <2>2 DEF Closes, ClientTypes
<1>8. ASSUME NEW d \in Clients, ClientStep(d), ~ cmdc_exit_close(d)
      PROVE  kind = LoggedIn <=> Session(fd)' # NoUser
  <2>1. UNCHANGED <<child_fd, active_users>> /\ conn' = conn
    BY <1>8 DEF ClientStep, WithoutServer, ssl_block_write_request, PeerSends, WritesInVain, LosesServer,
       vars, process, network
  <2>2. CASE cmdc_execute_server_command(d) /\ d = c
    <3>1. told'[c] = IF Head(inbox[c]).kind \in News THEN Head(inbox[c]).kind ELSE told[c]
      BY <2>2 DEF cmdc_execute_server_command, ClientTypes
    <3>2. inbox[c] # <<>> /\ inbox'[c] = Tail(inbox[c])
      BY <2>2 DEF cmdc_execute_server_command, ClientTypes
    <3>3. WillBeTold(told[c], inbox[c], kind)
      BY <1>2, <3>1, <3>2, ReadsNews
    <3> QED
      BY <1>5, <2>1, <3>3
  <2>3. CASE ~ (cmdc_execute_server_command(d) /\ d = c)
    <3>1. told'[c] = told[c] /\ inbox'[c] = inbox[c]
      BY <1>8, <2>3 DEF ClientStep, WithoutServer, takes_line, cmdc_execute_server_command,
         ssl_block_write_request, WritesInVain, Wrote, LosesServer, ClientTypes
    <3> QED
      BY <1>5, <2>1, <3>1
  <2> QED
    BY <2>2, <2>3
<1>9. ASSUME NEW d \in Clients, UserStep(d) \/ ssl_block_connect(d), ~ ctrl_c_handler(d)
      PROVE  kind = LoggedIn <=> Session(fd)' # NoUser
  <2>1. UNCHANGED <<child_fd, active_users, inbox, told>> /\ conn'[c] \in {-1, conn[c]}
    BY <1>9 DEF UserStep, WithoutServer, user_types, do_server_connection, Connect, ssl_block_connect,
       ssl_block_accept, vars, process, network, ConnInv, ConnTypes
  <2> QED
    BY <1>2, <1>5, <2>1
<1> QED
  BY <1>4, <1>6, <1>7, <1>8, <1>9 DEF ChatNext, cmdc_exit_close, ClientStep, UserStep, ctrl_c_handler

-----------------------------------------------------------------------------
(* What the chat promises its clients.                                     *)

ClientInv == OneHandshake /\ LineTypes /\ ClientTypes /\ PlacesMatch /\ TruthIsComing

(* The chat starts with clients that are not there yet.                    *)
LEMMA ClientInitInv == ChatInit => ClientInv
<1> SUFFICES ASSUME ChatInit PROVE ClientInv
  OBVIOUS
<1>1. OneHandshake
  BY DEF ChatInit, Init, NoSockets, OneHandshake
<1>2. <<>> \in Seq({}) /\ <<>> \in Seq(Typable) /\ Len(<<>>) = 0 /\ Room \in Nat /\ MaxLines \in Nat
  BY ClientAssumption
<1>3. LineTypes /\ ClientTypes
  BY <1>2, TypableFacts DEF ChatInit, ClientInit, LineTypes, ClientTypes, ClientPlaces, IsSequence
<1>4. PlacesMatch /\ TruthIsComing
  BY FdFacts DEF ChatInit, ClientInit, PlacesMatch, TruthIsComing
<1> QED
  BY <1>1, <1>3, <1>4 DEF ClientInv

(* Every step keeps what they know.                                        *)
LEMMA ClientInvStep ==
  ServerInv /\ ConnInv /\ ClientInv /\ [ChatNext]_all => ClientInv'
<1> SUFFICES ASSUME ServerInv, ConnInv, ClientInv, [ChatNext]_all PROVE ClientInv'
  OBVIOUS
<1>1. ServerInv' /\ ConnInv' /\ [Next]_vars
  BY ChatInvStep
<1>2. IInv /\ IInv'
  BY <1>1 DEF ServerInv
<1>3. OneHandshake'
  BY <1>1, <1>2, HandshakeInv DEF ClientInv
<1>4. CASE ChatNext
  <2>1. LineTypes' /\ ClientTypes'
    BY <1>4, LineTypesStep, ClientTypesStep DEF ClientInv
  <2>2. PlacesMatch'
    BY <1>2, <1>4, PlacesStep DEF ClientInv
  <2>3. TruthIsComing'
    BY <1>1, <1>2, <1>4, TruthStep DEF ClientInv
  <2> QED
    BY <1>3, <2>1, <2>2, <2>3 DEF ClientInv
<1>5. CASE UNCHANGED all
  <2>1. UNCHANGED <<place, line, inbox, told, said, conn, sock, child_fd, active_users>>
    BY <1>5 DEF all, vars, process, client, network
  <2>2. LineTypes' /\ ClientTypes' /\ PlacesMatch'
    BY <2>1 DEF ClientInv, LineTypes, ClientTypes, PlacesMatch
  <2>3. \A fd \in Fds : Session(fd)' = Session(fd)
    BY <2>1 DEF Session, ss_get_fd_loc, IsFirst
  <2>4. TruthIsComing'
    <3> SUFFICES ASSUME NEW c \in Clients, NEW fd \in Fds, conn'[c] = fd,
                        NEW kind, WillBeTold(told'[c], inbox'[c], kind)
                 PROVE  kind = LoggedIn <=> Session(fd)' # NoUser
      BY DEF TruthIsComing, WillBeTold
    <3>1. conn[c] = fd /\ WillBeTold(told[c], inbox[c], kind)
      BY <2>1
    <3> QED
      BY <2>3, <3>1 DEF ClientInv, TruthIsComing
  <2> QED
    BY <1>3, <2>2, <2>4 DEF ClientInv
<1> QED
  BY <1>4, <1>5

(* It is an invariant of the chat.                                         *)
THEOREM ClientsAreInPlace == ChatSpec => []ClientInv
BY ClientInitInv, ClientInvStep, ChatRunsServer, ConnectionsAreApart, PTL DEF ChatSpec

(* A client that has read everything was last told that it is logged in    *)
(* exactly if the server has a session for it: whatever REGISTER and its   *)
(* chained LOGIN, the refused logins, the switches of users and LOGOUT did,*)
(* and in whatever order the clients came, wrote and went.                 *)
THEOREM ClientsKnowTheirSession == ChatSpec => []ToldTheTruth
<1>1. ServerInv /\ ConnInv /\ ClientInv => ToldTheTruth
  <2> SUFFICES ASSUME ServerInv, ConnInv, ClientInv, NEW c \in Clients, Settled(c)
               PROVE  told[c] = LoggedIn <=> ss_is_fd_logged_in(conn[c])
    BY DEF ToldTheTruth
  <2>1. conn[c] \in Fds /\ sock[conn[c]] # "free" /\ inbox[c] = <<>>
    BY DEF Settled, ConnInv, ConnTypes
  <2>2. ss_is_fd_logged_in(conn[c]) <=> Session(conn[c]) # NoUser
    BY <2>1 DEF ss_is_fd_logged_in, Session
  <2>3. WillBeTold(told[c], inbox[c], told[c])
    <3>1. 1 .. Len(<<>>) = {}
      OBVIOUS
    <3> QED
      BY <2>1, <3>1 DEF WillBeTold
  <2> QED
    BY <2>1, <2>2, <2>3 DEF ClientInv, TruthIsComing
<1> QED
  BY <1>1, ChatRunsServer, ConnectionsAreApart, ClientsAreInPlace, PTL

(* The types of the chat, and its bounds: the server's count of the records*)
(* that have arrived is that of the requests under way, and no more frames *)
(* are under way to a client than its connection holds, where end-of-file  *)
(* is reported as an error.                                                *)
THEOREM ChatTypeCorrect == ASSUME EofReads = {-1} PROVE ChatSpec => []ChatTypeOK
<1>1. ServerInv /\ ConnInv /\ ClientInv /\ RecordsInv => ChatTypeOK
  BY DEF ServerInv, IInv, ConnInv, ConnTypes, ClientInv, ClientTypes, RecordsInv, ChatTypeOK
<1> QED
  BY <1>1, ChatRunsServer, ConnectionsAreApart, ClientsAreInPlace, RecordsAreRequests, PTL

-----------------------------------------------------------------------------
(* Lemmas about the messages that are printed, those in the frames that are*)
(* under way, and the log.                                                 *)

Broadcasts(frames) == {k \in 1 .. Len(frames) : frames[k].kind = "GLOBAL"}

(* A frame that brings no message to all.                                  *)
IsQuiet(frame) ==
  /\ frame.kind # "GLOBAL"
  /\ IsSequence(frame.rows)
  /\ \A k \in 1 .. Len(frame.rows) : IsDm(frame.rows[k])

Rising(at) == \A j, k \in DOMAIN at : j < k => at[j] < at[k]

(* The messages to all that are printed, and after them those that are     *)
(* under way, have places in the log, in this order.                       *)
PlacedBy(at, next, rows, frames, log) ==
  /\ at \in [Globals(rows) -> Globals(log)] /\ next \in [Broadcasts(frames) -> Globals(log)]
  /\ Rising(at) /\ Rising(next)
  /\ \A j \in DOMAIN at, k \in DOMAIN next : at[j] < next[k]
  /\ \A k \in DOMAIN at : log[at[k]] = rows[k]
  /\ \A k \in DOMAIN next : frames[k].rows = <<log[next[k]]>>

InLog(rows, frames, log) ==
  /\ \A k \in 1 .. Len(frames) : k \in Broadcasts(frames) \/ IsQuiet(frames[k])
  /\ \E at, next : PlacedBy(at, next, rows, frames, log)

Extends(log, longer) == Len(log) <= Len(longer) /\ \A k \in 1 .. Len(log) : longer[k] = log[k]

(* The log may grow.                                                       *)
LEMMA LogGrows ==
  ASSUME NEW rows, NEW frames, NEW log, NEW longer, IsSequence(log), IsSequence(longer),
         Extends(log, longer), InLog(rows, frames, log)
  PROVE  InLog(rows, frames, longer)
<1>1. PICK at, next : PlacedBy(at, next, rows, frames, log)
  BY DEF InLog
<1>2. Len(log) \in Nat /\ Len(longer) \in Nat
  BY DEF IsSequence
<1>3. \A k \in Globals(log) : k \in Globals(longer) /\ longer[k] = log[k]
  BY <1>2 DEF Globals, Extends
<1>4. PlacedBy(at, next, rows, frames, longer)
  BY <1>1, <1>3 DEF PlacedBy
<1> QED
  BY <1>4 DEF InLog

(* A frame of other things may follow.                                     *)
LEMMA QuietFrame ==
  ASSUME NEW rows, NEW frames, NEW log, IsSequence(frames), InLog(rows, frames, log),
         NEW frame, IsQuiet(frame)
  PROVE  InLog(rows, frames \o <<frame>>, log)
<1> DEFINE more == frames \o <<frame>>
<1>1. PICK at, next : PlacedBy(at, next, rows, frames, log)
  BY DEF InLog
<1>2. /\ Len(frames) \in Nat /\ Len(more) = Len(frames) + 1
      /\ \A k \in 1 .. Len(frames) : more[k] = frames[k]
      /\ more[Len(frames) + 1] = frame
  BY DEF IsSequence
<1> HIDE DEF more
<1>3. Broadcasts(more) = Broadcasts(frames)
  BY <1>2 DEF Broadcasts, IsQuiet
<1>4. \A k \in Broadcasts(frames) : more[k] = frames[k]
  BY <1>2 DEF Broadcasts
<1>5. PlacedBy(at, next, rows, more, log)
  BY <1>1, <1>3, <1>4 DEF PlacedBy
<1>6. \A k \in 1 .. Len(more) : k \in Broadcasts(more) \/ IsQuiet(more[k])
  BY <1>2, <1>3 DEF InLog
<1> QED
  BY <1>5, <1>6 DEF InLog, more

(* The message that the log will get next may follow, for all or for some. *)
LEMMA BroadcastFrame ==
  ASSUME NEW rows, NEW frames, NEW log, IsSequence(frames), IsSequence(log), InLog(rows, frames, log),
         NEW row, ~ IsDm(row), NEW frame, frame.kind = "GLOBAL", frame.rows = <<row>>
  PROVE  InLog(rows, frames \o <<frame>>, log \o <<row>>)
<1> DEFINE more == frames \o <<frame>>
           longer == log \o <<row>>
           n == Len(frames) + 1
           end == Len(log) + 1
<1>1. PICK at, next : PlacedBy(at, next, rows, frames, log)
  BY DEF InLog
<1>2. /\ Len(frames) \in Nat /\ Len(more) = n
      /\ \A k \in 1 .. Len(frames) : more[k] = frames[k]
      /\ more[n] = frame
  BY DEF IsSequence
<1>3. /\ Len(log) \in Nat /\ Len(longer) = end
      /\ \A k \in 1 .. Len(log) : longer[k] = log[k]
      /\ longer[end] = row
  BY DEF IsSequence
<1> HIDE DEF more, longer
<1>4. /\ \A k \in Broadcasts(more) : k \in Nat /\ (k = n \/ (k \in Broadcasts(frames) /\ k < n))
      /\ n \in Broadcasts(more)
      /\ \A k \in Broadcasts(frames) : more[k] = frames[k] /\ k \in Nat /\ k < n /\ k # n
  BY <1>2 DEF Broadcasts
<1>5. /\ \A k \in Globals(log) : k \in Globals(longer) /\ longer[k] = log[k] /\ k < end /\ k \in Nat
      /\ end \in Globals(longer)
  BY <1>3 DEF Globals
<1> DEFINE then == [k \in Broadcasts(more) |-> IF k = n THEN end ELSE next[k]]
<1> HIDE DEF n, end
<1>6. then \in [Broadcasts(more) -> Globals(longer)] /\ at \in [Globals(rows) -> Globals(longer)]
  BY <1>1, <1>4, <1>5 DEF PlacedBy
<1>7. /\ then[n] = end
      /\ \A k \in Broadcasts(more) : k # n => then[k] = next[k] /\ k \in DOMAIN next
  BY <1>1, <1>4 DEF PlacedBy
<1> HIDE DEF then
<1>8. /\ DOMAIN then = Broadcasts(more)
      /\ \A k \in DOMAIN next : next[k] < end /\ next[k] \in Globals(log)
      /\ \A k \in DOMAIN at : at[k] < end /\ at[k] \in Globals(log)
  BY <1>1, <1>5, <1>6 DEF PlacedBy
<1>9. Rising(then)
  <2> SUFFICES ASSUME NEW j \in Broadcasts(more), NEW k \in Broadcasts(more), j < k
               PROVE  then[j] < then[k]
    BY <1>8 DEF Rising
  <2>1. j # n
    BY <1>4, <1>2 DEF n
  <2>2. CASE k = n
    BY <1>7, <1>8, <2>1, <2>2
  <2>3. CASE k # n
    BY <1>1, <1>7, <2>1, <2>3 DEF PlacedBy, Rising
  <2> QED
    BY <2>2, <2>3
<1>10. \A j \in DOMAIN at, k \in DOMAIN then : at[j] < then[k]
  BY <1>1, <1>7, <1>8 DEF PlacedBy
<1>11. \A k \in DOMAIN at : longer[at[k]] = rows[k]
  BY <1>1, <1>5, <1>8 DEF PlacedBy
<1>12. \A k \in DOMAIN then : more[k].rows = <<longer[then[k]]>>
  <2> SUFFICES ASSUME NEW k \in Broadcasts(more) PROVE more[k].rows = <<longer[then[k]]>>
    BY <1>8
  <2>1. CASE k = n
    BY <1>2, <1>3, <1>7, <2>1 DEF n, end
  <2>2. CASE k # n
    <3>1. k \in DOMAIN next /\ then[k] = next[k] /\ next[k] \in Globals(log) /\ more[k] = frames[k]
      BY <1>4, <1>7, <1>8, <2>2
    <3> QED
      BY <1>1, <1>5, <3>1 DEF PlacedBy
  <2> QED
    BY <2>1, <2>2
<1>13. PlacedBy(at, then, rows, more, longer)
  BY <1>1, <1>6, <1>9, <1>10, <1>11, <1>12 DEF PlacedBy
<1>14. \A k \in 1 .. Len(more) : k \in Broadcasts(more) \/ IsQuiet(more[k])
  BY <1>2, <1>4 DEF InLog, Broadcasts, n
<1> QED
  BY <1>13, <1>14 DEF InLog, more, longer

(* The first frame is read and printed.                                    *)
LEMMA FrameRead ==
  ASSUME NEW rows, NEW frames, NEW log, IsSequence(rows), IsSequence(frames), frames # <<>>,
         InLog(rows, frames, log)
  PROVE  /\ IsSequence(rows \o Head(frames).rows)
         /\ InLog(rows \o Head(frames).rows, Tail(frames), log)
<1> DEFINE new == Head(frames).rows
           all_rows == rows \o new
           rest == Tail(frames)
<1>1. PICK at, next : PlacedBy(at, next, rows, frames, log)
  BY DEF InLog
<1>2. /\ Len(frames) \in Nat /\ Len(frames) >= 1 /\ Len(rest) = Len(frames) - 1
      /\ \A k \in 1 .. Len(rest) : rest[k] = frames[k + 1]
      /\ Head(frames) = frames[1]
  BY DEF IsSequence
<1>3. 1 \in Broadcasts(frames) \/ IsQuiet(frames[1])
  BY <1>2 DEF InLog
<1>4. CASE 1 \in Broadcasts(frames)
  <2> DEFINE n == Len(rows) + 1
             row == log[next[1]]
             printed == [k \in Globals(all_rows) |-> IF k = n THEN next[1] ELSE at[k]]
             then == [k \in Broadcasts(rest) |-> next[k + 1]]
  <2>1. new = <<row>> /\ next[1] \in Globals(log)
    BY <1>1, <1>2, <1>4 DEF PlacedBy
  <2>2. ~ IsDm(row)
    BY <2>1 DEF Globals
  <2> HIDE DEF new, row
  <2>3. /\ IsSequence(all_rows) /\ Len(rows) \in Nat /\ Len(all_rows) = n
        /\ \A k \in 1 .. Len(rows) : all_rows[k] = rows[k]
        /\ all_rows[n] = row
    <3>1. PICK R : rows \in Seq(R)
      BY DEF IsSequence
    <3>2. rows \in Seq(R \cup {row}) /\ <<row>> \in Seq(R \cup {row}) /\ Len(<<row>>) = 1 /\ <<row>>[1] = row
      BY <3>1
    <3>3. all_rows = rows \o <<row>>
      BY <2>1
    <3> HIDE DEF all_rows
    <3> QED
      BY <3>2, <3>3 DEF IsSequence
  <2> HIDE DEF all_rows, rest
  <2>4. /\ n \in Globals(all_rows)
        /\ \A k \in Globals(all_rows) : k \in Nat /\ (k = n \/ (k \in Globals(rows) /\ k < n /\ all_rows[k] = rows[k]))
    BY <2>2, <2>3 DEF Globals
  <2>5. \A k \in Broadcasts(rest) : k \in Nat /\ k >= 1 /\ k + 1 \in Broadcasts(frames) /\ rest[k] = frames[k + 1]
    BY <1>2 DEF Broadcasts
  <2> HIDE DEF n
  <2>6. /\ printed \in [Globals(all_rows) -> Globals(log)] /\ DOMAIN printed = Globals(all_rows)
        /\ then \in [Broadcasts(rest) -> Globals(log)] /\ DOMAIN then = Broadcasts(rest)
    BY <1>1, <2>1, <2>4, <2>5 DEF PlacedBy
  <2>7. /\ printed[n] = next[1]
        /\ \A k \in DOMAIN printed : k # n => k \in DOMAIN at /\ printed[k] = at[k]
        /\ \A k \in DOMAIN then : then[k] = next[k + 1] /\ k + 1 \in DOMAIN next
    BY <1>1, <2>4, <2>5 DEF PlacedBy
  <2> HIDE DEF printed, then
  <2>8. \A k \in DOMAIN then : next[1] < then[k]
    BY <1>1, <1>4, <2>5, <2>6, <2>7 DEF PlacedBy, Rising
  <2>9. \A j \in DOMAIN at : at[j] < next[1]
    BY <1>1, <1>4 DEF PlacedBy
  <2>10. Rising(printed)
    <3> SUFFICES ASSUME NEW j \in DOMAIN printed, NEW k \in DOMAIN printed, j < k
                 PROVE  printed[j] < printed[k]
      BY DEF Rising
    <3>1. j # n
      BY <2>4, <2>6
    <3>2. CASE k = n
      BY <2>7, <2>9, <3>1, <3>2
    <3>3. CASE k # n
      BY <1>1, <2>7, <3>1, <3>3 DEF PlacedBy, Rising
    <3> QED
      BY <3>2, <3>3
  <2>11. Rising(then)
    BY <1>1, <2>5, <2>6, <2>7 DEF PlacedBy, Rising
  <2>12. \A j \in DOMAIN printed, k \in DOMAIN then : printed[j] < then[k]
    <3> SUFFICES ASSUME NEW j \in DOMAIN printed, NEW k \in DOMAIN then
                 PROVE  printed[j] < then[k]
      OBVIOUS
    <3>1. CASE j = n
      BY <2>7, <2>8, <3>1
    <3>2. CASE j # n
      BY <1>1, <2>7, <3>2 DEF PlacedBy
    <3> QED
      BY <3>1, <3>2
  <2>13. \A k \in DOMAIN printed : log[printed[k]] = all_rows[k]
    <3> SUFFICES ASSUME NEW k \in DOMAIN printed PROVE log[printed[k]] = all_rows[k]
      OBVIOUS
    <3>1. CASE k = n
      BY <2>3, <2>7, <3>1 DEF row
    <3>2. CASE k # n
      BY <1>1, <2>4, <2>6, <2>7, <3>2 DEF PlacedBy
    <3> QED
      BY <3>1, <3>2
  <2>14. \A k \in DOMAIN then : rest[k].rows = <<log[then[k]]>>
    BY <1>1, <2>5, <2>6, <2>7 DEF PlacedBy
  <2>15. PlacedBy(printed, then, all_rows, rest, log)
    BY <2>6, <2>10, <2>11, <2>12, <2>13, <2>14 DEF PlacedBy
  <2>16. \A k \in 1 .. Len(rest) : k \in Broadcasts(rest) \/ IsQuiet(rest[k])
    BY <1>2 DEF InLog, Broadcasts
  <2> QED
    BY <2>3, <2>15, <2>16 DEF InLog, all_rows, rest, new
<1>5. CASE IsQuiet(frames[1])
  <2> DEFINE then == [k \in Broadcasts(rest) |-> next[k + 1]]
  <2>1. IsSequence(new) /\ \A k \in 1 .. Len(new) : IsDm(new[k])
    BY <1>2, <1>5 DEF IsQuiet
  <2> HIDE DEF new
  <2>2. /\ IsSequence(all_rows) /\ Len(rows) \in Nat /\ Len(new) \in Nat
        /\ Len(all_rows) = Len(rows) + Len(new)
        /\ \A k \in 1 .. Len(rows) : all_rows[k] = rows[k]
        /\ \A k \in Len(rows) + 1 .. Len(all_rows) : all_rows[k] = new[k - Len(rows)]
    <3>1. PICK R, S : rows \in Seq(R) /\ new \in Seq(S)
      BY <2>1 DEF IsSequence
    <3>2. rows \in Seq(R \cup S) /\ new \in Seq(R \cup S)
      BY <3>1
    <3> QED
      BY <3>2 DEF IsSequence
  <2> HIDE DEF all_rows, rest
  <2>3. Globals(all_rows) = Globals(rows) /\ \A k \in Globals(rows) : all_rows[k] = rows[k]
    <3>1. \A k \in Len(rows) + 1 .. Len(all_rows) : k - Len(rows) \in 1 .. Len(new)
      BY <2>2
    <3>2. \A k \in Len(rows) + 1 .. Len(all_rows) : IsDm(all_rows[k])
      BY <2>1, <2>2, <3>1
    <3>3. \A k \in 1 .. Len(rows) : IsDm(all_rows[k]) <=> IsDm(rows[k])
      BY <2>2
    <3> QED
      BY <2>2, <3>2, <3>3 DEF Globals
  <2>4. \A k \in Broadcasts(rest) : k \in Nat /\ k + 1 \in Broadcasts(frames) /\ rest[k] = frames[k + 1]
    BY <1>2 DEF Broadcasts
  <2>5. then \in [Broadcasts(rest) -> Globals(log)] /\ DOMAIN then = Broadcasts(rest)
        /\ \A k \in DOMAIN then : then[k] = next[k + 1] /\ k + 1 \in DOMAIN next
    BY <1>1, <2>4 DEF PlacedBy
  <2> HIDE DEF then
  <2>6. PlacedBy(at, then, all_rows, rest, log)
    BY <1>1, <2>3, <2>4, <2>5 DEF PlacedBy, Rising
  <2>7. \A k \in 1 .. Len(rest) : k \in Broadcasts(rest) \/ IsQuiet(rest[k])
    BY <1>2 DEF InLog, Broadcasts
  <2> QED
    BY <2>2, <2>6, <2>7 DEF InLog, all_rows, rest, new
<1> QED
  BY <1>3, <1>4, <1>5

(* A client that leaves reads no more.                                     *)
LEMMA FramesLost ==
  ASSUME NEW rows, NEW frames, NEW log, InLog(rows, frames, log)
  PROVE  InLog(rows, <<>>, log)
<1>1. PICK at, next : PlacedBy(at, next, rows, frames, log)
  BY DEF InLog
<1>2. Broadcasts(<<>>) = {}
  <2>1. 1 .. Len(<<>>) = {}
    OBVIOUS
  <2> QED
    BY <2>1 DEF Broadcasts
<1>3. PlacedBy(at, [k \in {} |-> 0], rows, <<>>, log)
  BY <1>1, <1>2 DEF PlacedBy, Rising
<1>4. \A k \in 1 .. Len(<<>>) : FALSE
  OBVIOUS
<1> QED
  BY <1>3, <1>4 DEF InLog

-----------------------------------------------------------------------------
(* What the server writes of the messages, and what it makes of the log.   *)

(* No client asks for the history of all, which brings what it has printed *)
(* already.                                                                *)
NoHistory == \A request \in Requests : request.route # "HISTORY"

(* A message to all that is delivered is saved: the checker accepts it,    *)
(* there is room, and the INSERT succeeds.                                 *)
AllIsSaved == cmdh_save /\ message.route = "GLOBAL" => messages' # messages

TheRow == Row(ss_get_username(cur_fd), Everyone, message.word)

(* A reply brings no messages.                                             *)
LEMMA QuietReply ==
  ASSUME NEW text, text # "GLOBAL"
  PROVE  IsQuiet(Frame(text, <<>>))
<1>1. <<>> \in Seq({}) /\ 1 .. Len(<<>>) = {}
  OBVIOUS
<1> QED
  BY <1>1, NewsFacts DEF IsQuiet, IsSequence

(* No reply is taken for a broadcast.                                      *)
LEMMA OtherKinds ==
  /\ "none" # "GLOBAL" /\ "" # "GLOBAL" /\ "Bad Request" # "GLOBAL" /\ "Bad Request." # "GLOBAL"
  /\ "You are not logged in." # "GLOBAL" /\ "Cannot find user" # "GLOBAL"
  /\ "Cannot send empty messages." # "GLOBAL" /\ "No friends to talk to?" # "GLOBAL"
  /\ "Username must be less than 20." # "GLOBAL" /\ "Register successful!" # "GLOBAL"
  /\ "Already logged in, logout of other account first." # "GLOBAL"
  /\ "Name given was invalid." # "GLOBAL" /\ "USERS" # "GLOBAL" /\ "HEALTH" # "GLOBAL"
  /\ "DM" # "GLOBAL" /\ "HISTORY" # "GLOBAL" /\ "PMHISTORY" # "GLOBAL"
  /\ LoggedIn # "GLOBAL" /\ LoggedOut # "GLOBAL"
  /\ \A username, password : /\ su_can_register(username, password) # "GLOBAL"
                             /\ su_validate_login(username, password) # "GLOBAL"
<1>1. /\ "The credentials provided are invalid." # "GLOBAL"
      /\ "This user is already registered" # "GLOBAL"
      /\ "Cannot find account" # "GLOBAL" /\ "Invalid password" # "GLOBAL" /\ "ok" # "GLOBAL"
  BY Zenon
<1>2. \A username, password : /\ su_can_register(username, password) # "GLOBAL"
                              /\ su_validate_login(username, password) # "GLOBAL"
  BY <1>1, Zenon DEF su_can_register, su_validate_login
<1> QED
  BY <1>2, Zenon DEF LoggedIn, LoggedOut

(* The handler that writes it, also where the process does not survive the *)
(* writing.                                                                *)
Speaks ==
  /\ cmdh_msg_global /\ pc' \in {"save", "crashed"}
  /\ message.argc = 2 /\ ~ NotLoggedIn /\ ss_get_username(cur_fd) # NULL

(* A step of the server writes the message to all that it will save, or    *)
(* nothing of the kind.                                                    *)
LEMMA HandlerRows ==
  ASSUME IInv, NoSelfDm, NoHistory, cmdh_execute_command, NEW o \in out'
  PROVE  \/ Speaks /\ o.frame = Frame("GLOBAL", <<TheRow>>)
         \/ IsQuiet(o.frame)
<1> DEFINE Goal == \/ Speaks /\ o.frame = Frame("GLOBAL", <<TheRow>>)
                   \/ IsQuiet(o.frame)
<1>1. ASSUME NEW W, NEW frame, NEW sessions, NEW at, Send(W, frame, sessions, at)
      PROVE  o.frame = frame /\ pc' \in {at, "crashed"}
  BY <1>1, FrameOf DEF Send, Continue, ProcessGone
<1>2. ASSUME NEW W, NEW text, text # "GLOBAL", NEW sessions, NEW at,
             Send(W, Frame(text, <<>>), sessions, at)
      PROVE  Goal
  <2>1. o.frame = Frame(text, <<>>)
    BY <1>1, <1>2
  <2>2. IsQuiet(Frame(text, <<>>))
    BY <1>2, QuietReply
  <2> QED
    BY <2>1, <2>2
<1>3. ASSUME NEW text, text # "GLOBAL", Reply(text) PROVE Goal
  BY <1>2, <1>3, Zenon DEF Reply
<1>4. ASSUME Silent PROVE Goal
  BY <1>2, <1>4, OtherKinds, Zenon DEF Silent
<1>5. ~ Segfault
  BY DEF Segfault
<1>6. CASE cmdh_msg_global
  <2>1. ASSUME message.argc = 2, ~ NotLoggedIn, ss_get_username(cur_fd) # NULL,
               Send(sm_recipients(cur_fd), Frame("GLOBAL", <<TheRow>>), active_users, "save")
        PROVE  Goal
    BY <1>1, <1>6, <2>1, Zenon DEF Speaks
  <2> QED
    BY <1>3, <1>4, <1>5, <1>6, <2>1, OtherKinds, Zenon DEF cmdh_msg_global, TheRow
<1>7. CASE cmdh_msg_pm
  <2>1. ASSUME NEW W, NEW name,
               Send(W, Frame("DM", <<Row(name, message.name, message.word)>>), active_users, "save")
        PROVE  Goal
    <3> DEFINE row == Row(name, message.name, message.word)
    <3>1. message # NULL
      BY <1>7, Zenon DEF cmdh_msg_pm, Executes
    <3>2. IsDm(row)
      <4>1. message.name \in Names
        BY <3>1, MessageTypes DEF IInv
      <4>2. row.to = message.name
        BY DEF Row
      <4> HIDE DEF row
      <4> QED
        BY <4>1, <4>2, DbAssumption DEF IsDm
    <3> HIDE DEF row
    <3>3. <<row>> \in Seq({row}) /\ \A k \in 1 .. Len(<<row>>) : <<row>>[k] = row
      OBVIOUS
    <3>4. IsQuiet(Frame("DM", <<row>>))
      <4>1. Frame("DM", <<row>>).kind = "DM" /\ Frame("DM", <<row>>).rows = <<row>>
        BY NewsFacts, Zenon
      <4>2. IsSequence(<<row>>)
        BY <3>3, Zenon DEF IsSequence
      <4>3. \A k \in 1 .. Len(<<row>>) : IsDm(<<row>>[k])
        BY <3>2, <3>3, Zenon
      <4> QED
        BY <4>1, <4>2, <4>3 DEF IsQuiet
    <3>5. o.frame = Frame("DM", <<row>>)
      BY <1>1, <2>1, Zenon DEF row
    <3> QED
      BY <3>4, <3>5
  <2> QED
    BY <1>3, <1>5, <1>7, <2>1, OtherKinds, Zenon DEF cmdh_msg_pm
<1>8. CASE cmdh_save
  BY <1>4, <1>8, Zenon DEF cmdh_save
<1>9. CASE cmdh_register
  BY <1>2, <1>3, <1>9, OtherKinds, Zenon DEF cmdh_register
<1>10. CASE cmdh_login
  BY <1>2, <1>3, <1>4, <1>10, OtherKinds, Zenon DEF cmdh_login
<1>11. CASE cmdh_logout
  BY <1>2, <1>3, <1>11, OtherKinds, Zenon DEF cmdh_logout
<1>12. CASE cmdh_close
  BY <1>12 DEF cmdh_close
<1>13. CASE cmdh_get_active_users
  BY <1>3, <1>13, OtherKinds, Zenon DEF cmdh_get_active_users
<1>14. ~ cmdh_get_global_history
  <2>1. message # NULL => message \in Requests
    BY DEF IInv, TypeOK
  <2> QED
    BY <2>1, Zenon DEF cmdh_get_global_history, Executes, NoHistory
<1>15. CASE cmdh_pm_history
  <2>1. ASSUME NEW W, NEW name,
               Send(W, Frame("PMHISTORY", pm_history(name, message.name, message.count)), active_users, "pass")
        PROVE  Goal
    <3> DEFINE rows == pm_history(name, message.name, message.count)
    <3>1. message # NULL
      BY <1>15, Zenon DEF cmdh_pm_history, Executes
    <3>2. message.count \in Int /\ messages \in Seq(Rows)
      BY <3>1, MessageTypes DEF IInv, TypeOK
    <3>3. rows \in Seq(Rows) /\ \A k \in 1 .. Len(rows) : IsDm(rows[k])
      BY <3>2, PmHistoryRows
    <3> HIDE DEF rows
    <3>4. IsQuiet(Frame("PMHISTORY", rows))
      BY <3>3, NewsFacts DEF IsQuiet, IsSequence
    <3>5. o.frame = Frame("PMHISTORY", rows)
      BY <1>1, <2>1, Zenon DEF rows
    <3> QED
      BY <3>4, <3>5
  <2> QED
    BY <1>3, <1>4, <1>5, <1>15, <2>1, OtherKinds, Zenon DEF cmdh_pm_history
<1>16. CASE cmdh_server_health_ping \/ UnnamedCommand \/ InvalidCommand
  BY <1>4, <1>5, <1>16, Zenon DEF cmdh_server_health_ping, UnnamedCommand, InvalidCommand
<1> QED
  BY <1>6, <1>7, <1>8, <1>9, <1>10, <1>11, <1>12, <1>13, <1>14, <1>15, <1>16
     DEF cmdh_execute_command

(* The same of every step of the loop.                                     *)
LEMMA LoopRows ==
  ASSUME IInv, NoSelfDm, NoHistory, Loop, NEW o \in out'
  PROVE  \/ Speaks /\ o.frame = Frame("GLOBAL", <<TheRow>>)
         \/ IsQuiet(o.frame)
<1>1. CASE ss_free
  <2>1. o.frame = Frame("SERVER_DISCONNECTED", <<>>)
    BY <1>1, FrameOf DEF ss_free
  <2>2. IsQuiet(Frame("SERVER_DISCONNECTED", <<>>))
    BY QuietReply
  <2> QED
    BY <2>1, <2>2
<1>2. CASE ~ ss_free
  <2>1. out' = {} \/ Execute
    BY <1>2 DEF Loop, sdb_setup, sdb_execute, SetUp, Select, SelectWith, Accept, HealthCheck, EndPass,
       Capture, CaptureEof
  <2> QED
    BY <2>1, HandlerRows DEF Execute
<1> QED
  BY <1>1, <1>2

(* And of what it is to one connection.                                    *)
LEMMA RowsTo ==
  ASSUME IInv, NoSelfDm, NoHistory, Loop, NEW fd
  PROVE  \/ FramesTo(fd) = <<>>
         \/ \E f : FramesTo(fd) = <<f>> /\ IsQuiet(f)
         \/ Speaks /\ FramesTo(fd) = <<Frame("GLOBAL", <<TheRow>>)>>
<1>1. CASE PingsClient /\ fd = cur_fd
  <2>1. FramesTo(fd) = <<Frame("HEALTH", <<>>)>>
    BY <1>1 DEF FramesTo
  <2>2. IsQuiet(Frame("HEALTH", <<>>))
    BY OtherKinds, QuietReply
  <2> QED
    BY <2>1, <2>2
<1>2. CASE ~ (PingsClient /\ fd = cur_fd) /\ \A o \in out' : o.to # fd
  BY <1>2 DEF FramesTo
<1>3. CASE ~ (PingsClient /\ fd = cur_fd) /\ \E o \in out' : o.to = fd
  <2> DEFINE first == CHOOSE o \in out' : o.to = fd
  <2>1. first \in out'
    BY <1>3
  <2>2. FramesTo(fd) = <<first.frame>>
    BY <1>3 DEF FramesTo
  <2> HIDE DEF first
  <2>3. \/ Speaks /\ first.frame = Frame("GLOBAL", <<TheRow>>)
        \/ IsQuiet(first.frame)
    BY <2>1, LoopRows
  <2>4. ASSUME first.frame = Frame("GLOBAL", <<TheRow>>)
        PROVE  FramesTo(fd) = <<Frame("GLOBAL", <<TheRow>>)>>
    BY <2>2, <2>4
  <2>5. ASSUME IsQuiet(first.frame) PROVE \E f : FramesTo(fd) = <<f>> /\ IsQuiet(f)
    BY <2>2, <2>5
  <2> QED
    BY <2>3, <2>4, <2>5
<1> QED
  BY <1>1, <1>2, <1>3

-----------------------------------------------------------------------------
(* How the log grows.                                                      *)

(* The messages that are saved are all that is heard, unless one to all is *)
(* about to be.                                                            *)
LEMMA HeardIsSaved ==
  /\ messages \in Seq(Rows) /\ ~ (pc = "save" /\ message.route = "GLOBAL") => Heard = messages
  /\ pc = "save" /\ message.route = "GLOBAL" => Heard = messages \o <<TheRow>>
<1>1. ASSUME messages \in Seq(Rows), ~ (pc = "save" /\ message.route = "GLOBAL") PROVE Heard = messages
  BY <1>1 DEF Heard
<1>2. ASSUME pc = "save" /\ message.route = "GLOBAL" PROVE Heard = messages \o <<TheRow>>
  BY <1>2 DEF Heard, TheRow
<1> QED
  BY <1>1, <1>2

(* The same of the next state.                                             *)
LEMMA HeardIsSavedNext ==
  /\ messages' \in Seq(Rows) /\ ~ (pc' = "save" /\ message'.route = "GLOBAL") => Heard' = messages'
  /\ pc' = "save" /\ message'.route = "GLOBAL" => Heard' = messages' \o <<TheRow'>>
<1>1. ASSUME messages' \in Seq(Rows), ~ (pc' = "save" /\ message'.route = "GLOBAL") PROVE Heard' = messages'
  BY <1>1 DEF Heard
<1>2. ASSUME pc' = "save" /\ message'.route = "GLOBAL" PROVE Heard' = messages' \o <<TheRow'>>
  BY <1>2 DEF Heard, TheRow
<1> QED
  BY <1>1, <1>2

(* It is a sequence of rows.                                               *)
LEMMA HeardIsSequence == (IInv => IsSequence(Heard)) /\ (IInv' => IsSequence(Heard'))
<1>1. ASSUME NEW s \in Seq(Rows), NEW row PROVE IsSequence(s) /\ IsSequence(s \o <<row>>)
  <2>1. s \in Seq(Rows \cup {row}) /\ <<row>> \in Seq(Rows \cup {row})
    OBVIOUS
  <2>2. s \o <<row>> \in Seq(Rows \cup {row})
    BY <2>1
  <2> QED
    BY <2>2 DEF IsSequence
<1>2. (IInv => messages \in Seq(Rows)) /\ (IInv' => messages' \in Seq(Rows))
  BY DEF IInv, TypeOK
<1>3. ASSUME IInv PROVE IsSequence(Heard)
  BY <1>1, <1>2, <1>3, HeardIsSaved
<1>4. ASSUME IInv' PROVE IsSequence(Heard')
  BY <1>1, <1>2, <1>4, HeardIsSavedNext
<1> QED
  BY <1>3, <1>4

(* The step that writes a message to all is heard.                         *)
LEMMA HeardSpoken ==
  ASSUME IInv, cmdh_msg_global, pc' = "save"
  PROVE  Heard' = Heard \o <<TheRow>>
<1>1. pc = "execute" /\ message.route = "GLOBAL" /\ messages' = messages
  BY DEF cmdh_msg_global, Executes, database
<1>2. ASSUME NEW W, NEW frame, NEW sessions, NEW at, Send(W, frame, sessions, at), at # "save" PROVE FALSE
  BY <1>2 DEF Send, Continue, ProcessGone
<1>3. UNCHANGED <<child_fd, active_users, cur_fd, message>>
  <2>1. PICK W, frame : Send(W, frame, active_users, "save")
    BY <1>2 DEF cmdh_msg_global, Reply, Silent, Segfault, ProcessGone
  <2> QED
    BY <2>1 DEF Send, Continue, ProcessGone
<1>4. Heard = messages
  BY <1>1, HeardIsSaved DEF IInv, TypeOK
<1>5. TheRow' = TheRow
  BY <1>3 DEF TheRow, ss_get_username, ss_get_fd_loc, IsFirst
<1>6. Heard' = messages' \o <<TheRow'>>
  BY <1>1, <1>3, HeardIsSavedNext
<1> QED
  BY <1>1, <1>4, <1>5, <1>6

(* A handler that is half done is done by its second half.                 *)
LEMMA HalfEnds ==
  ASSUME Next, pc = "save", pc' # "save", pc' \notin Down
  PROVE  cmdh_save
<1>1. ~ (ssl_block_accept \/ Environment)
  BY DEF ssl_block_accept, Environment, OperatorQuits, SelectWith, Connect, Kill, Restart, Gone, ProcessGone,
     PeerSends, PeerCloses, PeerAborts, RstArrives, SocketBecomes, process, Down
<1>2. Loop
  BY <1>1 DEF Next
<1> QED
  BY <1>2 DEF Loop, sdb_setup, sdb_execute, Select, SelectWith, Accept, HealthCheck, EndPass, ss_free,
     Capture, CaptureEof, IsNext, Execute, cmdh_execute_command, cmdh_msg_global, cmdh_msg_pm,
     cmdh_register, cmdh_login, cmdh_close, cmdh_logout, cmdh_get_active_users,
     cmdh_get_global_history, cmdh_pm_history, cmdh_server_health_ping, UnnamedCommand,
     InvalidCommand, Executes

(* No other step changes what is heard, but for private messages.          *)
LEMMA HeardKept ==
  ASSUME IInv, IInv', AllIsSaved, Next, ~ (cmdh_msg_global /\ pc' = "save"), pc' \notin Down
  PROVE  Extends(Heard, Heard')
<1>1. messages \in Seq(Rows) /\ messages' \in Seq(Rows)
  BY DEF IInv, TypeOK
<1>2. ASSUME Heard' = Heard PROVE Extends(Heard, Heard')
  <2>1. Len(Heard) \in Nat
    BY HeardIsSequence DEF IsSequence
  <2> QED
    BY <1>2, <2>1 DEF Extends
<1>3. CASE pc' = "save" /\ cmdh_msg_pm
  <2>1. message.route = "DM" /\ pc = "execute" /\ messages' = messages
    BY <1>3, Zenon DEF cmdh_msg_pm, Executes, database
  <2>2. message' = message
    <3>1. ASSUME NEW W, NEW frame, NEW at, Send(W, frame, active_users, at) PROVE at = "save" /\ message' = message
      BY <1>3, <3>1 DEF Send, Continue, ProcessGone
    <3>2. ~ Segfault
      BY <1>3 DEF Segfault, ProcessGone
    <3> QED
      BY <1>3, <3>1, <3>2, Zenon DEF cmdh_msg_pm, Reply
  <2>3. Heard = messages /\ Heard' = messages'
    BY <1>1, <2>1, <2>2, HeardIsSaved, HeardIsSavedNext
  <2> QED
    BY <1>2, <2>1, <2>3
<1>4. CASE pc' = "save" /\ pc' = pc /\ UNCHANGED <<child_fd, active_users, cur_fd, message, database>>
  <2>1. TheRow' = TheRow
    BY <1>4 DEF TheRow, ss_get_username, ss_get_fd_loc, IsFirst
  <2>2. Heard' = Heard
    BY <1>1, <1>4, <2>1, HeardIsSaved, HeardIsSavedNext DEF database
  <2> QED
    BY <1>2, <2>2
<1>5. CASE pc = "save" /\ pc' # "save"
  <2> DEFINE to == IF message.route = "DM" THEN message.name ELSE Everyone
             row == Row(ss_get_username(cur_fd), to, message.word)
  <2>1. cmdh_save
    BY <1>5, HalfEnds
  <2>2. messages' = messages \/ messages' = Append(messages, row)
    BY <2>1 DEF cmdh_save, sm_save_message
  <2>3. Heard' = messages'
    BY <1>1, <1>5, HeardIsSavedNext
  <2>4. CASE message.route = "GLOBAL"
    <3>1. row = TheRow
      BY <2>4 DEF TheRow
    <3>2. messages' = Append(messages, TheRow)
      BY <2>1, <2>2, <2>4, <3>1 DEF AllIsSaved
    <3>3. Heard = messages \o <<TheRow>>
      BY <1>5, <2>4, HeardIsSaved
    <3>4. Append(messages, TheRow) = messages \o <<TheRow>>
      <4> DEFINE new == TheRow
      <4> HIDE DEF new
      <4>1. messages \in Seq(Rows \cup {new})
        BY <1>1
      <4>2. Append(messages, new) = messages \o <<new>>
        BY <4>1
      <4> QED
        BY <4>2 DEF new
    <3> QED
      BY <1>2, <2>3, <3>2, <3>3, <3>4
  <2>5. CASE message.route # "GLOBAL"
    <3>1. Heard = messages
      BY <1>1, <2>5, HeardIsSaved
    <3>2. Len(messages') >= Len(messages) /\ \A k \in 1 .. Len(messages) : messages'[k] = messages[k]
      <4> HIDE DEF row
      <4>1. messages \in Seq(Rows \cup {row})
        BY <1>1
      <4> QED
        BY <2>2, <4>1
    <3>3. Len(messages) \in Nat /\ Len(messages') \in Nat
      BY <1>1
    <3> QED
      BY <2>3, <3>1, <3>2, <3>3 DEF Extends
  <2> QED
    BY <2>4, <2>5
<1>6. CASE pc # "save" /\ pc' # "save"
  <2>1. messages' = messages
    BY <1>6, LogChanges DEF cmdh_save
  <2>2. Heard' = Heard
    BY <1>1, <1>6, <2>1, HeardIsSaved, HeardIsSavedNext
  <2> QED
    BY <1>2, <2>2
<1> QED
  BY <1>3, <1>4, <1>5, <1>6, HalfDone

-----------------------------------------------------------------------------
(* What is printed, and what is under way, is in the log.                  *)

LogMatch ==
  /\ DOMAIN shown = Clients
  /\ pc \notin Down =>
       \A c \in Clients : IsSequence(shown[c]) /\ InLog(shown[c], inbox[c], Heard)

(* A process that is gone stays so in the chat.                            *)
LEMMA StaysDown == ChatNext /\ pc \in Down => pc' = pc
<1> SUFFICES ASSUME ChatNext, pc \in Down PROVE pc' = pc
  OBVIOUS
<1>1. ~ Loop
  BY DEF Loop, sdb_setup, sdb_execute, Select, SelectWith, Accept, HealthCheck, EndPass, ss_free,
     Capture, CaptureEof, IsNext, Execute, cmdh_execute_command, cmdh_msg_global, cmdh_msg_pm, cmdh_save,
     cmdh_register, cmdh_login, cmdh_close, cmdh_logout, cmdh_get_active_users,
     cmdh_get_global_history, cmdh_pm_history, cmdh_server_health_ping, UnnamedCommand,
     InvalidCommand, Executes, Down
<1>2. ~ ssl_block_accept /\ ~ OperatorQuits
  BY DEF ssl_block_accept, OperatorQuits, SelectWith, Down
<1>3. ASSUME NEW c \in Clients, ClientStep(c) PROVE pc' = pc
  BY <1>3 DEF ClientStep, WithoutServer, ssl_block_write_request, WritesInVain, cmdc_exit_close,
     Closes, LosesServer, PeerSends, PeerCloses, PeerAborts, SocketBecomes, vars, process
<1>4. ASSUME NEW c \in Clients, ssl_block_connect(c) \/ UserStep(c) PROVE pc' = pc
  BY <1>2, <1>4 DEF ssl_block_connect, UserStep, WithoutServer, do_server_connection, ctrl_c_handler,
     Closes, Connect, PeerCloses, PeerAborts, SocketBecomes, vars, process
<1>5. CASE RstStep
  BY <1>5 DEF RstStep, RstArrives, SocketBecomes
<1> QED
  BY <1>1, <1>2, <1>3, <1>4, <1>5 DEF ChatNext, ServerStep, OperatorStep

(* Only the server's own steps write.                                      *)
LEMMA OutsideIsSilent ==
  ASSUME ChatNext, ~ ServerStep
  PROVE  ~ (pc = "execute" /\ pc' = "save")
<1>1. ASSUME NEW c \in Clients, ClientStep(c) PROVE pc' = pc
  BY <1>1 DEF ClientStep, WithoutServer, ssl_block_write_request, WritesInVain, cmdc_exit_close,
     Closes, LosesServer, PeerSends, PeerCloses, PeerAborts, SocketBecomes, vars, process
<1>2. ASSUME NEW c \in Clients, UserStep(c) PROVE pc' = pc
  BY <1>2 DEF UserStep, WithoutServer, do_server_connection, ctrl_c_handler,
     Closes, Connect, PeerCloses, PeerAborts, SocketBecomes, vars, process
<1>3. ASSUME NEW c \in Clients, ssl_block_connect(c) PROVE pc = "handshake"
  BY <1>3 DEF ssl_block_connect, ssl_block_accept
<1>4. CASE RstStep
  BY <1>4 DEF RstStep, RstArrives, SocketBecomes
<1>5. CASE OperatorStep
  BY <1>5 DEF OperatorStep, OperatorQuits, SelectWith
<1> QED
  BY <1>1, <1>2, <1>3, <1>4, <1>5 DEF ChatNext

(* What the clients and their connections make of what is under way.       *)
LEMMA ClientRows ==
  ASSUME ClientTypes, DOMAIN shown = Clients, NEW log,
         \A c \in Clients : IsSequence(shown[c]) /\ InLog(shown[c], inbox[c], log),
         ChatNext, ~ ServerStep
  PROVE  /\ DOMAIN shown' = Clients
         /\ \A c \in Clients : IsSequence(shown'[c]) /\ InLog(shown'[c], inbox'[c], log)
<1> DEFINE Goal == /\ DOMAIN shown' = Clients
                   /\ \A c \in Clients : IsSequence(shown'[c]) /\ InLog(shown'[c], inbox'[c], log)
<1>1. /\ DOMAIN shown = Clients /\ DOMAIN inbox = Clients
      /\ \A c \in Clients : IsSequence(shown[c]) /\ IsSequence(inbox[c]) /\ InLog(shown[c], inbox[c], log)
  BY DEF ClientTypes
<1> DEFINE Fits(rows, frames) == InLog(rows, frames, log)
<1>2. \A c \in Clients : /\ Fits(shown[c], inbox[c]) /\ Fits(shown[c], <<>>)
                         /\ inbox[c] # <<>> => /\ IsSequence(shown[c] \o Head(inbox[c]).rows)
                                               /\ Fits(shown[c] \o Head(inbox[c]).rows, Tail(inbox[c]))
  BY <1>1, FramesLost, FrameRead
<1> HIDE DEF Fits
<1>3. ASSUME UNCHANGED <<shown, inbox>> PROVE Goal
  BY <1>1, <1>3
<1>4. ASSUME NEW c \in Clients, Closes(c) PROVE Goal
  <2>1. shown' = shown /\ inbox' = [inbox EXCEPT ![c] = <<>>]
    BY <1>4 DEF Closes
  <2>2. \A d \in Clients : IsSequence(shown'[d]) /\ Fits(shown'[d], inbox'[d])
    BY <1>1, <1>2, <2>1
  <2> QED
    BY <1>1, <2>1, <2>2 DEF Fits
<1>5. ASSUME NEW c \in Clients, cmdc_execute_server_command(c) PROVE Goal
  <2>1. /\ inbox[c] # <<>> /\ inbox' = [inbox EXCEPT ![c] = Tail(@)]
        /\ shown' = [shown EXCEPT ![c] = @ \o Head(inbox[c]).rows]
    BY <1>5 DEF cmdc_execute_server_command
  <2>2. \A d \in Clients : IsSequence(shown'[d]) /\ Fits(shown'[d], inbox'[d])
    BY <1>1, <1>2, <2>1
  <2>3. DOMAIN shown' = Clients
    BY <1>1, <2>1
  <2> QED
    BY <2>2, <2>3 DEF Fits
<1>6. ASSUME NEW c \in Clients, ClientStep(c) PROVE Goal
  BY <1>3, <1>4, <1>5, <1>6 DEF ClientStep, WithoutServer, takes_line, ssl_block_write_request,
     WritesInVain, cmdc_exit_close, LosesServer, Wrote
<1>7. ASSUME NEW c \in Clients, UserStep(c) \/ ssl_block_connect(c) PROVE Goal
  BY <1>3, <1>4, <1>7 DEF UserStep, WithoutServer, user_types, do_server_connection, ctrl_c_handler,
     ssl_block_connect
<1>8. CASE RstStep \/ OperatorStep
  BY <1>3, <1>8 DEF RstStep, OperatorStep, client
<1> QED
  BY <1>6, <1>7, <1>8 DEF ChatNext

(* What the server writes to a client has its place in a log that is kept, *)
(* or grows by the message that it writes.                                 *)
LEMMA ServerRows ==
  ASSUME IInv, NoSelfDm, NoHistory, ClientTypes, ServerStep, NEW c \in Clients,
         NEW log, NEW longer, IsSequence(log), IsSequence(longer), Extends(log, longer),
         Speaks => longer = log \o <<TheRow>>,
         InLog(shown[c], inbox[c], log)
  PROVE  InLog(shown[c], inbox'[c], longer)
<1>1. Loop /\ IsSequence(inbox[c]) /\ inbox'[c] = inbox[c] \o Delivered(c)
  BY DEF ServerStep, Delivers, ClientTypes
<1>2. \/ Delivered(c) = <<>>
      \/ \E f : Delivered(c) = <<f>> /\ IsQuiet(f)
      \/ Speaks /\ Delivered(c) = <<Frame("GLOBAL", <<TheRow>>)>>
  BY <1>1, RowsTo DEF Delivered
<1>3. CASE Delivered(c) = <<>>
  <2>1. inbox'[c] = inbox[c]
    BY <1>1, <1>3 DEF IsSequence
  <2> QED
    BY <2>1, LogGrows
<1>4. ASSUME NEW f, Delivered(c) = <<f>>, IsQuiet(f) PROVE InLog(shown[c], inbox'[c], longer)
  <2>1. InLog(shown[c], inbox'[c], log)
    BY <1>1, <1>4, QuietFrame
  <2> QED
    BY <2>1, LogGrows
<1>5. CASE Speaks /\ Delivered(c) = <<Frame("GLOBAL", <<TheRow>>)>>
  <2> DEFINE row == TheRow
             frame == Frame("GLOBAL", <<row>>)
  <2>1. longer = log \o <<row>>
    BY <1>5
  <2>2. ~ IsDm(row)
    BY DEF TheRow, Row, IsDm
  <2> HIDE DEF row
  <2>3. frame.kind = "GLOBAL" /\ frame.rows = <<row>>
    BY DEF Frame
  <2>4. inbox'[c] = inbox[c] \o <<frame>>
    BY <1>1, <1>5 DEF row
  <2> HIDE DEF frame
  <2>5. InLog(shown[c], inbox[c] \o <<frame>>, log \o <<row>>)
    BY <1>1, <2>2, <2>3, BroadcastFrame
  <2> QED
    BY <2>1, <2>4, <2>5
<1> QED
  BY <1>2, <1>3, <1>4, <1>5

(* A log that gets a message is the beginning of what it becomes.          *)
LEMMA LogGets ==
  ASSUME NEW log, IsSequence(log), NEW row
  PROVE  /\ IsSequence(log \o <<row>>) /\ Extends(log, log \o <<row>>)
         /\ Len(log \o <<row>>) = Len(log) + 1 /\ (log \o <<row>>)[Len(log) + 1] = row
<1>1. PICK S : log \in Seq(S)
  BY DEF IsSequence
<1>2. log \in Seq(S \cup {row}) /\ <<row>> \in Seq(S \cup {row})
  BY <1>1
<1>3. log \o <<row>> \in Seq(S \cup {row})
  BY <1>2
<1> QED
  BY <1>2, <1>3 DEF IsSequence, Extends

(* Every step keeps what is printed and under way in the log.              *)
LEMMA LogMatchStep ==
  ASSUME ServerInv, ServerInv', NoHistory, AllIsSaved, ClientTypes, LogMatch, [Next]_vars, ChatNext
  PROVE  LogMatch'
<1>1. IInv /\ IInv' /\ NoSelfDm
  BY DEF ServerInv
<1>2. CASE pc' \in Down
  <2>1. DOMAIN shown' = Clients
    <3>1. ASSUME NEW c \in Clients, Closes(c) PROVE shown' = shown
      BY <3>1 DEF Closes
    <3>2. shown' = shown \/ \E c \in Clients : cmdc_execute_server_command(c)
      BY <3>1 DEF ChatNext, ServerStep, RstStep, OperatorStep, client, ClientStep, UserStep, WithoutServer,
         takes_line, ssl_block_write_request, WritesInVain, cmdc_exit_close, LosesServer, Wrote,
         user_types, do_server_connection, ctrl_c_handler, ssl_block_connect
    <3> QED
      BY <3>2 DEF LogMatch, cmdc_execute_server_command
  <2> QED
    BY <1>2, <2>1 DEF LogMatch
<1>3. CASE pc' \notin Down /\ ServerStep
  <2>1. pc \notin Down /\ shown' = shown
    BY <1>3, StaysDown DEF ServerStep, ChatNext
  <2>2. IsSequence(Heard)
    BY <1>1, HeardIsSequence
  <2>3. IsSequence(Heard')
    BY <1>1, HeardIsSequence
  <2>4. CASE Speaks
    <3>1. Heard' = Heard \o <<TheRow>>
      BY <1>1, <1>3, <2>4, HeardSpoken DEF Speaks, Down
    <3>2. Extends(Heard, Heard')
      BY <2>2, <3>1, LogGets
    <3>3. \A c \in Clients : InLog(shown[c], inbox'[c], Heard')
      BY <1>1, <1>3, <2>1, <2>2, <2>3, <3>1, <3>2, ServerRows DEF LogMatch
    <3> QED
      BY <2>1, <3>3 DEF LogMatch
  <2>5. CASE ~ Speaks
    <3>1. ~ (cmdh_msg_global /\ pc' = "save")
      <4>1. \A W, frame, sessions : ~ Send(W, frame, sessions, "pass") \/ pc' # "save"
        BY DEF Send, Continue, ProcessGone
      <4>2. Segfault => pc' # "save"
        BY DEF Segfault, ProcessGone
      <4> QED
        BY <2>5, <4>1, <4>2 DEF Speaks, cmdh_msg_global, Silent, Reply
    <3>2. Next
      BY <1>3 DEF ServerStep, Next
    <3>3. Extends(Heard, Heard')
      BY <1>1, <1>3, <3>1, <3>2, HeardKept
    <3>4. \A c \in Clients : InLog(shown[c], inbox'[c], Heard')
      BY <1>1, <1>3, <2>1, <2>2, <2>3, <2>5, <3>3, ServerRows DEF LogMatch
    <3> QED
      BY <2>1, <3>4 DEF LogMatch
  <2> QED
    BY <2>4, <2>5
<1>4. CASE pc' \notin Down /\ ~ ServerStep
  <2>1. pc \notin Down
    BY <1>4, StaysDown
  <2>2. /\ DOMAIN shown' = Clients
        /\ \A c \in Clients : IsSequence(shown'[c]) /\ InLog(shown'[c], inbox'[c], Heard)
    BY <1>4, <2>1, ClientRows DEF LogMatch
  <2>3. IsSequence(Heard)
    BY <1>1, HeardIsSequence
  <2>4. IsSequence(Heard')
    BY <1>1, HeardIsSequence
  <2>5. Extends(Heard, Heard')
    <3>1. CASE Next
      <4>1. ~ (cmdh_msg_global /\ pc' = "save")
        BY <1>4, OutsideIsSilent DEF cmdh_msg_global, Executes
      <4> QED
        BY <1>1, <1>4, <3>1, <4>1, HeardKept
    <3>2. CASE UNCHANGED vars
      <4>1. Heard' = Heard
        BY <3>2 DEF vars, process, database, Heard, ss_get_username, ss_get_fd_loc, IsFirst
      <4>2. Len(Heard) \in Nat
        BY <2>3 DEF IsSequence
      <4> QED
        BY <4>1, <4>2 DEF Extends
    <3> QED
      BY <3>1, <3>2
  <2>6. \A c \in Clients : InLog(shown'[c], inbox'[c], Heard')
    BY <2>2, <2>3, <2>4, <2>5, LogGrows
  <2> QED
    BY <2>2, <2>6 DEF LogMatch
<1> QED
  BY <1>2, <1>3, <1>4

(* At first nothing is printed and nothing is under way.                   *)
LEMMA LogMatchInit == ChatInit => LogMatch
<1> SUFFICES ASSUME ChatInit PROVE LogMatch
  OBVIOUS
<1>1. /\ shown = [c \in Clients |-> <<>>] /\ inbox = [c \in Clients |-> <<>>]
      /\ IsSequence(<<>>)
  <2>1. <<>> \in Seq({})
    OBVIOUS
  <2> QED
    BY <2>1 DEF ChatInit, ClientInit, IsSequence
<1>2. 1 .. Len(<<>>) = {}
  OBVIOUS
<1>3. Globals(<<>>) = {} /\ Broadcasts(<<>>) = {}
  BY <1>2 DEF Globals, Broadcasts
<1>4. PlacedBy([k \in {} |-> 0], [k \in {} |-> 0], <<>>, <<>>, Heard)
  BY <1>3 DEF PlacedBy, Rising
<1>5. InLog(<<>>, <<>>, Heard)
  BY <1>2, <1>4 DEF InLog
<1> QED
  BY <1>1, <1>5 DEF LogMatch

(* What a client prints of the messages to all has its places in the log,  *)
(* in the order of the log, and so has what is under way to it: whoever    *)
(* comes, goes and talks, and whatever is written in between.  The         *)
(* assumption is that nobody asks for the history of all, and the          *)
(* condition that what is delivered is saved: where it is not, a client    *)
(* prints what no history will show.                                       *)
THEOREM PrintedIsLogged == ASSUME NoHistory PROVE ChatSpec /\ [][AllIsSaved]_all => []PrintsTheLog
<1>1. ServerInv /\ ConnInv /\ ClientInv /\ LogMatch /\ [ChatNext]_all /\ [AllIsSaved]_all => LogMatch'
  <2> SUFFICES ASSUME ServerInv, ConnInv, ClientInv, LogMatch, [ChatNext]_all, [AllIsSaved]_all
               PROVE  LogMatch'
    OBVIOUS
  <2>1. ServerInv' /\ [Next]_vars
    BY ChatInvStep
  <2>2. CASE UNCHANGED all
    BY <2>2 DEF all, vars, process, database, client, LogMatch, Heard, ss_get_username, ss_get_fd_loc, IsFirst
  <2>3. CASE ChatNext /\ AllIsSaved
    BY <2>1, <2>3, LogMatchStep DEF ClientInv
  <2> QED
    BY <2>2, <2>3
<1>2. LogMatch => PrintsTheLog
  <2> SUFFICES ASSUME LogMatch, pc \notin Down, NEW c \in Clients
               PROVE  \E at \in [Globals(shown[c]) -> Globals(Heard)] :
                        /\ \A j, k \in DOMAIN at : j < k => at[j] < at[k]
                        /\ \A k \in DOMAIN at : Heard[at[k]] = shown[c][k]
    BY DEF PrintsTheLog
  <2>1. PICK at, next : PlacedBy(at, next, shown[c], inbox[c], Heard)
    BY DEF LogMatch, InLog
  <2> QED
    BY <2>1 DEF PlacedBy, Rising
<1> QED
  BY <1>1, <1>2, LogMatchInit, ChatRunsServer, ConnectionsAreApart, ClientsAreInPlace, PTL DEF ChatSpec
=============================================================================
