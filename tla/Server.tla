------------------------------- MODULE Server -------------------------------
(***************************************************************************)
(* The server process (server.c) and what happens around it.  The process  *)
(* is one thread: a pass of its loop takes a snapshot of the ready         *)
(* descriptors, accepts at most one connection, serves each ready          *)
(* connection once in slot order, and looks at the terminal.  pc names the *)
(* place in the pass:                                                      *)
(*                                                                         *)
(*   setup -> create -> select                                             *)
(*   select -> accept -> handshake -> pass -> (health -> execute -> ...)*  *)
(*                                         -> select | stopped             *)
(*                                                                         *)
(* Peers connect, send and leave between any two of these steps.           *)
(***************************************************************************)
EXTENDS ServerCommands, FiniteSets

CONSTANTS MaxOpen,     \* bound: connections at a time, waiting ones included
          MaxPending,  \* bound: unread records of a connection
          Events       \* which of "close" (a peer leaves), "abort" (it leaves
                       \* without notice), "kill" (of the process) and "quit"
                       \* (typed on the terminal) can happen

ASSUME ServerAssumption ==
  /\ MaxOpen \in Nat
  /\ MaxPending \in Nat
  /\ Events \subseteq {"close", "abort", "kill", "quit"}

VARIABLES
  readfds,    \* what is left of the snapshot of this pass
  stack_msg,  \* the bytes apim_capture_socket_msg finds in its buffer when it
              \* reads none: the last message that any connection sent
  backlog     \* connections waiting for accept

loop == <<readfds, stack_msg, backlog>>
vars == <<process, database, out, loop>>

LoopGone ==
  /\ readfds' = {}
  /\ stack_msg' = NULL
  /\ backlog' = 0

Gone(how) == ProcessGone(how) /\ LoopGone

Init ==
  /\ pc = "setup" /\ cur_fd = -1 /\ message = NULL /\ out = {}
  /\ child_fd = NoConnections /\ active_users = NoSessions
  /\ sock = NoSockets /\ pending = NoRecords
  /\ users = [n \in Names |-> NoPassword] /\ messages = <<>> /\ db_file = "absent"
  /\ readfds = {} /\ stack_msg = NULL /\ backlog = 0

-----------------------------------------------------------------------------
(* The start of the process: main up to listen.                            *)

Starting == {"setup", "create"}

SetUp(file, at) ==
  /\ db_file' = file
  /\ pc' = at
  /\ out' = {}
  /\ UNCHANGED <<child_fd, active_users, sock, pending, cur_fd, message, users, messages, loop>>

(* Only the start that finds no file creates the tables.                   *)
sdb_setup ==
  /\ pc = "setup"
  /\ IF db_file = "absent" THEN SetUp("empty", "create") ELSE SetUp(db_file, "select")

(* Each statement commits on its own.  The first one that fails ends the   *)
(* script; main does not look at the result of the set-up.                 *)
sdb_execute ==
  /\ pc = "create"
  /\ \/ db_file = "ready" /\ SetUp("ready", "select")
     \/ db_file # "ready" /\ SetUp(create_tables(db_file), "create")
     \/ db_file # "ready" /\ InsertFails /\ SetUp(db_file, "select")

-----------------------------------------------------------------------------
(* The loop.                                                               *)

(* Mutant: connections are only accepted when there is nothing else to do. *)
Ready_idle ==
  LET served == {fd \in ss_get_active_connections : ssl_has_data(fd)}
  IN  IF served = {} /\ backlog > 0 THEN {server_fd} ELSE served

(* Mutant: select is given the highest descriptor, and not one more.       *)
Ready_nfds ==
  {fd \in ss_get_active_connections :
     ssl_has_data(fd) /\ \E other \in ss_get_active_connections : other > fd}
  \cup IF backlog > 0 THEN {server_fd} ELSE {}

Ready ==
  {fd \in ss_get_active_connections : ssl_has_data(fd)}
  \cup IF backlog > 0 THEN {server_fd} ELSE {}

Typed == {{}} \cup IF "quit" \in Events THEN {{STDIN_FILENO}} ELSE {}

SelectWith(fds) ==
  /\ pc = "select"
  /\ readfds' = fds
  /\ pc' = IF server_fd \in fds THEN "accept" ELSE "pass"
  /\ out' = {}
  /\ UNCHANGED <<child_fd, active_users, sock, pending, cur_fd, message,
                 database, stack_msg, backlog>>

Select == Ready # {} /\ \E typed \in Typed : SelectWith(Ready \cup typed)

OperatorQuits == Ready = {} /\ "quit" \in Events /\ SelectWith({STDIN_FILENO})

(* With no slot free the scan runs past the table, and the assertion after *)
(* it, or a wild read before, ends the process.                            *)
Accept ==
  /\ pc = "accept"
  /\ out' = {}
  /\ UNCHANGED database
  /\ \/ FreeSlots = {} /\ Gone("crashed")
     \/ \E loc \in Slots, fd \in Fds :
          /\ IsFirst(loc, FreeSlots)
          /\ IsFirst(fd, {f \in Fds : sock[f] = "free"})
          /\ child_fd' = ss_add_child_connection(loc, fd)
          /\ sock' = [sock EXCEPT ![fd] = "connecting"]
          /\ backlog' = backlog - 1
          /\ pc' = "handshake"
          /\ UNCHANGED <<active_users, pending, cur_fd, message, readfds, stack_msg>>

(* ssl_block_accept returns when the peer has finished the handshake or    *)
(* left; nobody looks at which.                                            *)
ssl_block_accept ==
  /\ pc = "handshake"
  /\ \E fd \in Fds, end \in {"open"} \cup IF "abort" \in Events THEN {"failed"} ELSE {} :
       /\ sock[fd] = "connecting"
       /\ sock' = [sock EXCEPT ![fd] = end]
  /\ pc' = "pass"
  /\ out' = {}
  /\ UNCHANGED <<child_fd, active_users, pending, cur_fd, message, database, loop>>

(* Mutant: the sockets are asked again, not the snapshot.                  *)
ReadySlots_repolled == {i \in Slots : child_fd[i] # -1 /\ ssl_has_data(child_fd[i])}

ReadySlots == {i \in Slots : child_fd[i] \in readfds}

IsNext(fd) ==
  /\ pc = "pass"
  /\ \E i \in Slots : IsFirst(i, ReadySlots) /\ child_fd[i] = fd
  /\ ssl_has_data(fd)

(* The bytes of the last read stay where they are on the stack; they       *)
(* matter only where a read can return 0.                                  *)
Remembers(msg) == stack_msg' = IF 0 \in EofReads THEN msg ELSE NULL

(* apim_capture_socket_msg with a record to read.                          *)
Capture(fd) ==
  /\ IsNext(fd) /\ pending[fd] > 0
  /\ \E msg \in Requests :
       /\ message' = msg
       /\ Remembers(msg)
  /\ pending' = [pending EXCEPT ![fd] = @ - 1]
  /\ cur_fd' = fd
  /\ readfds' = readfds \ {fd}
  /\ pc' = "health"
  /\ out' = {}
  /\ UNCHANGED <<child_fd, active_users, sock, database, backlog>>

(* Mutant: a failed read is skipped.                                       *)
CaptureEof_skipped(fd) ==
  /\ IsNext(fd) /\ pending[fd] = 0
  /\ sock' = AfterEof(fd)
  /\ readfds' = readfds \ {fd}
  /\ out' = {}
  /\ UNCHANGED <<child_fd, active_users, pending, pc, cur_fd, message, database, stack_msg, backlog>>

(* The same at end-of-file: -1 leaves an empty message and a TLS session   *)
(* that no write gets through any more; 0 is not tested for, and the       *)
(* uninitialized buffer is parsed: what the last read left, or nothing.    *)
CaptureEof(fd) ==
  /\ IsNext(fd) /\ pending[fd] = 0
  /\ sock' = AfterEof(fd)
  /\ \/ -1 \in EofReads /\ message' = NULL /\ pc' = "execute"
     \/ 0 \in EofReads /\ message' \in {stack_msg, NULL} /\ pc' = "health"
  /\ cur_fd' = fd
  /\ readfds' = readfds \ {fd}
  /\ out' = {}
  /\ UNCHANGED <<child_fd, active_users, pending, database, stack_msg, backlog>>

(* Mutant: a dead tunnel is closed at once, and then served all the same.  *)
HealthCheck_closes ==
  /\ pc = "health"
  /\ out' = {}
  /\ UNCHANGED database
  /\ IF Broken({cur_fd}) # {}
     THEN Gone("crashed")
     ELSE /\ child_fd' = IF ssl_block_write(cur_fd) < 0
                         THEN ss_remove_child_connection(cur_fd) ELSE child_fd
          /\ sock' = AfterWrites({cur_fd})
          /\ pc' = "execute"
          /\ UNCHANGED <<message, active_users, pending, cur_fd, loop>>

(* The write of ||HEALTH before the command is executed.                   *)
HealthCheck ==
  /\ pc = "health"
  /\ out' = {}
  /\ UNCHANGED database
  /\ IF Broken({cur_fd}) # {}
     THEN Gone("crashed")
     ELSE /\ message' = IF ssl_block_write(cur_fd) < 0 THEN NULL ELSE message
          /\ sock' = AfterWrites({cur_fd})
          /\ pc' = "execute"
          /\ UNCHANGED <<child_fd, active_users, pending, cur_fd, loop>>

Execute ==
  /\ cmdh_execute_command
  /\ IF pc' \in Down THEN LoopGone ELSE UNCHANGED loop

EndPass ==
  /\ pc = "pass" /\ ReadySlots = {} /\ STDIN_FILENO \notin readfds
  /\ pc' = "select"
  /\ readfds' = {}
  /\ out' = {}
  /\ UNCHANGED <<child_fd, active_users, sock, pending, cur_fd, message,
                 database, stack_msg, backlog>>

(* "q": the notice goes out as sm_propogate_message sends everything, then *)
(* every connection is closed.                                             *)
ss_free ==
  /\ pc = "pass" /\ ReadySlots = {} /\ STDIN_FILENO \in readfds
  /\ LET W == sm_recipients(server_fd)
     IN  /\ out' = Frames(W, Frame("SERVER_DISCONNECTED", <<>>))
         /\ Gone(IF Broken(W) # {} THEN "crashed" ELSE "stopped")
  /\ UNCHANGED database

-----------------------------------------------------------------------------
(* The peers, the network and the operator.                                *)

Connect ==
  /\ pc \notin Down \cup Starting
  /\ backlog + Cardinality(ss_get_active_connections) < MaxOpen
  /\ backlog' = backlog + 1
  /\ UNCHANGED <<process, database, out, readfds, stack_msg>>

PeerSends(fd) ==
  /\ sock[fd] = "open" /\ pending[fd] < MaxPending
  /\ pending' = [pending EXCEPT ![fd] = @ + 1]
  /\ UNCHANGED <<child_fd, active_users, sock, pc, cur_fd, message, database, out, loop>>

SocketBecomes(fd, s) ==
  /\ sock' = [sock EXCEPT ![fd] = s]
  /\ UNCHANGED <<child_fd, active_users, pending, pc, cur_fd, message, database, out, loop>>

PeerCloses(fd) == "close" \in Events /\ sock[fd] = "open" /\ SocketBecomes(fd, "closed")

PeerAborts(fd) == "abort" \in Events /\ sock[fd] = "open" /\ SocketBecomes(fd, "aborted")

RstArrives(fd) == sock[fd] = "refusing" /\ SocketBecomes(fd, "reset")

Kill == "kill" \in Events /\ pc \notin Down /\ Gone("stopped") /\ out' = {} /\ UNCHANGED database

Restart ==
  /\ pc \in Down
  /\ pc' = "setup"
  /\ out' = {}
  /\ UNCHANGED <<child_fd, active_users, sock, pending, cur_fd, message, database, loop>>

-----------------------------------------------------------------------------
Loop ==
  \/ sdb_setup \/ sdb_execute
  \/ Select \/ Accept \/ HealthCheck \/ Execute \/ EndPass \/ ss_free
  \/ \E fd \in Fds : Capture(fd) \/ CaptureEof(fd)

Environment ==
  \/ OperatorQuits \/ Connect \/ Kill \/ Restart
  \/ \E fd \in Fds : PeerSends(fd) \/ PeerCloses(fd) \/ PeerAborts(fd) \/ RstArrives(fd)

Next == Loop \/ ssl_block_accept \/ Environment

(* The process keeps running and a peer that connects ends its handshake;  *)
(* no peer and no operator has to do anything else.                        *)
Fairness == WF_vars(Loop) /\ WF_vars(ssl_block_accept)

Spec == Init /\ [][Next]_vars /\ Fairness
=============================================================================
