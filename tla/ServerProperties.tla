-------------------------- MODULE ServerProperties --------------------------
(***************************************************************************)
(* What the server promises, as invariants, step properties and liveness,  *)
(* and its sessions seen as an implementation of ChatSessions.             *)
(***************************************************************************)
EXTENDS Server

Serving == {"health", "execute", "chain", "save"}

Places == Starting \cup {"select", "accept", "handshake", "pass"} \cup Serving \cup Down

(* Every variable has its type.                                            *)
TypeOK ==
  /\ child_fd \in [Slots -> Fds \cup {-1}]
  /\ active_users \in [Slots -> Names \cup {NoUser}]
  /\ sock \in [Fds -> SockStates]
  /\ pending \in [Fds -> Nat]
  /\ users \in [Names -> Words \cup {NoPassword}]
  /\ messages \in Seq(Rows)
  /\ db_file \in Files
  /\ pc \in Places
  /\ cur_fd \in Fds \cup {-1}
  /\ message \in Requests \cup {NULL}
  /\ \A o \in out : o.to \in Fds
  /\ readfds \subseteq Fds \cup {STDIN_FILENO, server_fd}
  /\ stack_msg \in Requests \cup {NULL}
  /\ backlog \in Nat

-----------------------------------------------------------------------------
(* Safety.                                                                 *)

(* The table and the kernel agree: no descriptor is in two slots, and the  *)
(* descriptors in the table are exactly the open ones (ss_add_child_       *)
(* connection and ss_remove_child_connection over any history of accepts,  *)
(* closes and reused descriptors).                                         *)
TableMatchesSockets ==
  /\ \A i, j \in Slots : child_fd[i] # -1 /\ child_fd[i] = child_fd[j] => i = j
  /\ \A fd \in Fds : sock[fd] # "free" <=> \E i \in Slots : child_fd[i] = fd

(* Nobody is logged in on an empty slot: ss_add_child_connection does not  *)
(* clear the user of the slot it fills, so the next connection would       *)
(* inherit the session.                                                    *)
SessionsAreLive ==
  \A i \in Slots : active_users[i] # NoUser => child_fd[i] # -1

(* No user is logged in twice: ss_get_fd_from_username and the refusal of  *)
(* a second login both assume it.                                          *)
OneSessionPerUser ==
  \A i, j \in Slots :
    active_users[i] # NoUser /\ active_users[i] = active_users[j] => i = j

(* Whoever is logged in has an account, so su_get_uid finds the author of  *)
(* every message that is saved.                                            *)
SessionsAreRegistered ==
  \A i \in Slots : active_users[i] # NoUser => su_has_user(active_users[i])

(* The connection a handler works for is in the table as long as it works: *)
(* cur_ssl, cached when the command starts, is not freed under it.         *)
ServedIsConnected == pc \in Serving => \E i \in Slots : child_fd[i] = cur_fd

(* The login that REGISTER chains to cannot find its user logged in        *)
(* already, or find an account with another password.                      *)
ChainedLoginSucceeds ==
  pc = "chain" => /\ ~ ss_is_user_logged_in(message.name)
                  /\ su_has_user(message.name) => users[message.name] = message.word

(* No private message is saved that its author sent to himself.            *)
NoSelfDm == \A k \in 1 .. Len(messages) : messages[k].from # messages[k].to

(* A private message, live or from the history, is only ever written to a  *)
(* connection logged in as its author or its addressee.                    *)
DmStaysPrivate ==
  \A o \in out : \A k \in 1 .. Len(o.frame.rows) :
    LET row == o.frame.rows[k]
    IN  IsDm(row) => \E i \in Slots : /\ child_fd[i] = o.to
                                      /\ active_users[i] \in {row.from, row.to}

(* When a message is about to be saved it has been handed to every         *)
(* connection that should have it and is still there (everybody else who   *)
(* is logged in, or the one addressee), and to no other.                   *)
DeliveredBeforeSaved ==
  pc = "save" =>
    LET Addressees == {fd \in ss_get_active_connections \ {cur_fd} :
                         LET user == active_users[ss_get_fd_loc(fd)]
                         IN  IF message.route = "DM" THEN user = message.name
                                                     ELSE user # NoUser}
        Got == {o.to : o \in out}
    IN  Got \subseteq Addressees /\ \A fd \in Addressees : sock[fd] = "open" => fd \in Got

(* Of a connection that is served, the socket may fail but is not closed   *)
(* under the handler, and the slot keeps its connection until CLOSE or the *)
(* end of the process.                                                     *)
SlotsAreStable ==
  [][\A i \in Slots : child_fd[i] # -1 /\ child_fd'[i] # child_fd[i]
        => pc' \in Down \/ (child_fd[i] = cur_fd /\ child_fd'[i] = -1)]_vars

-----------------------------------------------------------------------------
(* Liveness.                                                               *)

(* A record that has arrived is read in the end, whatever the other peers  *)
(* send, unless the connection or the process ends first.                  *)
RequestsAreServed ==
  \A fd \in Fds : pending[fd] > 0 ~>
    (pc = "health" /\ cur_fd = fd) \/ sock[fd] = "free" \/ pc \in Down

(* A waiting connection is accepted in the end.                            *)
PeersAreAccepted == backlog > 0 ~> pc = "handshake" \/ pc \in Down

(* A connection whose peer is gone is closed in the end.                   *)
DeadPeersAreRemoved ==
  \A fd \in Fds : sock[fd] \in AtEof ~> sock[fd] = "free" \/ pc \in Down

-----------------------------------------------------------------------------
(* The sessions.                                                           *)

Session(fd) ==
  IF sock[fd] = "free" THEN NULL ELSE active_users[ss_get_fd_loc(fd)]

Abstract == INSTANCE ChatSessions WITH
  Clients  <- Fds,
  Offline  <- NULL,
  accounts <- users,
  log      <- messages,
  session  <- [fd \in Fds |-> Session(fd)]

(* The server implements the specification of its sessions.                *)
ImplementsSessions == Abstract!Spec

-----------------------------------------------------------------------------
(* What the documentation says and the code does not do: nobody can crash  *)
(* the server (docs/architecture/security.md).                             *)
NeverCrashes == pc # "crashed"

(* What a server that listens needs: the set-up either leaves both tables  *)
(* or is reported to main as failed (server-db.h, sdb_setup), so that what *)
(* users are told is saved is saved (docs/architecture/database.md).       *)
ServesWithTables == pc \notin Down \cup Starting => db_file = "ready"
=============================================================================
