---------------------------- MODULE ServerState ----------------------------
(***************************************************************************)
(* The connection table of the server (server-state.c): for each of the    *)
(* SS_MAX_CHILDREN slots the descriptor of the connection that occupies it *)
(* (-1: none) and the user logged in on it (NoUser: the empty string).     *)
(* Operators that update an array are given as its new value.              *)
(***************************************************************************)
EXTENDS ChatTypes

CONSTANTS SS_MAX_CHILDREN,  \* slots of the table
          FirstFd           \* lowest descriptor that accept can return

ASSUME TableAssumption ==
  /\ SS_MAX_CHILDREN \in Nat \ {0}
  /\ FirstFd \in Nat \ {0, 1}

VARIABLES child_fd, active_users

Slots == 0 .. SS_MAX_CHILDREN - 1

(* The kernel hands out the lowest descriptor that is not in use, so with  *)
(* a slot left to fill these are all that can occur.                       *)
Fds == FirstFd .. FirstFd + SS_MAX_CHILDREN - 1

STDIN_FILENO == 0
server_fd == FirstFd - 1

IsFirst(i, S) == i \in S /\ \A j \in S : i <= j

NoConnections == [i \in Slots |-> -1]
NoSessions == [i \in Slots |-> NoUser]

(* Mutant: the other array is scanned, for a slot without a user.          *)
FreeSlots_nobody == {i \in Slots : active_users[i] = NoUser}

FreeSlots == {i \in Slots : child_fd[i] = -1}

ss_get_active_connections == {child_fd[i] : i \in Slots} \ {-1}

(* The scans of the table stop at the first match.                         *)
ss_get_fd_loc(fd) == CHOOSE i \in Slots : IsFirst(i, {j \in Slots : child_fd[j] = fd})

ss_is_fd_logged_in(fd) == active_users[ss_get_fd_loc(fd)] # NoUser

(* Mutant: the scan starts at slot 1.                                      *)
ss_is_user_logged_in_from_1(username) == \E i \in Slots \ {0} : active_users[i] = username

ss_is_user_logged_in(username) == \E i \in Slots : active_users[i] = username

(* Mutant: the first connection, not that of the user.                     *)
ss_get_fd_from_username_first(username) ==
  child_fd[CHOOSE i \in Slots : IsFirst(i, Slots \ FreeSlots)]

ss_get_fd_from_username(username) ==
  child_fd[CHOOSE i \in Slots : IsFirst(i, {j \in Slots : active_users[j] = username})]

(* The bound is on the descriptor, not on its slot.                        *)
ss_get_username(fd) ==
  IF fd >= SS_MAX_CHILDREN THEN NULL ELSE active_users[ss_get_fd_loc(fd)]

(* The user of the slot is not touched.                                    *)
ss_add_child_connection(loc, fd) == [child_fd EXCEPT ![loc] = fd]

(* Mutants: the slot is zeroed; the slots after it move up.                *)
ss_remove_child_connection_zeroed(fd) == [child_fd EXCEPT ![ss_get_fd_loc(fd)] = 0]

ss_remove_child_connection_compacted(fd) ==
  [i \in Slots |-> IF i < ss_get_fd_loc(fd) THEN child_fd[i]
                   ELSE IF i + 1 \in Slots THEN child_fd[i + 1] ELSE -1]

ss_remove_child_connection(fd) == [child_fd EXCEPT ![ss_get_fd_loc(fd)] = -1]

(* Mutant: the first slot without a user, not the slot of the connection.  *)
ss_login_fd_first(fd, username) ==
  [i \in Slots |-> IF IsFirst(i, {j \in Slots : active_users[j] = NoUser})
                   THEN username ELSE active_users[i]]

ss_login_fd(fd, username) == [active_users EXCEPT ![ss_get_fd_loc(fd)] = username]

(* Mutant: the scan starts at slot 1.                                      *)
ss_logout_fd_from_1(fd) ==
  IF ss_get_fd_loc(fd) = 0 THEN active_users ELSE [active_users EXCEPT ![ss_get_fd_loc(fd)] = NoUser]

ss_logout_fd(fd) == [active_users EXCEPT ![ss_get_fd_loc(fd)] = NoUser]

(* Mutant: the last connection of the table is left out.                   *)
sm_recipients_but_last(from_fd) ==
  {fd \in ss_get_active_connections \ {from_fd, server_fd} :
     /\ ss_is_fd_logged_in(fd)
     /\ \E i \in Slots : i > ss_get_fd_loc(fd) /\ child_fd[i] # -1}

(* The connections that sm_propogate_message writes to.                    *)
sm_recipients(from_fd) ==
  {fd \in ss_get_active_connections \ {from_fd, server_fd} : ss_is_fd_logged_in(fd)}
=============================================================================
