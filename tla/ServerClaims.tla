---------------------------- MODULE ServerClaims ----------------------------
(***************************************************************************)
(* The server with a history variable: for each connection, the names that *)
(* its own peer has asked to be, with LOGIN or REGISTER, since it          *)
(* connected.                                                              *)
(***************************************************************************)
EXTENDS ServerProperties

VARIABLE claimed

CInit == Init /\ claimed = [fd \in Fds |-> {}]

(* The names that a record read in this step from the connection asks for. *)
Asked(fd) ==
  IF pending'[fd] < pending[fd] /\ cur_fd' = fd /\ message'.route \in {"LOGIN", "REGISTER"}
  THEN {message'.name} ELSE {}

CNext ==
  /\ Next
  /\ claimed' = [fd \in Fds |-> IF sock'[fd] = "free" THEN {} ELSE claimed[fd] \cup Asked(fd)]

CSpec == CInit /\ [][CNext]_<<vars, claimed>>

(* A connection is logged in only as a user its own peer asked to be: the  *)
(* command that logs it in is one that it sent itself.                     *)
SessionsAreClaimed ==
  \A i \in Slots : active_users[i] # NoUser => active_users[i] \in claimed[child_fd[i]]
=============================================================================
