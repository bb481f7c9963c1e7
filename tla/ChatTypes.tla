----------------------------- MODULE ChatTypes -----------------------------
(***************************************************************************)
(* The values that every part of the chat server handles.                  *)
(***************************************************************************)
EXTENDS Integers, Sequences

CONSTANTS Names,   \* user names
          NoUser,  \* the empty name, of a slot nobody is logged in on
          Words,   \* passwords and message texts
          NULL     \* the C null pointer, or the absence of a value

ASSUME TypesAssumption ==
  /\ NoUser \notin Names
  /\ NULL \notin Names \cup {NoUser}
  /\ NULL \notin Words

(* The replies that tell a client of a change of its session.              *)
LoggedIn == "Logged in!"
LoggedOut == "Successfully logged you out."
=============================================================================
