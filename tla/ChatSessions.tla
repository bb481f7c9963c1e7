---------------------------- MODULE ChatSessions ----------------------------
(***************************************************************************)
(* What the chat server is to its users, without sockets, slots or a loop: *)
(* clients come and go, sign up, sign in and out, and say things under the *)
(* name they are signed in with.  Accounts and the log are permanent; all  *)
(* sessions may end at once, when the server does.                         *)
(***************************************************************************)
EXTENDS Sequences

CONSTANTS Clients, Names, NoUser, Offline, Words, NoPassword, Everyone

VARIABLES session,   \* of each client: Offline, NoUser, or its user
          accounts,  \* of each name: its password, or NoPassword
          log

Init ==
  /\ session = [c \in Clients |-> Offline]
  /\ accounts = [n \in Names |-> NoPassword]
  /\ log = <<>>

Becomes(c, s) ==
  /\ session' = [session EXCEPT ![c] = s]
  /\ UNCHANGED <<accounts, log>>

Arrive(c) == session[c] = Offline /\ Becomes(c, NoUser)

Leave(c) == session[c] # Offline /\ Becomes(c, Offline)

SignOut(c) == session[c] \in Names /\ Becomes(c, NoUser)

(* Whoever is signed in as someone else changes over.                      *)
SignIn(c, n) ==
  /\ session[c] # Offline
  /\ accounts[n] # NoPassword
  /\ \A d \in Clients : session[d] # n
  /\ Becomes(c, n)

SignUp(n, password) ==
  /\ \E c \in Clients : session[c] # Offline
  /\ accounts[n] = NoPassword
  /\ accounts' = [accounts EXCEPT ![n] = password]
  /\ session' = session \/ session' = [c \in Clients |-> Offline]
  /\ UNCHANGED log

(* To everyone, or to another user who is signed in elsewhere.             *)
Say(c, to, text) ==
  /\ session[c] \in Names
  /\ to = Everyone \/ \E d \in Clients \ {c} : session[d] = to
  /\ log' = Append(log, [from |-> session[c], to |-> to, text |-> text])
  /\ UNCHANGED <<session, accounts>>

Outage == session' = [c \in Clients |-> Offline] /\ UNCHANGED <<accounts, log>>

Next ==
  \/ Outage
  \/ \E c \in Clients : Arrive(c) \/ Leave(c) \/ SignOut(c)
  \/ \E c \in Clients, n \in Names : SignIn(c, n)
  \/ \E n \in Names, password \in Words : SignUp(n, password)
  \/ \E c \in Clients, to \in Names \cup {Everyone}, text \in Words : Say(c, to, text)

Spec == Init /\ [][Next]_<<session, accounts, log>>
=============================================================================
