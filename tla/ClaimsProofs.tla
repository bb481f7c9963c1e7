---------------------------- MODULE ClaimsProofs ----------------------------
(***************************************************************************)
(* For every number of slots, users, peers and records: with an OpenSSL    *)
(* that reports end-of-file as an error, nobody is logged in on a          *)
(* connection that did not ask for it.                                     *)
(***************************************************************************)
EXTENDS ServerClaims, SessionProofs

(* The command in hand, if it logs in, was asked for by the connection     *)
(* that it is executed for.                                                *)
LogsIn == message.route \in {"LOGIN", "REGISTER"} \/ pc = "chain"

CommandIsClaimed ==
  pc \in Serving /\ message # NULL /\ LogsIn => message.name \in claimed[cur_fd]

(* What a connection asked for is kept as long as it is there.             *)
LEMMA ClaimsGrow ==
  ASSUME CNext, NEW fd \in Fds, sock'[fd] # "free"
  PROVE  claimed'[fd] = claimed[fd] \cup Asked(fd)
BY DEF CNext

(* The command in hand stays claimed.                                      *)
LEMMA CommandInv ==
  ASSUME IInv, IInv', EofReads = {-1}, CommandIsClaimed, CNext
  PROVE  CommandIsClaimed'
<1> SUFFICES ASSUME pc' \in Serving, message' # NULL, LogsIn'
             PROVE  message'.name \in claimed'[cur_fd']
  BY DEF CommandIsClaimed
<1>1. PICK fd \in Fds : fd = cur_fd' /\ sock'[fd] # "free"
  BY DEF IInv, PlaceKnows, ServedIsConnected, TableMatchesSockets
<1>2. claimed'[fd] = claimed[fd] \cup Asked(fd)
  BY <1>1, ClaimsGrow
<1>3. CASE \E f \in Fds : Capture(f)
  <2>1. Capture(fd)
    BY <1>1, <1>3 DEF Capture
  <2>2. message'.route \in {"LOGIN", "REGISTER"}
    BY <2>1 DEF Capture, LogsIn
  <2>3. pending'[fd] < pending[fd]
    BY <2>1 DEF Capture, IInv, TypeOK
  <2> QED
    BY <1>1, <1>2, <2>2, <2>3 DEF Asked
<1>4. CASE /\ pc \in Serving /\ message' = message /\ cur_fd' = cur_fd
           /\ pc' = "chain" => pc = "chain" \/ Executes("REGISTER")
  <2>1. LogsIn
    BY <1>4 DEF LogsIn, Executes
  <2> QED
    BY <1>1, <1>2, <1>4, <2>1 DEF CommandIsClaimed
<1> QED
  BY <1>3, <1>4, HandChanges DEF CNext

(* So do the sessions, for a login is a command in hand.                   *)
LEMMA SessionInv ==
  ASSUME IInv, IInv', CommandIsClaimed, SessionsAreClaimed, CNext
  PROVE  SessionsAreClaimed'
<1> SUFFICES ASSUME NEW i \in Slots, active_users'[i] # NoUser
             PROVE  active_users'[i] \in claimed'[child_fd'[i]]
  BY DEF SessionsAreClaimed
<1>1. child_fd'[i] = child_fd[i]
  BY SessionChanges DEF CNext
<1>2. child_fd[i] \in Fds /\ sock'[child_fd[i]] # "free"
  BY <1>1 DEF IInv, SessionsFit, TypeOK, TableMatchesSockets
<1>3. claimed[child_fd[i]] \subseteq claimed'[child_fd'[i]]
  BY <1>1, <1>2, ClaimsGrow
<1>4. CASE active_users'[i] = active_users[i]
  BY <1>3, <1>4 DEF SessionsAreClaimed
<1>5. CASE cmdh_login /\ child_fd[i] = cur_fd /\ active_users'[i] = message.name
  <2>1. pc \in Serving /\ message # NULL /\ LogsIn
    BY <1>5 DEF cmdh_login, Executes, Serving, LogsIn, IInv, PlaceKnows
  <2> QED
    BY <1>3, <1>5, <2>1 DEF CommandIsClaimed
<1> QED
  BY <1>4, <1>5, SessionChanges DEF CNext

(* With end-of-file reported as an error, whoever is logged in on a        *)
(* connection was asked for by the peer of that connection, whatever its   *)
(* descriptor was used for before (apim_capture_socket_msg, cmdh_login).   *)
(* The run replay shows that the condition is needed.                      *)
THEOREM Claimed == ASSUME EofReads = {-1} PROVE CSpec => []SessionsAreClaimed
<1> DEFINE ClaimsInv == IInv /\ CommandIsClaimed /\ SessionsAreClaimed
<1>1. CInit => ClaimsInv
  BY InitInv DEF CInit, Init, NoSessions, CommandIsClaimed, SessionsAreClaimed, Serving
<1>2. ClaimsInv /\ [CNext]_<<vars, claimed>> => ClaimsInv'
  <2> SUFFICES ASSUME ClaimsInv, [CNext]_<<vars, claimed>> PROVE ClaimsInv'
    OBVIOUS
  <2>1. CASE CNext
    BY <2>1, NextInv, CommandInv, SessionInv DEF CNext
  <2>2. CASE UNCHANGED <<vars, claimed>>
    BY <2>2, StutterInv DEF vars, process, CommandIsClaimed, LogsIn, SessionsAreClaimed
  <2> QED
    BY <2>1, <2>2
<1> QED
  BY <1>1, <1>2, PTL DEF CSpec
=============================================================================
