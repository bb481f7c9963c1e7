----------------------------- MODULE PathProofs -----------------------------
(***************************************************************************)
(* Proofs about the way of a line: what a client takes a line for, and     *)
(* what of a request arrives at the server.  The symbols are those of any  *)
(* set A that has the ones the code writes itself (IsAlphabet).            *)
(***************************************************************************)
EXTENDS MessagePath, Induction, SequenceTheorems

(***************************************************************************)
(* Where a line is cut: at each space, and behind the end.                 *)
(***************************************************************************)

StartOf(at, k) == IF k = 1 THEN 1 ELSE at[k - 1] + 1

IsCut(text, c, at) ==
  /\ c \in Nat \ {0} /\ at \in [1 .. c -> 1 .. Len(text) + 1] /\ Increasing(at)
  /\ at[c] = Len(text) + 1
  /\ \A k \in 1 .. c - 1 : at[k] <= Len(text) /\ text[at[k]] = Space
  /\ \A i \in 1 .. Len(text) : text[i] = Space => \E k \in 1 .. c - 1 : at[k] = i

ArgsAt(text, c, at) ==
  [k \in 1 .. c |-> IF StartOf(at, k) > Len(text) THEN NULL
                    ELSE SubSeq(text, StartOf(at, k), at[k] - 1)]

(* The positions of a text that are in a set can be counted in their order.*)
LEMMA EndsInOrder ==
  ASSUME NEW n \in Nat, NEW ids \in SUBSET (1 .. n)
  PROVE  \E c \in Nat : \E at \in [1 .. c -> ids] :
           Increasing(at) /\ \A i \in ids : \E k \in 1 .. c : at[k] = i
<1> DEFINE c == Cardinality(ids)
<1>1. IsFiniteSet(ids) /\ c \in Nat
  BY InOrderExists
<1>2. PICK at \in [1 .. c -> ids] : Increasing(at)
  BY InOrderExists
<1> HIDE DEF c
<1>3. \A j, k \in 1 .. c : at[j] = at[k] => j = k
  <2>1. \A k \in 1 .. c : at[k] \in Int
    <3>1. \A i \in ids : i \in Int
      OBVIOUS
    <3> QED
      BY <3>1
  <2>2. \A j, k \in 1 .. c : j < k => at[j] < at[k]
    BY <1>2 DEF Increasing
  <2> QED
    BY <2>1, <2>2, <1>1
<1>4. at \in Injection(1 .. c, ids)
  BY <1>2, <1>3 DEF Injection, IsInjective
<1>5. Cardinality(1 .. c) = Cardinality(ids)
  BY <1>1, FS_Interval DEF c
<1>6. at \in Surjection(1 .. c, ids)
  BY <1>1, <1>4, <1>5, FS_Injection
<1> QED
  BY <1>1, <1>2, <1>6 DEF Surjection

(* utils_str_to_args cuts a line at every space, and nowhere else.         *)
LEMMA Cuts ==
  ASSUME NEW A, NEW text \in Seq(A)
  PROVE  \E c \in Nat : \E at \in [1 .. c -> 1 .. Len(text) + 1] :
           IsCut(text, c, at) /\ utils_str_to_args(text) = ArgsAt(text, c, at)
<1> DEFINE ends == Spaces(text) \cup {Len(text) + 1}
           End(k) == CHOOSE i \in ends : Cardinality({j \in ends : j < i}) = k - 1
<1>1. ends \in SUBSET (1 .. Len(text) + 1) /\ Len(text) + 1 \in ends /\ Len(text) \in Nat
  BY DEF Spaces
<1>2. \A i \in ends : i = Len(text) + 1 \/ (i \in 1 .. Len(text) /\ text[i] = Space)
  BY DEF Spaces
<1>3. \A i \in 1 .. Len(text) : text[i] = Space => i \in ends
  BY DEF Spaces
<1> HIDE DEF ends
<1>41. PICK c \in Nat : \E at \in [1 .. c -> ends] :
         Increasing(at) /\ \A i \in ends : \E k \in 1 .. c : at[k] = i
  <2>1. Len(text) + 1 \in Nat
    BY <1>1
  <2> QED
    BY <1>1, <2>1, EndsInOrder, Zenon
<1>4. PICK at \in [1 .. c -> ends] :
        Increasing(at) /\ \A i \in ends : \E k \in 1 .. c : at[k] = i
  BY <1>41
<1>5. ends \in SUBSET Int
  BY <1>1
<1>6. Cardinality(ends) = c
  <2>1. PICK k \in 1 .. c : at[k] = Len(text) + 1
    BY <1>1, <1>4
  <2> QED
    BY <1>4, <1>5, RankOf
<1>7. \A k \in 1 .. c : End(k) = at[k]
  <2> TAKE k \in 1 .. c
  <2>1. /\ at[k] \in ends /\ Cardinality({j \in ends : j < at[k]}) = k - 1
        /\ \A i \in ends : Cardinality({j \in ends : j < i}) = k - 1 => i = at[k]
    <3> USE <1>4, <1>5
    <3>1. at[k] \in ends
      OBVIOUS
    <3>2. Cardinality({j \in ends : j < at[k]}) = k - 1
      BY RankOf
    <3>3. \A i \in ends : Cardinality({j \in ends : j < i}) = k - 1 => i = at[k]
      BY RankIsUnique
    <3> QED
      BY <3>1, <3>2, <3>3
  <2> QED
    BY <2>1
<1> HIDE DEF End
<1>8. \A k \in 1 .. c : at[k] \in 1 .. Len(text) + 1
  BY <1>1
<1>9. IsCut(text, c, at)
  <2>1. PICK m \in 1 .. c : at[m] = Len(text) + 1
    BY <1>1, <1>4
  <2>2. \A k \in 1 .. c : m < k => at[m] < at[k]
    BY <1>4 DEF Increasing
  <2>3. m = c
    BY <1>8, <2>1, <2>2
  <2>4. \A k \in 1 .. c - 1 : at[k] < at[c]
    BY <1>4 DEF Increasing
  <2>5. \A k \in 1 .. c - 1 : at[k] <= Len(text) /\ text[at[k]] = Space
    <3> TAKE k \in 1 .. c - 1
    <3>1. at[k] \in ends /\ at[k] # Len(text) + 1 /\ at[k] \in Int
      BY <1>8, <2>1, <2>3, <2>4
    <3> QED
      BY <1>2, <3>1, <1>1
  <2>6. ASSUME NEW i \in 1 .. Len(text), text[i] = Space PROVE \E k \in 1 .. c - 1 : at[k] = i
    <3>1. PICK k \in 1 .. c : at[k] = i
      BY <1>3, <1>4, <2>6
    <3>2. k # c
      BY <3>1, <2>1, <2>3
    <3> QED
      BY <3>1, <3>2
  <2> QED
    BY <1>4, <1>8, <2>1, <2>3, <2>5, <2>6 DEF IsCut
<1>10. utils_str_to_args(text) = ArgsAt(text, c, at)
  <2> DEFINE Start(k) == IF k = 1 THEN 1 ELSE End(k - 1) + 1
  <2>1. \A k \in 1 .. c : Start(k) = StartOf(at, k)
    BY <1>7 DEF StartOf
  <2>2. utils_str_to_args(text) =
          [k \in 1 .. Cardinality(ends) |->
             IF Start(k) > Len(text) THEN NULL ELSE SubSeq(text, Start(k), End(k) - 1)]
    BY Zenon DEF utils_str_to_args, ends, End
  <2> HIDE DEF Start
  <2> QED
    BY <1>6, <1>7, <2>1, <2>2 DEF ArgsAt
<1>11. at \in [1 .. c -> 1 .. Len(text) + 1]
  BY <1>8
<1> QED
  BY <1>9, <1>10, <1>11

(* What is before the first of the ends, and whether there is one.         *)
LEMMA FirstEnd ==
  ASSUME NEW A, NEW text \in Seq(A),
         NEW end, end = FirstOf(Spaces(text) \cup {Len(text) + 1}, text)
  PROVE  /\ end \in 1 .. Len(text) + 1
         /\ \A i \in 1 .. end - 1 : text[i] # Space
         /\ end <= Len(text) => text[end] = Space
         /\ Spaces(text) # {} => end <= Len(text)
<1> DEFINE ends == Spaces(text) \cup {Len(text) + 1}
<1> Len(text) \in Nat
  OBVIOUS
<1>1. ends \in SUBSET Nat /\ ends # {} /\ ends \in SUBSET (1 .. Len(text) + 1)
  BY DEF Spaces
<1>2. /\ \A i \in ends : i <= Len(text) => text[i] = Space
      /\ \A i \in 1 .. Len(text) : text[i] = Space => i \in ends
      /\ Spaces(text) # {} => \E i \in ends : i <= Len(text)
  BY DEF Spaces
<1>3. end = CHOOSE i \in ends : \A j \in ends : i <= j
  BY <1>1 DEF FirstOf
<1> HIDE DEF ends
<1>4. \E i \in ends : \A j \in ends : i <= j
  BY <1>1, Least
<1>5. end \in ends /\ \A j \in ends : end <= j
  BY <1>3, <1>4
<1>6. end \in 1 .. Len(text) + 1
  BY <1>1, <1>5
<1>7. ASSUME NEW i \in 1 .. end - 1 PROVE text[i] # Space
  <2>1. i \in 1 .. Len(text) /\ i < end
    BY <1>6
  <2>2. text[i] = Space => end <= i
    BY <1>2, <1>5, <2>1, Zenon
  <2> QED
    BY <1>6, <2>1, <2>2
<1>8. ASSUME Spaces(text) # {} PROVE end <= Len(text)
  <2>1. PICK i \in ends : i <= Len(text)
    BY <1>2, <1>8, Zenon
  <2>2. end <= i
    BY <1>5, Zenon
  <2> QED
    BY <1>1, <1>6, <2>1, <2>2
<1> QED
  BY <1>2, <1>5, <1>6, <1>7, <1>8

-----------------------------------------------------------------------------
(***************************************************************************)
(* What a client asks for a line.                                          *)
(***************************************************************************)

(* The commands that have a name for the client.                           *)
NamedCommands == {"CLOSE", "LOGIN", "LOGOUT", "REGISTER", "USERS", "HISTORY", "PMHISTORY"}

(* What texts consist of.  Of the hashes it only matters that they are     *)
(* texts, and of the argument that was not filled in that it is none.      *)
IsAlphabet(A) ==
  /\ NamedCommands \cup {"GLOBAL", "DM", "|", Junk} \cup ToSet(Digits) \subseteq A
  /\ Starts \cup Symbols \subseteq A
  /\ \A password : SHA256(password) \in Seq(A)
  /\ NULL \notin Seq(A)

IsNamed(request) == request # <<>> /\ \E name \in NamedCommands : request[1] = <<name>>

(* Every argument of a line is a text, or was never filled in.             *)
LEMMA ArgsAreTexts ==
  ASSUME NEW A, IsAlphabet(A), NEW text \in Seq(A)
  PROVE  /\ utils_str_to_args(text) \in Seq(Seq(A) \cup {NULL})
         /\ utils_str_to_args(text) # <<>>
         /\ Filled(utils_str_to_args(text)) \in Seq(Seq(A))
         /\ Len(Filled(utils_str_to_args(text))) = Len(utils_str_to_args(text))
         /\ text # <<>> /\ text[1] # Space =>
              \E e \in 1 .. Len(text) : utils_str_to_args(text)[1] = SubSeq(text, 1, e)
<1>1. PICK c \in Nat : \E at \in [1 .. c -> 1 .. Len(text) + 1] :
         IsCut(text, c, at) /\ utils_str_to_args(text) = ArgsAt(text, c, at)
  BY Cuts
<1>2. PICK at \in [1 .. c -> 1 .. Len(text) + 1] :
         IsCut(text, c, at) /\ utils_str_to_args(text) = ArgsAt(text, c, at)
  BY <1>1
<1> DEFINE args == utils_str_to_args(text)
<1>3. c >= 1 /\ DOMAIN args = 1 .. c /\ Len(text) \in Nat
  BY <1>2 DEF IsCut, ArgsAt
<1>4. ASSUME NEW k \in 1 .. c
      PROVE args[k] \in Seq(A) \cup {NULL}
  <2>1. at[k] \in 1 .. Len(text) + 1 /\ StartOf(at, k) \in Nat \ {0}
    <3>1. \A j \in 1 .. c : at[j] \in 1 .. Len(text) + 1 /\ at[j] \in Nat \ {0}
      OBVIOUS
    <3>2. CASE k = 1
      BY <3>1, <3>2 DEF StartOf
    <3>3. CASE k # 1
      <4>1. k - 1 \in 1 .. c
        BY <3>3
      <4> QED
        BY <3>1, <3>3, <4>1 DEF StartOf
    <3> QED
      BY <3>2, <3>3
  <2>2. \A i \in StartOf(at, k) .. at[k] - 1 : text[i] \in A
    BY SMTT(40), <2>1
  <2>3. SubSeq(text, StartOf(at, k), at[k] - 1) \in Seq(A)
    BY <2>1, <2>2, SubSeqProperties
  <2> QED
    BY <1>2, <2>3 DEF ArgsAt
<1>5. args = [k \in 1 .. c |-> args[k]]
  BY <1>2 DEF ArgsAt
<1>6. ASSUME text # <<>> /\ text[1] # Space
      PROVE  \E e \in 1 .. Len(text) : args[1] = SubSeq(text, 1, e)
  <2>1. Len(text) >= 1 /\ at[1] \in 1 .. Len(text) + 1
    BY <1>3, <1>6
  <2>2. at[1] # 1
    BY <1>2, <1>3, <1>6, <2>1 DEF IsCut
  <2>3. args[1] = SubSeq(text, 1, at[1] - 1)
    BY <1>2, <1>3, <2>1 DEF ArgsAt, StartOf
  <2>4. at[1] - 1 \in 1 .. Len(text)
    BY <1>3, <2>1, <2>2
  <2> QED
    BY <2>3, <2>4
<1> HIDE DEF args
<1>7. args \in Seq(Seq(A) \cup {NULL}) /\ Len(args) = c /\ args # <<>>
  <2>1. args \in [1 .. c -> Seq(A) \cup {NULL}]
    BY <1>4, <1>5
  <2>2. args \in Seq(Seq(A) \cup {NULL}) /\ Len(args) = c
    BY <1>3, <2>1
  <2> QED
    BY <1>3, <2>2
<1>8. <<Junk>> \in Seq(A)
  <2>1. Junk \in A
    BY DEF IsAlphabet
  <2> QED
    BY <2>1
<1>9. Filled(args) \in Seq(Seq(A)) /\ Len(Filled(args)) = c
  BY <1>3, <1>4, <1>8 DEF Filled
<1> QED
  BY <1>6, <1>7, <1>9 DEF args

(* What each command of the client may write.                              *)
LEMMA CommandRequests ==
  ASSUME NEW A, IsAlphabet(A), NEW args \in Seq(Seq(A)), NEW name \in ClientOnly,
         args # <<>>, args[1] = <<name>>, NEW request \in cmd_execute(args), request # <<>>
  PROVE  request \in Seq(Seq(A)) /\ IsNamed(request)
<1> USE DEF Only, Nothing
<1>1. \A text : SHA256(text) \in Seq(A)
  BY DEF IsAlphabet
<1>2. /\ Len(args) = 2 => args[2] \in Seq(A)
      /\ Len(args) = 3 => args[2] \in Seq(A) /\ args[3] \in Seq(A)
  OBVIOUS
<1>3. \A word \in NamedCommands : <<word>> \in Seq(A)
  <2>1. \A word \in NamedCommands : word \in A
    BY DEF IsAlphabet
  <2> QED
    BY <2>1
<1> DEFINE Fine == request \in Seq(Seq(A)) /\ IsNamed(request)
<1>4. ASSUME NEW word \in NamedCommands, request = << <<word>> >> PROVE Fine
  BY <1>3, <1>4 DEF IsNamed
<1>5. ASSUME NEW word \in NamedCommands, NEW first \in Seq(A), request = << <<word>>, first >>
      PROVE  Fine
  BY <1>3, <1>5 DEF IsNamed
<1>6. ASSUME NEW word \in NamedCommands, NEW first \in Seq(A), NEW second \in Seq(A),
             request = << <<word>>, first, second >>
      PROVE  Fine
  BY <1>3, <1>6 DEF IsNamed
<1>7. \A word \in {"CLOSE", "LOGIN", "LOGOUT", "REGISTER", "USERS", "HISTORY", "PMHISTORY"} :
        word \in NamedCommands
  BY DEF NamedCommands
<1>8. CASE name = "/exit"
  <2>1. request \in cmdc_exit(args)
    BY <1>8 DEF cmd_execute
  <2> QED
    BY <2>1, <1>4, <1>7 DEF cmdc_exit
<1>9. CASE name = "/login"
  <2>1. request \in cmdc_login(args)
    BY <1>9 DEF cmd_execute
  <2> QED
    BY <2>1, <1>1, <1>2, <1>6, <1>7 DEF cmdc_login
<1>10. CASE name = "/logout"
  <2>1. request \in cmdc_logout(args)
    BY <1>10 DEF cmd_execute
  <2> QED
    BY <2>1, <1>4, <1>7 DEF cmdc_logout
<1>11. CASE name = "/register"
  <2>1. request \in cmdc_register(args)
    BY <1>11 DEF cmd_execute
  <2> QED
    BY <2>1, <1>1, <1>2, <1>6, <1>7 DEF cmdc_register
<1>12. CASE name = "/users"
  <2>1. request \in cmdc_users(args)
    BY <1>12 DEF cmd_execute
  <2> QED
    BY <2>1, <1>4, <1>7 DEF cmdc_users
<1>13. CASE name = "/help"
  <2>1. request \in cmdc_help(args)
    BY <1>13 DEF cmd_execute
  <2> QED
    BY <2>1 DEF cmdc_help
<1>14. CASE name = "/history"
  <2>1. request \in cmdc_history(args)
    BY <1>14 DEF cmd_execute
  <2> QED
    BY <2>1, <1>2, <1>5, <1>7 DEF cmdc_history
<1>15. CASE name = "/pmhistory"
  <2>1. request \in cmdc_pm_history(args)
    BY <1>15 DEF cmd_execute
  <2> QED
    BY <2>1, <1>2, <1>6, <1>7 DEF cmdc_pm_history
<1> QED
  BY <1>8, <1>9, <1>10, <1>11, <1>12, <1>13, <1>14, <1>15 DEF ClientOnly

(* A line whose first symbol is a space is no command.                     *)
LEMMA SpaceIsNoStart == Space \notin ClientOnly \cup {"/", "@"}
BY Zenon DEF Space, ClientOnly

(* A line that is a command is written as this command, or not at all.     *)
LEMMA ExecutedRequests ==
  ASSUME NEW A, IsAlphabet(A), NEW text \in Seq(A), cmd_has_command_prop(text),
         NEW request \in cmdc_execute_command(text), request # <<>>
  PROVE  request \in Seq(Seq(A)) /\ IsNamed(request)
<1> DEFINE args == utils_str_to_args(text)
<1>1. text # <<>> /\ text[1] \in ClientOnly \cup {"/"} /\ text[1] # Space
  BY SpaceIsNoStart DEF cmd_has_command_prop
<1>2. args[1] \in cmdc_commands /\ request \in cmd_execute(Filled(args))
  BY DEF cmdc_execute_command, Nothing
<1>3. /\ args \in Seq(Seq(A) \cup {NULL}) /\ args # <<>>
      /\ Filled(args) \in Seq(Seq(A)) /\ Len(Filled(args)) = Len(args)
  BY ArgsAreTexts
<1>4. PICK e \in 1 .. Len(text) : args[1] = SubSeq(text, 1, e)
  BY <1>1, ArgsAreTexts
<1> HIDE DEF args
<1>5. args[1] \in Seq(A) /\ Len(args[1]) = e /\ args[1][1] = text[1]
  BY <1>4
<1>6. PICK name \in ClientOnly \cup FromServer : args[1] = <<name>>
  BY <1>2, <1>5 DEF cmdc_commands
<1>7. name = text[1]
  BY <1>5, <1>6
<1>8. name \in ClientOnly
  BY <1>1, <1>7 DEF ClientOnly, FromServer
<1>9. args[1] # NULL
  BY <1>5 DEF IsAlphabet
<1>10. Filled(args)[1] = <<name>> /\ Filled(args) # <<>>
  <2>1. Len(args) \in Nat \ {0} /\ 1 \in DOMAIN args
    BY <1>3
  <2>2. Filled(args)[1] = args[1]
    BY <1>9, <2>1 DEF Filled
  <2> QED
    BY <1>3, <1>6, <2>1, <2>2
<1> QED
  BY <1>2, <1>3, <1>8, <1>10, CommandRequests

(* Where the name of the addressee ends.                                   *)
IsDirect(text, request) ==
  /\ text # <<>> /\ text[1] = "@"
  /\ \E end \in 2 .. Len(text) + 1 :
       /\ \A i \in 1 .. end - 1 : text[i] # Space
       /\ \/ /\ end <= Len(text) /\ text[end] = Space
             /\ request = << <<"DM">>, SubSeq(text, 2, end - 1), SubSeq(text, end + 1, Len(text)) >>
          \/ \E rest \in {<<>>, <<Junk>>} :
               request = << <<"DM">>, SubSeq(text, 2, end - 1), rest >>

IsGlobal(text, request) ==
  /\ request = << <<"GLOBAL">>, text >>
  /\ text # <<>> => text[1] \notin ClientOnly \cup {"/", "@"}

(* A line for one user is written as the name and what follows it.         *)
LEMMA DirectRequests ==
  ASSUME NEW A, IsAlphabet(A), NEW text \in Seq(A), text # <<>>, text[1] = "@",
         NEW request \in cmdc_private_dm(text)
  PROVE  request \in Seq(Seq(A)) /\ IsDirect(text, request)
<1> DEFINE end == FirstOf(Spaces(text) \cup {Len(text) + 1}, text)
<1>1. /\ end \in 1 .. Len(text) + 1
      /\ \A i \in 1 .. end - 1 : text[i] # Space
      /\ end <= Len(text) => text[end] = Space
      /\ Spaces(text) # {} => end <= Len(text)
  BY FirstEnd
<1>2. PICK rest \in IF Spaces(text) = {} THEN {<<>>, <<Junk>>}
                    ELSE {SubSeq(text, end + 1, Len(text))} :
        request = << <<"DM">>, SubSeq(text, 2, end - 1), rest >>
  BY DEF cmdc_private_dm
<1> HIDE DEF end
<1>3. end # 1 /\ Len(text) \in Nat
  BY <1>1, SpaceIsNoStart
<1>4. SubSeq(text, 2, end - 1) \in Seq(A)
  BY <1>1, <1>3
<1>5. SubSeq(text, end + 1, Len(text)) \in Seq(A)
  BY <1>1, <1>3
<1>6. <<"DM">> \in Seq(A) /\ <<Junk>> \in Seq(A) /\ <<>> \in Seq(A)
  <2>1. "DM" \in A /\ Junk \in A
    BY DEF IsAlphabet
  <2> QED
    BY <2>1
<1>7. rest \in Seq(A)
  BY <1>2, <1>5, <1>6
<1>8. request \in Seq(Seq(A))
  BY <1>2, <1>4, <1>6, <1>7
<1>9. IsDirect(text, request)
  BY <1>1, <1>2, <1>3 DEF IsDirect
<1> QED
  BY <1>8, <1>9

(* So every line is written as one of three kinds of requests.             *)
LEMMA WhatIsAsked ==
  ASSUME NEW A, IsAlphabet(A), NEW text \in Seq(A), NEW request \in RequestsOf(text),
         request # <<>>
  PROVE  /\ request \in Seq(Seq(A))
         /\ IsNamed(request) \/ IsGlobal(text, request) \/ IsDirect(text, request)
<1>1. CASE text # <<>> /\ text[1] = "@"
  BY <1>1, DirectRequests DEF RequestsOf
<1>2. CASE ~ (text # <<>> /\ text[1] = "@") /\ cmd_has_command_prop(text)
  BY <1>2, ExecutedRequests DEF RequestsOf
<1>3. CASE ~ (text # <<>> /\ text[1] = "@") /\ ~ cmd_has_command_prop(text)
  <2>1. request = << <<"GLOBAL">>, text >>
    BY <1>3 DEF RequestsOf, Only
  <2>2. IsGlobal(text, request)
    BY <1>3, <2>1 DEF IsGlobal, cmd_has_command_prop
  <2>3. <<"GLOBAL">> \in Seq(A)
    <3>1. "GLOBAL" \in A
      BY DEF IsAlphabet
    <3> QED
      BY <3>1
  <2> QED
    BY <2>1, <2>2, <2>3
<1> QED
  BY <1>1, <1>2, <1>3
-----------------------------------------------------------------------------
(***************************************************************************)
(* LinesAreUnderstood.                                                     *)
(***************************************************************************)

(* What the request of a line tells of it.                                 *)
LEMMA RequestIsUnderstood ==
  ASSUME NEW A, IsAlphabet(A), NEW text \in Seq(Starts \cup Symbols),
         NEW request \in RequestsOf(text), request # <<>>
  PROVE  /\ request[1] = <<"GLOBAL">> =>
              request[2] = text /\ (text = <<>> \/ text[1] \notin Starts)
         /\ request[1] = <<"DM">> /\ IsClean(request[3]) /\ Junk \notin ToSet(request[3]) =>
              /\ text = <<"@">> \o request[2] \o <<Space>> \o request[3]
              /\ Space \notin ToSet(request[2])
<1>1. text \in Seq(A)
  BY SeqMonotonic DEF IsAlphabet
<1>2. IsNamed(request) \/ IsGlobal(text, request) \/ IsDirect(text, request)
  BY <1>1, WhatIsAsked
<1>3. CASE IsNamed(request)
  <2>1. request[1] # <<"GLOBAL">> /\ request[1] # <<"DM">>
    BY <1>3 DEF IsNamed, NamedCommands
  <2> QED
    BY <2>1
<1>4. CASE IsGlobal(text, request)
  <2>1. request[1] # <<"DM">> /\ request[2] = text
    BY <1>4 DEF IsGlobal
  <2>2. text = <<>> \/ text[1] \notin Starts
    BY <1>4, PathAssumption DEF IsGlobal, PathAssumption
  <2> QED
    BY <2>1, <2>2
<1>5. CASE IsDirect(text, request)
  <2>1. PICK end \in 2 .. Len(text) + 1 :
          /\ \A i \in 1 .. end - 1 : text[i] # Space
          /\ \/ /\ end <= Len(text) /\ text[end] = Space
                /\ request = << <<"DM">>, SubSeq(text, 2, end - 1),
                                SubSeq(text, end + 1, Len(text)) >>
             \/ \E rest \in {<<>>, <<Junk>>} :
                  request = << <<"DM">>, SubSeq(text, 2, end - 1), rest >>
    BY <1>5 DEF IsDirect
  <2>2. request[1] # <<"GLOBAL">>
    BY <2>1
  <2>3. ASSUME IsClean(request[3]), Junk \notin ToSet(request[3])
        PROVE  /\ text = <<"@">> \o request[2] \o <<Space>> \o request[3]
               /\ Space \notin ToSet(request[2])
    <3>1. /\ end <= Len(text) /\ text[end] = Space
          /\ request = << <<"DM">>, SubSeq(text, 2, end - 1), SubSeq(text, end + 1, Len(text)) >>
      <4>1. request[3] # <<>> /\ request[3] # <<Junk>>
        BY <2>3 DEF IsClean, ToSet
      <4> QED
        BY <2>1, <4>1
    <3> DEFINE name == SubSeq(text, 2, end - 1)
               rest == SubSeq(text, end + 1, Len(text))
    <3>2. text # <<>> /\ text[1] = "@" /\ Len(text) \in Nat
      BY <1>5 DEF IsDirect
    <3>3. /\ name \in Seq(A) /\ Len(name) = end - 2
          /\ \A i \in 1 .. end - 2 : name[i] = text[i + 1]
      BY <1>1, <3>1
    <3>4. /\ rest \in Seq(A) /\ Len(rest) = Len(text) - end
          /\ \A i \in 1 .. Len(text) - end : rest[i] = text[end + i]
      BY <1>1, <3>1
    <3>5. <<Space>> \in Seq(A) /\ <<"@">> \in Seq(A)
      <4>1. Space \in A /\ "@" \in A
        BY <1>1, <3>1, <3>2
      <4> QED
        BY <4>1
    <3> HIDE DEF name, rest
    <3>6. Space \notin ToSet(name)
      <4>1. DOMAIN name = 1 .. end - 2
        BY <3>3
      <4>2. \A i \in 1 .. end - 2 : i + 1 \in 1 .. end - 1
        OBVIOUS
      <4> QED
        BY <2>1, <3>3, <4>1, <4>2 DEF ToSet
    <3>7. text = <<"@">> \o name \o <<Space>> \o rest
      <4> DEFINE front == <<"@">> \o name
                 middle == front \o <<Space>>
                 whole == middle \o rest
      <4>1. /\ front \in Seq(A) /\ Len(front) = end - 1 /\ front[1] = "@"
            /\ \A i \in 2 .. end - 1 : front[i] = text[i]
        BY <3>3, <3>5
      <4> HIDE DEF front
      <4>2. /\ middle \in Seq(A) /\ Len(middle) = end /\ middle[end] = Space
            /\ \A i \in 1 .. end - 1 : middle[i] = front[i]
        BY <3>5, <4>1
      <4> HIDE DEF middle
      <4>3. /\ whole \in Seq(A) /\ Len(whole) = Len(text)
            /\ \A i \in 1 .. end : whole[i] = middle[i]
            /\ \A i \in end + 1 .. Len(text) : whole[i] = text[i]
        <5>1. Len(middle) + Len(rest) = Len(text) /\ Len(middle) = end
          BY <3>2, <3>4, <4>2
        <5>2. /\ whole \in Seq(A) /\ Len(whole) = Len(middle) + Len(rest)
              /\ \A i \in 1 .. Len(middle) + Len(rest) :
                   whole[i] = IF i <= Len(middle) THEN middle[i] ELSE rest[i - Len(middle)]
          BY <3>4, <4>2, ConcatProperties
        <5> HIDE DEF whole
        <5>3. ASSUME NEW i \in end + 1 .. Len(text) PROVE rest[i - end] = text[i]
          <6>1. i - end \in 1 .. Len(text) - end /\ end + (i - end) = i
            BY <3>2
          <6> QED
            BY <3>4, <6>1
        <5>4. \A i \in 1 .. end : whole[i] = middle[i]
          BY <3>1, <3>2, <5>1, <5>2
        <5>5. ASSUME NEW i \in end + 1 .. Len(text) PROVE whole[i] = text[i]
          <6>1. i \in 1 .. Len(middle) + Len(rest) /\ ~ (i <= Len(middle))
            BY <3>2, <5>1
          <6>2. whole[i] = rest[i - end]
            BY <5>1, <5>2, <6>1
          <6> QED
            BY <5>3, <6>2
        <5> QED
          BY <5>1, <5>2, <5>4, <5>5
      <4> HIDE DEF whole
      <4>4. \A i \in 1 .. Len(text) : whole[i] = text[i]
        BY <3>1, <3>2, <4>1, <4>2, <4>3
      <4>5. whole = text
        BY <1>1, <4>3, <4>4, SeqEqual
      <4> QED
        BY <4>5 DEF whole, middle, front
    <3> QED
      BY <3>1, <3>6, <3>7 DEF name, rest
  <2> QED
    BY <2>2, <2>3
<1> QED
  BY <1>2, <1>3, <1>4, <1>5
-----------------------------------------------------------------------------
(***************************************************************************)
(* Texts, as they are built and sent.                                      *)
(***************************************************************************)

(* The records of a text are as long as they may be.                       *)
LEMMA RecordLengths ==
  ASSUME NEW A, NEW text \in Seq(A)
  PROVE  /\ RecordsOf(text) \in Seq(Seq(A))
         /\ \A k \in 1 .. Len(RecordsOf(text)) : Len(RecordsOf(text)[k]) \in 1 .. RecordSize
<1> DEFINE R == RecordSize
           L == Len(text)
           count == (L + R - 1) \div R
           record(k) == SubSeq(text, (k - 1) * R + 1, IF k = count THEN L ELSE k * R)
<1>1. R \in Nat \ {0} /\ L \in Nat
  BY PathAssumption DEF PathAssumption
<1> HIDE DEF R, L
<1>2. count \in Nat /\ count * R <= L + R - 1 /\ L + R - 1 < count * R + R
  <2>1. L + R - 1 \in Nat
    BY <1>1
  <2> QED
    BY <1>1, <2>1, Division
<1> HIDE DEF count
<1>3. RecordsOf(text) = [k \in 1 .. count |-> record(k)]
  BY DEF RecordsOf, count, L, R
<1>4. ASSUME NEW k \in 1 .. count
      PROVE record(k) \in Seq(A) /\ Len(record(k)) \in 1 .. R
  <2> DEFINE low == (k - 1) * R
             high == IF k = count THEN L ELSE k * R
  <2>1. low \in Nat /\ k * R = low + R
    BY <1>1, <1>2
  <2>2. low + R <= count * R /\ count * R \in Int
    BY <1>1, <1>2, <2>1, Multiples
  <2>3. k # count => low + R <= count * R - R
    <3>1. (count - 1) * R = count * R - R
      BY <1>1, <1>2
    <3>2. k # count => k * R <= (count - 1) * R
      BY <1>1, <1>2, Multiples
    <3> QED
      BY <2>1, <3>1, <3>2
  <2> HIDE DEF low
  <2>4. high \in Nat /\ low + 1 <= high /\ high <= low + R /\ high <= L
    <3>1. CASE k = count
      BY <1>1, <1>2, <2>1, <2>2, <3>1
    <3>2. CASE k # count
      BY <1>1, <1>2, <2>1, <2>2, <2>3, <3>2
    <3> QED
      BY <3>1, <3>2
  <2> HIDE DEF high
  <2>5. \A i \in low + 1 .. high : text[i] \in A
    BY <2>1, <2>4 DEF L
  <2>6. SubSeq(text, low + 1, high) \in Seq(A) /\ Len(SubSeq(text, low + 1, high)) = high - low
    BY <2>1, <2>4, <2>5, SubSeqProperties
  <2>7. record(k) = SubSeq(text, low + 1, high)
    BY DEF low, high
  <2> HIDE DEF record
  <2> QED
    BY <1>1, <2>1, <2>4, <2>6, <2>7
<1> HIDE DEF record
<1>5. RecordsOf(text) \in Seq(Seq(A)) /\ Len(RecordsOf(text)) = count
  BY <1>2, <1>3, <1>4
<1> QED
  BY <1>3, <1>4, <1>5 DEF R

DigitSymbols == {Digits[d + 1] : d \in 0 .. 9}

(* Digit by digit, each number from the one without its last digit.        *)
LEMMA DecimalDef ==
  /\ DecimalOf \in [Nat -> Seq(DigitSymbols)]
  /\ \A n \in Nat :
       DecimalOf[n] = IF n < 10 THEN <<Digits[n + 1]>>
                      ELSE Append(DecimalOf[n \div 10], Digits[(n % 10) + 1])
<1> DEFINE Body(f, n) == IF n < 10 THEN <<Digits[n + 1]>>
                         ELSE Append(f[n \div 10], Digits[(n % 10) + 1])
           Is(f, m) == /\ f \in [0 .. m -> Seq(DigitSymbols)]
                       /\ \A n \in 0 .. m : f[n] = Body(f, n)
           S == {m \in Nat : \E f : Is(f, m)}
           G(m) == CHOOSE f : Is(f, m)
           F == [n \in Nat |-> G(n)[n]]
<1>1. ASSUME NEW n \in Nat
      PROVE  /\ n < 10 => <<Digits[n + 1]>> \in Seq(DigitSymbols)
             /\ Digits[(n % 10) + 1] \in DigitSymbols
             /\ n >= 10 => n \div 10 \in 0 .. n - 1
  <2>1. n < 10 => Digits[n + 1] \in DigitSymbols
    BY DEF DigitSymbols
  <2>2. n % 10 \in 0 .. 9
    OBVIOUS
  <2>3. n >= 10 => n \div 10 \in 0 .. n - 1
    OBVIOUS
  <2> QED
    BY <2>1, <2>2, <2>3 DEF DigitSymbols
<1>2. ASSUME NEW f, NEW m \in Nat, f \in [0 .. m -> Seq(DigitSymbols)], NEW n \in 0 .. m + 1
      PROVE  Body(f, n) \in Seq(DigitSymbols)
  <2>1. CASE n < 10
    BY <1>1, <2>1
  <2>2. CASE n >= 10
    <3>1. f[n \div 10] \in Seq(DigitSymbols)
      BY <1>1, <1>2, <2>2
    <3> QED
      BY <1>1, <2>2, <3>1, AppendProperties
  <2> QED
    BY <2>1, <2>2
<1>3. 0 \in S
  <2> DEFINE f == [n \in 0 .. 0 |-> <<Digits[n + 1]>>]
  <2>1. Is(f, 0)
    BY <1>1
  <2> QED
    BY <2>1
<1>4. ASSUME NEW m \in Nat, m \in S PROVE m + 1 \in S
  <2>1. PICK f : Is(f, m)
    BY <1>4
  <2> DEFINE g == [n \in 0 .. m + 1 |-> IF n <= m THEN f[n] ELSE Body(f, m + 1)]
  <2>2. g \in [0 .. m + 1 -> Seq(DigitSymbols)]
    <3> HIDE DEF Body
    <3>1. Body(f, m + 1) \in Seq(DigitSymbols)
      <4>1. m + 1 \in 0 .. m + 1
        OBVIOUS
      <4> QED
        BY <1>2, <2>1, <4>1
    <3> QED
      BY <2>1, <3>1
  <2>3. ASSUME NEW n \in 0 .. m + 1 PROVE g[n] = Body(g, n)
    <3>1. g[n] = Body(f, n)
      <4> HIDE DEF Body
      <4> QED
        BY <2>1
    <3>2. n >= 10 => g[n \div 10] = f[n \div 10]
      <4> HIDE DEF Body
      <4> QED
        BY <1>1
    <3> HIDE DEF g
    <3> QED
      BY <3>1, <3>2
  <2>4. Is(g, m + 1)
    <3> HIDE DEF g, Body
    <3> QED
      BY <2>2, <2>3
  <2> HIDE DEF Is
  <2> QED
    BY <2>4
<1>5. \A m \in Nat : Is(G(m), m)
  <2> HIDE DEF Is
  <2>1. \A m \in Nat : m \in S
    <3> HIDE DEF S
    <3> QED
      BY <1>3, <1>4, InductionOn
  <2> QED
    BY <2>1
<1>6. ASSUME NEW f, NEW g, NEW m \in Nat, NEW p \in Nat, Is(f, m), Is(g, p)
      PROVE  \A n \in Nat : n <= m /\ n <= p => f[n] = g[n]
  <2> DEFINE T == {n \in Nat : n <= m /\ n <= p /\ f[n] # g[n]}
  <2>1. SUFFICES ASSUME T # {} PROVE FALSE
    OBVIOUS
  <2>2. PICK n \in T : \A k \in T : n <= k
    BY <2>1, Least
  <2>3. n >= 10 => f[n \div 10] = g[n \div 10]
    BY <1>1, <2>2
  <2>4. f[n] = Body(f, n) /\ g[n] = Body(g, n)
    <3>1. n \in 0 .. m /\ n \in 0 .. p
      BY <2>2
    <3> HIDE DEF Body
    <3> QED
      BY <1>6, <3>1
  <2> QED
    BY <2>2, <2>3, <2>4
<1>7. ASSUME NEW n \in Nat PROVE F[n] \in Seq(DigitSymbols) /\ F[n] = Body(F, n)
  <2>1. G(n)[n] \in Seq(DigitSymbols) /\ G(n)[n] = Body(G(n), n)
    <3>1. Is(G(n), n)
      BY <1>5
    <3> HIDE DEF G
    <3> QED
      BY <3>1
  <2>2. ASSUME n >= 10 PROVE F[n \div 10] = G(n)[n \div 10]
    <3>1. n \div 10 \in Nat /\ n \div 10 <= n
      BY <1>1, <2>2
    <3>2. Is(G(n), n) /\ Is(G(n \div 10), n \div 10)
      BY <1>5, <3>1
    <3> HIDE DEF Is, G
    <3> QED
      BY <1>6, <3>1, <3>2
  <2>3. F[n] = G(n)[n]
    BY DEF F
  <2> HIDE DEF G, F
  <2>4. Body(G(n), n) = Body(F, n)
    <3>1. CASE n < 10
      BY <3>1
    <3>2. CASE n >= 10
      BY <2>2, <3>2
    <3> QED
      BY <3>1, <3>2
  <2> QED
    BY <2>1, <2>3, <2>4
<1>8. F = [n \in Nat |-> Body(F, n)]
  <2> HIDE DEF Body, G
  <2> QED
    BY <1>7
<1>9. DecimalOf = [n \in Nat |-> Body(DecimalOf, n)]
  <2> HIDE DEF F
  <2> QED
    BY <1>8, Zenon DEF DecimalOf
<1> HIDE DEF F
<1>10. \A n \in Nat : DecimalOf[n] = F[n]
  <2> DEFINE T == {n \in Nat : DecimalOf[n] # F[n]}
  <2>1. SUFFICES ASSUME T # {} PROVE FALSE
    OBVIOUS
  <2>2. PICK n \in T : \A k \in T : n <= k
    BY <2>1, Least
  <2>3. n >= 10 => DecimalOf[n \div 10] = F[n \div 10]
    BY <1>1, <2>2
  <2>4. DecimalOf[n] = Body(DecimalOf, n) /\ F[n] = Body(F, n)
    <3> HIDE DEF Body
    <3> QED
      BY <1>7, <1>9, <2>2
  <2> QED
    BY <2>2, <2>3, <2>4
<1>11. \A n \in Nat : DecimalOf[n] \in Seq(DigitSymbols) /\ DecimalOf[n] = Body(DecimalOf, n)
  <2> HIDE DEF Body
  <2> QED
    BY <1>7, <1>9, <1>10
<1>12. DecimalOf \in [Nat -> Seq(DigitSymbols)]
  <2>1. DOMAIN DecimalOf = Nat
    BY <1>9
  <2>2. DecimalOf = [n \in Nat |-> DecimalOf[n]]
    <3> HIDE DEF Body
    <3> QED
      BY <1>9
  <2> HIDE DEF Body
  <2> QED
    BY <1>11, <2>2
<1> QED
  BY <1>11, <1>12

Pipes == <<"|", "|">>

(* The text of a request, argument by argument.                            *)
IsText(A, args, text) ==
  /\ text \in [0 .. Len(args) -> Seq(A)] /\ text[0] = <<>>
  /\ \A k \in 1 .. Len(args) : text[k] = text[k - 1] \o Pipes \o args[k]

(* A request is encoded argument by argument.                              *)
LEMMA EncodedDef ==
  ASSUME NEW A, "|" \in A, NEW args \in Seq(Seq(A))
  PROVE  \E text : IsText(A, args, text) /\ Encoded(args) = apim_finish(text[Len(args)])
<1> DEFINE n == Len(args)
           Value(text, k) == IF k = 0 THEN <<>> ELSE apim_add_param(text[k - 1], args[k])
           step == [k \in 1 .. n |-> [s \in Seq(A) |-> apim_add_param(s, args[k])]]
           text == CHOOSE text : text = [k \in 0 .. n |-> Value(text, k)]
<1>1. n \in Nat /\ \A k \in 1 .. n : args[k] \in Seq(A)
  OBVIOUS
<1>2. Pipes \in Seq(A) /\ <<>> \in Seq(A)
  BY DEF Pipes
<1>3. ASSUME NEW s \in Seq(A), NEW k \in 1 .. n
      PROVE  apim_add_param(s, args[k]) = s \o Pipes \o args[k]
             /\ apim_add_param(s, args[k]) \in Seq(A)
  <2>1. apim_add_param(s, args[k]) = s \o Pipes \o args[k]
    BY DEF apim_add_param, Pipes
  <2>2. s \o Pipes \in Seq(A)
    BY <1>2, ConcatProperties
  <2> QED
    BY <1>1, <2>1, <2>2, ConcatProperties
<1>4. Encoded(args) = apim_finish(text[Len(args)])
  BY Zenon DEF Encoded
<1> HIDE DEF n
<1>5. step \in [1 .. n -> [Seq(A) -> Seq(A)]]
  BY <1>3
<1>6. PICK f : IsDefinedBy(f, n, Seq(A), <<>>, step)
  <2> HIDE DEF step
  <2>1. <<>> \in Seq(A) /\ n \in Nat
    BY <1>1, <1>2
  <2> QED
    BY <2>1, <1>5, Recursion
<1>7. ASSUME NEW k \in 1 .. n
      PROVE  f[k - 1] \in Seq(A) /\ f[k] = apim_add_param(f[k - 1], args[k])
  <2>1. k - 1 \in 0 .. n
    BY <1>1
  <2>2. f[k - 1] \in Seq(A)
    BY <1>6, <2>1 DEF IsDefinedBy
  <2>3. step[k] = [s \in Seq(A) |-> apim_add_param(s, args[k])]
    OBVIOUS
  <2> HIDE DEF step
  <2>4. f[k] = step[k][f[k - 1]]
    BY <1>6 DEF IsDefinedBy
  <2>5. step[k][f[k - 1]] = apim_add_param(f[k - 1], args[k])
    BY <2>2, <2>3
  <2> QED
    BY <2>2, <2>4, <2>5
<1>8. f = [k \in 0 .. n |-> Value(f, k)]
  <2>1. \A k \in 0 .. n : f[k] = Value(f, k)
    <3> HIDE DEF step
    <3> QED
      BY <1>1, <1>6, <1>7 DEF IsDefinedBy
  <2>2. f = [k \in 0 .. n |-> f[k]]
    <3> HIDE DEF step, Value
    <3> QED
      BY <1>6 DEF IsDefinedBy
  <2> HIDE DEF Value
  <2> QED
    BY <2>1, <2>2
<1>9. text = [k \in 0 .. n |-> Value(text, k)]
  <2> HIDE DEF Value
  <2> QED
    BY <1>8
<1> HIDE DEF text
<1>10. text[0] = <<>> /\ \A k \in 1 .. n : text[k] = apim_add_param(text[k - 1], args[k])
  BY <1>1, <1>9
<1>11. \A k \in 0 .. n : text[k] \in Seq(A)
  <2> DEFINE S == {k \in Nat : k <= n => text[k] \in Seq(A)}
  <2>1. 0 \in S
    BY <1>2, <1>10
  <2>2. ASSUME NEW k \in Nat, k \in S PROVE k + 1 \in S
    <3>1. k + 1 <= n => k + 1 \in 1 .. n /\ text[k + 1] = apim_add_param(text[k], args[k + 1])
      BY <1>1, <1>10
    <3>2. k + 1 <= n => text[k] \in Seq(A)
      BY <1>1, <2>2
    <3>3. k + 1 <= n => text[k + 1] \in Seq(A)
      BY <1>3, <3>1, <3>2
    <3> QED
      BY <3>3
  <2> HIDE DEF S
  <2>3. \A k \in Nat : k \in S
    BY <2>1, <2>2, InductionOn
  <2> QED
    BY <1>1, <2>3 DEF S
<1>12. \A k \in 1 .. n : text[k] = text[k - 1] \o Pipes \o args[k]
  <2> TAKE k \in 1 .. n
  <2>1. text[k - 1] \in Seq(A)
    BY <1>1, <1>11
  <2> QED
    BY <1>3, <1>10, <2>1
<1>13. DOMAIN text = 0 .. n
  BY <1>9
<1>14. text \in [0 .. n -> Seq(A)]
  <2>1. text = [k \in 0 .. n |-> text[k]]
    <3> HIDE DEF Value
    <3> QED
      BY <1>9
  <2> QED
    BY <1>11, <2>1
<1> QED
  BY <1>4, <1>10, <1>12, <1>14 DEF IsText, n

(* A number consists of what texts consist of.                             *)
LEMMA DigitsInAlphabet ==
  ASSUME NEW A, IsAlphabet(A)
  PROVE  DigitSymbols \in SUBSET A /\ "|" \in A
<1>1. DOMAIN Digits = 1 .. 10
  BY DEF Digits
<1>2. \A d \in 0 .. 9 : Digits[d + 1] \in ToSet(Digits)
  BY <1>1 DEF ToSet
<1> QED
  BY <1>2 DEF IsAlphabet, DigitSymbols

(* A request is never written as nothing.                                  *)
LEMMA EncodedIsText ==
  ASSUME NEW A, IsAlphabet(A), NEW args \in Seq(Seq(A))
  PROVE  Encoded(args) \in Seq(A) /\ Encoded(args) # <<>>
<1>1. PICK text : IsText(A, args, text) /\ Encoded(args) = apim_finish(text[Len(args)])
  BY DigitsInAlphabet, EncodedDef
<1> DEFINE whole == text[Len(args)]
<1>2. whole \in Seq(A) /\ Len(whole) \in Nat
  BY <1>1 DEF IsText
<1> HIDE DEF whole
<1> DEFINE number == DecimalOf[Len(whole)]
<1>3. number \in Seq(DigitSymbols) /\ number # <<>>
  <2>1. CASE Len(whole) < 10
    BY SMTT(40), <1>2, <2>1, DecimalDef
  <2>2. CASE Len(whole) >= 10
    <3>1. Len(whole) \div 10 \in Nat
      BY <1>2
    <3>2. /\ number \in Seq(DigitSymbols) /\ DecimalOf[Len(whole) \div 10] \in Seq(DigitSymbols)
          /\ number = Append(DecimalOf[Len(whole) \div 10], Digits[(Len(whole) % 10) + 1])
      <4>1. \A n \in Nat : DecimalOf[n] \in Seq(DigitSymbols)
        BY DecimalDef
      <4>2. ~ (Len(whole) < 10)
        BY <1>2, <2>2
      <4>3. number = Append(DecimalOf[Len(whole) \div 10], Digits[(Len(whole) % 10) + 1])
        BY <1>2, <4>2, DecimalDef
      <4> QED
        BY <1>2, <3>1, <4>1, <4>3
    <3> HIDE DEF number
    <3>3. Len(number) = Len(DecimalOf[Len(whole) \div 10]) + 1
      BY <3>2
    <3> QED
      BY <3>2, <3>3
  <2> QED
    BY <1>2, <2>1, <2>2
<1> HIDE DEF number
<1>4. number \in Seq(A)
  BY <1>3, DigitsInAlphabet, SeqMonotonic
<1>5. number \o whole \in Seq(A) /\ Len(number \o whole) = Len(number) + Len(whole)
  BY <1>2, <1>4, ConcatProperties
<1>6. number \o whole # <<>>
  <2>1. Len(number) \in Nat \ {0}
    BY <1>3, EmptySeq
  <2> QED
    BY <1>2, <1>5, <2>1
<1> QED
  BY <1>1, <1>5, <1>6 DEF apim_finish, number, whole

-----------------------------------------------------------------------------
(***************************************************************************)
(* The invariant: a line that is being typed was not asked for anything    *)
(* yet, and what was asked is one of its requests.                         *)
(***************************************************************************)

PathInv(A) ==
  /\ line \in Seq(Starts \cup Symbols) /\ Len(line) <= MaxLine
  /\ place \in {"typing", "written", "crashed"}
  /\ place = "typing" => asked = <<>>
  /\ wire \in Seq(Seq(A)) /\ \A k \in 1 .. Len(wire) : Len(wire[k]) \in 1 .. RecordSize
  /\ asked = <<>> => wire = <<>> /\ got = <<>>
  /\ asked # <<>> => asked \in RequestsOf(line)

(* The invariant holds at first.                                           *)
LEMMA PathInit ==
  ASSUME NEW A, Init
  PROVE  PathInv(A)
<1>1. line \in Seq(Starts \cup Symbols) /\ Len(line) = 0 /\ 0 <= MaxLine
  BY PathAssumption DEF Init, PathAssumption
<1>2. wire \in Seq(Seq(A)) /\ Len(wire) = 0
  BY DEF Init
<1> QED
  BY <1>1, <1>2 DEF PathInv, Init

(* No step violates the invariant.                                         *)
LEMMA PathStep ==
  ASSUME NEW A, IsAlphabet(A), PathInv(A), [Next]_vars
  PROVE  PathInv(A)'
<1> USE DEF PathInv
<1>1. ASSUME NEW symbol \in Starts \cup Symbols, Type(symbol) PROVE PathInv(A)'
  <2>1. /\ line' \in Seq(Starts \cup Symbols) /\ Len(line') = Len(line) + 1
        /\ Len(line) \in Nat /\ Len(line) < MaxLine
    BY <1>1, AppendProperties DEF Type
  <2>2. Len(line') <= MaxLine
    BY <2>1, PathAssumption DEF PathAssumption
  <2> QED
    BY <1>1, <2>1, <2>2 DEF Type
<1>2. ASSUME Enter PROVE PathInv(A)'
  <2>1. PICK request \in RequestsOf(line) :
          /\ asked' = request
          /\ wire' = IF request = <<>> THEN <<>> ELSE RecordsOf(Encoded(request))
    BY <1>2 DEF Enter
  <2>2. /\ place' = "written" /\ line' = line /\ got' = got /\ got = <<>>
    BY <1>2 DEF Enter
  <2>3. CASE request = <<>>
    <3>1. wire' \in Seq(Seq(A)) /\ Len(wire') = 0
      BY <2>1, <2>3
    <3> QED
      BY <2>1, <2>2, <2>3, <3>1
  <2>4. CASE request # <<>>
    <3>1. line \in Seq(A)
      BY SeqMonotonic DEF IsAlphabet
    <3>2. request \in Seq(Seq(A))
      BY <2>4, <3>1, WhatIsAsked
    <3>3. Encoded(request) \in Seq(A)
      BY <3>2, EncodedIsText
    <3>4. /\ wire' \in Seq(Seq(A))
          /\ \A k \in 1 .. Len(wire') : Len(wire'[k]) \in 1 .. RecordSize
      BY <2>1, <2>4, <3>3, RecordLengths
    <3> QED
      BY <2>1, <2>2, <2>4, <3>4
  <2> QED
    BY <2>3, <2>4
<1>3. CASE Crash
  BY <1>3 DEF Crash
<1>4. ASSUME Capture PROVE PathInv(A)'
  <2>1. wire # <<>> /\ wire' = Tail(wire) /\ UNCHANGED <<line, place, asked>> /\ asked # <<>>
    BY <1>4 DEF Capture
  <2>2. /\ wire' \in Seq(Seq(A)) /\ Len(wire') = Len(wire) - 1 /\ Len(wire) \in Nat
        /\ \A k \in 1 .. Len(wire') : wire'[k] = wire[k + 1]
    BY <2>1, HeadTailProperties
  <2>3. ASSUME NEW k \in 1 .. Len(wire') PROVE Len(wire'[k]) \in 1 .. RecordSize
    <3>1. k + 1 \in 1 .. Len(wire) /\ wire'[k] = wire[k + 1]
      BY <2>2
    <3> QED
      BY <3>1
  <2> QED
    BY <2>1, <2>2, <2>3
<1>5. ASSUME NextLine PROVE PathInv(A)'
  <2>1. line' = <<>> /\ place' = "typing" /\ asked' = <<>> /\ got' = <<>> /\ wire' = wire
        /\ wire = <<>>
    BY <1>5 DEF NextLine
  <2>2. line' \in Seq(Starts \cup Symbols) /\ Len(line') = 0 /\ 0 <= MaxLine
    BY <2>1, PathAssumption DEF PathAssumption
  <2>3. wire' \in Seq(Seq(A)) /\ Len(wire') = 0
    BY <2>1
  <2> QED
    BY <2>1, <2>2, <2>3
<1>6. CASE UNCHANGED vars
  BY <1>6 DEF vars
<1> QED
  BY <1>1, <1>2, <1>3, <1>4, <1>5, <1>6 DEF Next

(* In every behaviour of a line on its way, every variable has its type,   *)
(* no record is empty or too long, and without a request there is nothing  *)
(* on the way and nothing executed.                                        *)
THEOREM PathTypeCorrect ==
  ASSUME NEW CONSTANT A, IsAlphabet(A)
  PROVE  Spec => []PathTypeOK
<1>1. Init => PathInv(A)
  BY PathInit
<1>2. PathInv(A) /\ [Next]_vars => PathInv(A)'
  BY PathStep
<1>3. PathInv(A) => PathTypeOK
  BY DEF PathInv, PathTypeOK
<1> QED
  BY <1>1, <1>2, <1>3, PTL DEF Spec

(* A line that a client sends to everybody was meant neither as a command  *)
(* nor for one user, and a private text is what the user has typed behind  *)
(* the first space, with the name in front of it.                          *)
THEOREM Understanding ==
  ASSUME NEW CONSTANT A, IsAlphabet(A)
  PROVE  Spec => []LinesAreUnderstood
<1>1. Init => PathInv(A)
  BY PathInit
<1>2. PathInv(A) /\ [Next]_vars => PathInv(A)'
  BY PathStep
<1>3. ASSUME PathInv(A) PROVE LinesAreUnderstood
  BY <1>3, RequestIsUnderstood DEF PathInv, LinesAreUnderstood
<1> QED
  BY <1>1, <1>2, <1>3, PTL DEF Spec
-----------------------------------------------------------------------------
(***************************************************************************)
(* ArgumentsAreTheLine.                                                    *)
(***************************************************************************)

(* The parts of a line up to one of its cuts, put together again.          *)
LEMMA UpToCut ==
  ASSUME NEW A, NEW text \in Seq(A), NEW c, NEW at, IsCut(text, c, at), NEW k \in 2 .. c
  PROVE  SubSeq(text, 1, at[k] - 1)
           = SubSeq(text, 1, at[k - 1] - 1) \o <<Space>> \o SubSeq(text, at[k - 1] + 1, at[k] - 1)
<1> DEFINE i == at[k - 1]
           j == at[k]
           front == SubSeq(text, 1, i - 1)
           rest == SubSeq(text, i + 1, j - 1)
           middle == front \o <<Space>>
           whole == middle \o rest
<1>1. /\ i \in 1 .. Len(text) /\ j \in i + 1 .. Len(text) + 1 /\ text[i] = Space
      /\ Len(text) \in Nat
  <2>1. c \in Nat /\ k - 1 \in 1 .. c - 1 /\ k - 1 \in 1 .. c /\ k \in 1 .. c /\ k - 1 < k
    BY DEF IsCut
  <2>2. at[k - 1] \in 1 .. Len(text) + 1 /\ at[k] \in 1 .. Len(text) + 1
    BY <2>1 DEF IsCut
  <2>3. at[k - 1] < at[k]
    BY <2>1 DEF IsCut, Increasing
  <2>4. at[k - 1] <= Len(text) /\ text[at[k - 1]] = Space
    BY <2>1 DEF IsCut
  <2> QED
    BY <2>2, <2>3, <2>4
<1> HIDE DEF i, j
<1>2. Space \in A
  BY <1>1
<1>3. /\ front \in Seq(A) /\ Len(front) = i - 1
      /\ \A m \in 1 .. i - 1 : front[m] = text[m]
  BY <1>1
<1>4. /\ rest \in Seq(A) /\ Len(rest) = j - 1 - i
      /\ \A m \in 1 .. j - 1 - i : rest[m] = text[i + m]
  BY <1>1
<1>5. /\ SubSeq(text, 1, j - 1) \in Seq(A) /\ Len(SubSeq(text, 1, j - 1)) = j - 1
      /\ \A m \in 1 .. j - 1 : SubSeq(text, 1, j - 1)[m] = text[m]
  BY <1>1
<1> HIDE DEF front, rest
<1>6. /\ middle \in Seq(A) /\ Len(middle) = i /\ middle[i] = Space
      /\ \A m \in 1 .. i - 1 : middle[m] = text[m]
  BY <1>1, <1>2, <1>3
<1> HIDE DEF middle
<1>7. /\ whole \in Seq(A) /\ Len(whole) = Len(middle) + Len(rest)
      /\ \A m \in 1 .. Len(middle) + Len(rest) :
           whole[m] = IF m <= Len(middle) THEN middle[m] ELSE rest[m - Len(middle)]
  BY <1>4, <1>6, ConcatProperties
<1> HIDE DEF whole
<1>8. Len(whole) = j - 1
  BY <1>1, <1>4, <1>6, <1>7
<1>9. ASSUME NEW m \in 1 .. j - 1 PROVE whole[m] = text[m]
  <2>1. CASE m <= i
    <3>1. whole[m] = middle[m]
      BY <1>1, <1>4, <1>6, <1>7, <2>1
    <3> QED
      BY <1>1, <1>6, <2>1, <3>1
  <2>2. CASE ~ (m <= i)
    <3>1. m - i \in 1 .. j - 1 - i /\ i + (m - i) = m
      BY <1>1, <2>2
    <3>2. m \in 1 .. Len(middle) + Len(rest) /\ ~ (m <= Len(middle))
      BY <1>1, <1>4, <1>6, <2>2
    <3>3. whole[m] = rest[m - i]
      BY <1>6, <1>7, <3>2
    <3>4. rest[m - i] = text[m]
      BY <1>4, <3>1
    <3> QED
      BY <3>3, <3>4
  <2> QED
    BY <2>1, <2>2
<1>10. whole = SubSeq(text, 1, j - 1)
  BY <1>5, <1>7, <1>8, <1>9, SeqEqual
<1> QED
  BY <1>10 DEF whole, middle, front, rest, i, j

(* The arguments of a cut line, joined with spaces, are the line.          *)
LEMMA JoinedCuts ==
  ASSUME NEW A, NEW text \in Seq(A), NEW c, NEW at, IsCut(text, c, at),
         NEW parts, parts = [k \in 1 .. c |-> SubSeq(text, StartOf(at, k), at[k] - 1)]
  PROVE  Joined(parts) = text
<1> DEFINE Value(f, k) == IF k = 1 THEN parts[1] ELSE f[k - 1] \o <<Space>> \o parts[k]
           up == [k \in 1 .. c |-> SubSeq(text, 1, at[k] - 1)]
           f == CHOOSE f : f = [k \in 1 .. Len(parts) |-> Value(f, k)]
<1>1. c \in Nat \ {0} /\ Len(parts) = c
  BY DEF IsCut
<1>2. Joined(parts) = f[c]
  BY <1>1, Zenon DEF Joined
<1>3. \A k \in 1 .. c : up[k] = Value(up, k)
  <2> TAKE k \in 1 .. c
  <2>1. CASE k = 1
    BY <2>1 DEF StartOf
  <2>2. CASE k # 1
    <3>1. k \in 2 .. c /\ k - 1 \in 1 .. c
      BY <1>1, <2>2
    <3>2. parts[k] = SubSeq(text, at[k - 1] + 1, at[k] - 1)
      BY <2>2 DEF StartOf
    <3>3. up[k - 1] = SubSeq(text, 1, at[k - 1] - 1)
      BY <3>1
    <3>4. up[k] = SubSeq(text, 1, at[k] - 1)
      OBVIOUS
    <3> HIDE DEF up
    <3>5. SubSeq(text, 1, at[k] - 1)
           = SubSeq(text, 1, at[k - 1] - 1) \o <<Space>> \o SubSeq(text, at[k - 1] + 1, at[k] - 1)
      BY <3>1, UpToCut
    <3>6. up[k] = up[k - 1] \o <<Space>> \o parts[k]
      BY <3>2, <3>3, <3>4, <3>5, Zenon
    <3> QED
      BY <2>2, <3>6
  <2> QED
    BY <2>1, <2>2
<1>4. f = [k \in 1 .. c |-> Value(f, k)]
  <2>1. up = [k \in 1 .. c |-> Value(up, k)]
    <3>1. up = [k \in 1 .. c |-> up[k]]
      OBVIOUS
    <3> HIDE DEF Value, up
    <3> QED
      BY <1>3, <3>1
  <2> HIDE DEF Value, up
  <2> QED
    BY <1>1, <2>1
<1> HIDE DEF f
<1>5. \A k \in 1 .. c : f[k] = up[k]
  <2> DEFINE S == {k \in Nat : k + 1 <= c => f[k + 1] = up[k + 1]}
  <2> HIDE DEF up
  <2>1. 0 \in S
    BY <1>1, <1>3, <1>4
  <2>2. ASSUME NEW k \in Nat, k \in S PROVE k + 1 \in S
    <3>1. SUFFICES ASSUME k + 2 <= c PROVE f[k + 2] = up[k + 2]
      BY <1>1
    <3>2. f[k + 1] = up[k + 1]
      BY <1>1, <2>2, <3>1
    <3>3. k + 2 \in 1 .. c /\ k + 2 # 1 /\ (k + 2) - 1 = k + 1
      BY <1>1, <3>1
    <3>4. f[k + 2] = Value(f, k + 2) /\ up[k + 2] = Value(up, k + 2)
      <4> HIDE DEF Value
      <4> QED
        BY <1>3, <1>4, <3>3
    <3> QED
      BY <3>2, <3>3, <3>4
  <2> HIDE DEF S
  <2>3. \A k \in Nat : k \in S
    BY <2>1, <2>2, InductionOn
  <2>4. ASSUME NEW k \in 1 .. c PROVE f[k] = up[k]
    <3>1. PICK m \in Nat : k = m + 1
      <4>1. k - 1 \in Nat /\ k = (k - 1) + 1
        BY <1>1
      <4> QED
        BY <4>1
    <3>2. m \in S /\ m + 1 <= c
      BY <1>1, <2>3, <3>1
    <3> QED
      BY <3>1, <3>2 DEF S
  <2> QED
    BY <2>4
<1>6. up[c] = SubSeq(text, 1, Len(text))
  BY <1>1 DEF IsCut
<1>7. SubSeq(text, 1, Len(text)) = text
  BY SubSeqFull
<1> HIDE DEF up
<1> QED
  BY <1>1, <1>2, <1>5, <1>6, <1>7

(* In every behaviour the arguments of the line are the line cut at its    *)
(* spaces, and one that is not filled in is behind a space at the end.     *)
THEOREM Cutting ==
  ASSUME NEW CONSTANT A, IsAlphabet(A)
  PROVE  Spec => []ArgumentsAreTheLine
<1>1. Init => PathInv(A)
  BY PathInit
<1>2. PathInv(A) /\ [Next]_vars => PathInv(A)'
  BY PathStep
<1>3. ASSUME PathInv(A), line # <<>>
      PROVE  LET args == utils_str_to_args(line)
             IN  /\ \A k \in DOMAIN args :
                      args[k] = NULL => k = Len(args) /\ line[Len(line)] = Space
                 /\ Joined([k \in DOMAIN args |-> IF args[k] = NULL THEN <<>> ELSE args[k]]) = line
  <2>1. line \in Seq(A) /\ Len(line) \in Nat \ {0}
    <3>1. line \in Seq(A)
      BY <1>3, SeqMonotonic DEF IsAlphabet, PathInv
    <3> QED
      BY <1>3, <3>1, EmptySeq
  <2>2. PICK c \in Nat : \E at \in [1 .. c -> 1 .. Len(line) + 1] :
         IsCut(line, c, at) /\ utils_str_to_args(line) = ArgsAt(line, c, at)
    BY <2>1, Cuts
  <2>3. PICK at \in [1 .. c -> 1 .. Len(line) + 1] :
         IsCut(line, c, at) /\ utils_str_to_args(line) = ArgsAt(line, c, at)
    BY <2>2
  <2> DEFINE args == utils_str_to_args(line)
             part(k) == SubSeq(line, StartOf(at, k), at[k] - 1)
             parts == [k \in 1 .. c |-> part(k)]
  <2>4. DOMAIN args = 1 .. c /\ Len(args) = c
    BY <2>3 DEF ArgsAt
  <2>5. ASSUME NEW k \in 1 .. c
        PROVE /\ at[k] \in 1 .. Len(line) + 1
              /\ StartOf(at, k) \in Nat \ {0} /\ StartOf(at, k) <= at[k]
              /\ StartOf(at, k) > Len(line) =>
                   k = c /\ line[Len(line)] = Space /\ StartOf(at, k) = at[k]
    <3>1. CASE k = 1
      BY <2>1, <3>1 DEF StartOf
    <3>2. CASE k # 1
      <4>1. k - 1 \in 1 .. c /\ k - 1 < k /\ k - 1 \in 1 .. c - 1
        BY <3>2
      <4>2. at[k - 1] < at[k] /\ at[k - 1] \in 1 .. Len(line) + 1
        BY <2>3, <4>1 DEF IsCut, Increasing
      <4>3. at[k - 1] <= Len(line) /\ line[at[k - 1]] = Space
        BY <2>3, <4>1 DEF IsCut
      <4>4. StartOf(at, k) = at[k - 1] + 1
        BY <3>2 DEF StartOf
      <4>5. k # c => at[k] <= Len(line)
        <5>1. k # c => k \in 1 .. c - 1
          BY <4>1
        <5> QED
          BY <2>3, <5>1 DEF IsCut
      <4>6. /\ Len(line) \in Nat /\ at[k] \in Nat /\ at[k - 1] \in Nat \ {0}
            /\ StartOf(at, k) \in Nat \ {0} /\ StartOf(at, k) <= at[k]
        BY <2>1, <4>2, <4>4
      <4>7. StartOf(at, k) > Len(line) => at[k - 1] = Len(line)
        BY <4>3, <4>4, <4>6
      <4>8. ASSUME StartOf(at, k) > Len(line)
            PROVE k = c /\ line[Len(line)] = Space /\ StartOf(at, k) = at[k]
        <5>1. k = c
          BY <4>5, <4>6, <4>8
        <5>2. line[Len(line)] = Space
          BY <4>3, <4>7, <4>8, Zenon
        <5>3. StartOf(at, k) = at[k]
          BY <4>2, <4>6, <4>8
        <5> QED
          BY <5>1, <5>2, <5>3
      <4> QED
        BY <4>2, <4>6, <4>8
    <3> QED
      BY <3>1, <3>2
  <2>6. ASSUME NEW k \in 1 .. c PROVE part(k) \in Seq(A) /\ part(k) # NULL
    <3>1. \A i \in StartOf(at, k) .. at[k] - 1 : line[i] \in A
      BY <2>1, <2>5
    <3>2. part(k) \in Seq(A)
      BY <2>1, <2>5, <3>1, SubSeqProperties
    <3> QED
      BY <3>2 DEF IsAlphabet
  <2>7. ASSUME NEW k \in 1 .. c
        PROVE  /\ args[k] = NULL => k = c /\ line[Len(line)] = Space
               /\ part(k) = IF args[k] = NULL THEN <<>> ELSE args[k]
    <3>1. args[k] = IF StartOf(at, k) > Len(line) THEN NULL ELSE part(k)
      BY <2>3 DEF ArgsAt
    <3>2. CASE StartOf(at, k) > Len(line)
      <4>1. args[k] = NULL /\ k = c /\ line[Len(line)] = Space
        BY <2>5, <3>1, <3>2
      <4>2. at[k] - 1 < StartOf(at, k) /\ at[k] - 1 \in Int /\ StartOf(at, k) \in Int
        BY <2>5, <3>2
      <4>3. part(k) = <<>>
        BY <4>2, SubSeqEmpty
      <4> QED
        BY <4>1, <4>3
    <3>3. CASE ~ (StartOf(at, k) > Len(line))
      <4> HIDE DEF args, part
      <4> QED
        BY <2>6, <3>1, <3>3
    <3> QED
      BY <3>2, <3>3
  <2>8. [k \in DOMAIN args |-> IF args[k] = NULL THEN <<>> ELSE args[k]] = parts
    <3> HIDE DEF args, part
    <3> QED
      BY <2>4, <2>7
  <2>9. Joined(parts) = line
    <3>1. parts = [k \in 1 .. c |-> SubSeq(line, StartOf(at, k), at[k] - 1)]
      OBVIOUS
    <3> HIDE DEF parts
    <3> QED
      BY <2>1, <2>3, <3>1, JoinedCuts, ZenonT(60)
  <2>10. \A k \in DOMAIN args : args[k] = NULL => k = Len(args) /\ line[Len(line)] = Space
    <3> HIDE DEF args, part
    <3> QED
      BY <2>4, <2>7
  <2> QED
    BY <2>8, <2>9, <2>10
<1>4. PathInv(A) => ArgumentsAreTheLine
  BY <1>3 DEF ArgumentsAreTheLine
<1> QED
  BY <1>1, <1>2, <1>4, PTL DEF Spec
-----------------------------------------------------------------------------
(***************************************************************************)
(* Numbers: what is written for a length is read as this length.           *)
(***************************************************************************)

(* A digit has the value of its place in Digits.                           *)
LEMMA DigitValues ==
  /\ \A d \in 0 .. 9 : ValueOf(Digits[d + 1]) = d /\ Digits[d + 1] \in DigitSymbols
  /\ \A digit \in DigitSymbols : ValueOf(digit) \in 0 .. 9
  /\ DigitSymbols = ToSet(Digits) /\ "|" \notin DigitSymbols
<1>1. \A d, e \in 0 .. 9 : Digits[d + 1] = Digits[e + 1] => d = e
  BY DEF Digits
<1>2. \A d \in 0 .. 9 : Digits[d + 1] # "|"
  BY DEF Digits
<1>3. DOMAIN Digits = 1 .. 10
  BY DEF Digits
<1>4. ASSUME NEW d \in 0 .. 9 PROVE ValueOf(Digits[d + 1]) = d
  BY <1>1 DEF ValueOf
<1>5. ToSet(Digits) = DigitSymbols
  <2>1. \A k \in 1 .. 10 : k - 1 \in 0 .. 9 /\ (k - 1) + 1 = k
    OBVIOUS
  <2>2. \A d \in 0 .. 9 : d + 1 \in 1 .. 10
    OBVIOUS
  <2>3. ASSUME NEW digit \in ToSet(Digits) PROVE digit \in DigitSymbols
    <3>1. PICK k \in 1 .. 10 : digit = Digits[k]
      BY <1>3 DEF ToSet
    <3> QED
      BY <2>1, <3>1 DEF DigitSymbols
  <2>4. DigitSymbols \subseteq ToSet(Digits)
    BY <1>3, <2>2 DEF ToSet, DigitSymbols
  <2> QED
    BY <2>3, <2>4
<1> QED
  BY <1>2, <1>4, <1>5 DEF DigitSymbols

(* The value of the digits so far.                                         *)
IsValue(s, value) ==
  /\ value \in [0 .. Len(s) -> Nat] /\ value[0] = 0
  /\ \A k \in 1 .. Len(s) : value[k] = 10 * value[k - 1] + ValueOf(s[k])

(* atoi goes from digit to digit.                                          *)
LEMMA AtoiDef ==
  ASSUME NEW s \in Seq(DigitSymbols)
  PROVE  \E value : IsValue(s, value) /\ atoi(s) = value[Len(s)]
<1> DEFINE n == Len(s)
           Value(f, k) == IF k = 0 THEN 0 ELSE 10 * f[k - 1] + ValueOf(s[k])
           step == [k \in 1 .. n |-> [v \in Nat |-> 10 * v + ValueOf(s[k])]]
           value == CHOOSE value : value = [k \in 0 .. n |-> Value(value, k)]
<1>1. n \in Nat /\ \A k \in 1 .. n : ValueOf(s[k]) \in 0 .. 9
  BY DigitValues
<1>2. atoi(s) = value[Len(s)]
  BY Zenon DEF atoi
<1> HIDE DEF n
<1>3. step \in [1 .. n -> [Nat -> Nat]]
  BY <1>1
<1>4. PICK f : IsDefinedBy(f, n, Nat, 0, step)
  <2> HIDE DEF step
  <2> QED
    BY <1>1, <1>3, Recursion
<1>5. ASSUME NEW k \in 1 .. n
      PROVE  f[k - 1] \in Nat /\ f[k] = 10 * f[k - 1] + ValueOf(s[k])
  <2>1. k - 1 \in 0 .. n
    BY <1>1
  <2>2. f[k - 1] \in Nat
    BY <1>4, <2>1 DEF IsDefinedBy
  <2>3. step[k] = [v \in Nat |-> 10 * v + ValueOf(s[k])]
    OBVIOUS
  <2> HIDE DEF step
  <2>4. f[k] = step[k][f[k - 1]]
    BY <1>4 DEF IsDefinedBy
  <2>5. step[k][f[k - 1]] = 10 * f[k - 1] + ValueOf(s[k])
    BY <2>2, <2>3
  <2> QED
    BY <2>2, <2>4, <2>5
<1>6. f \in [0 .. n -> Nat] /\ f[0] = 0
  <2> HIDE DEF step
  <2> QED
    BY <1>4 DEF IsDefinedBy
<1>7. f = [k \in 0 .. n |-> Value(f, k)]
  <2>1. \A k \in 0 .. n : f[k] = Value(f, k)
    BY <1>1, <1>5, <1>6
  <2>2. f = [k \in 0 .. n |-> f[k]]
    BY <1>6
  <2> HIDE DEF Value
  <2> QED
    BY <2>1, <2>2
<1>8. value = [k \in 0 .. n |-> Value(value, k)]
  <2> HIDE DEF Value
  <2> QED
    BY <1>7
<1> HIDE DEF value
<1>9. value[0] = 0 /\ \A k \in 1 .. n : value[k] = 10 * value[k - 1] + ValueOf(s[k])
  BY <1>1, <1>8
<1>10. \A k \in 0 .. n : value[k] \in Nat
  <2> DEFINE S == {k \in Nat : k <= n => value[k] \in Nat}
  <2>1. 0 \in S
    BY <1>9
  <2>2. ASSUME NEW k \in Nat, k \in S PROVE k + 1 \in S
    <3>1. ASSUME k + 1 <= n PROVE value[k + 1] \in Nat
      <4>1. k + 1 \in 1 .. n /\ value[k] \in Nat /\ (k + 1) - 1 = k
        BY <1>1, <2>2, <3>1
      <4>2. value[k + 1] = 10 * value[(k + 1) - 1] + ValueOf(s[k + 1])
        BY <1>9, <4>1, Zenon
      <4> QED
        BY SMTT(40), <1>1, <4>1, <4>2
    <3> QED
      BY <3>1
  <2> HIDE DEF S
  <2>3. \A k \in Nat : k \in S
    BY <2>1, <2>2, InductionOn
  <2> QED
    BY <1>1, <2>3 DEF S
<1>11. value \in [0 .. n -> Nat]
  <2>1. value = [k \in 0 .. n |-> value[k]]
    <3> HIDE DEF Value
    <3> QED
      BY <1>8
  <2> QED
    BY <1>10, <2>1
<1> QED
  BY <1>2, <1>9, <1>11 DEF IsValue, n

(* One more digit makes ten times the value, and the digit.                *)
LEMMA AtoiAppend ==
  ASSUME NEW s \in Seq(DigitSymbols), NEW d \in 0 .. 9
  PROVE  atoi(s) \in Nat /\ atoi(Append(s, Digits[d + 1])) = 10 * atoi(s) + d
<1> DEFINE t == Append(s, Digits[d + 1])
           n == Len(s)
<1>1. /\ t \in Seq(DigitSymbols) /\ Len(t) = n + 1 /\ n \in Nat
      /\ t[n + 1] = Digits[d + 1] /\ \A k \in 1 .. n : t[k] = s[k]
  BY DigitValues
<1> HIDE DEF t, n
<1>2. PICK value : IsValue(s, value) /\ atoi(s) = value[n]
  BY AtoiDef DEF n
<1>3. PICK longer : IsValue(t, longer) /\ atoi(t) = longer[n + 1]
  BY <1>1, AtoiDef
<1>4. \A k \in 0 .. n : longer[k] = value[k]
  <2> DEFINE S == {k \in Nat : k <= n => longer[k] = value[k]}
  <2>1. 0 \in S
    BY <1>2, <1>3 DEF IsValue
  <2>2. ASSUME NEW k \in Nat, k \in S PROVE k + 1 \in S
    <3>1. ASSUME k + 1 <= n PROVE longer[k + 1] = value[k + 1]
      <4>1. k + 1 \in 1 .. n /\ k + 1 \in 1 .. n + 1 /\ longer[k] = value[k] /\ (k + 1) - 1 = k
        BY <1>1, <2>2, <3>1
      <4>2. value[k + 1] = 10 * value[k] + ValueOf(s[k + 1])
        BY <1>2, <4>1 DEF IsValue, n
      <4>3. longer[k + 1] = 10 * longer[k] + ValueOf(t[k + 1])
        BY <1>1, <1>3, <4>1 DEF IsValue
      <4> QED
        BY <1>1, <4>1, <4>2, <4>3
    <3> QED
      BY <3>1
  <2> HIDE DEF S
  <2>3. \A k \in Nat : k \in S
    BY <2>1, <2>2, InductionOn
  <2> QED
    BY <1>1, <2>3 DEF S
<1>5. value[n] \in Nat /\ longer[n] = value[n]
  BY <1>1, <1>2, <1>4 DEF IsValue, n
<1>6. longer[n + 1] = 10 * longer[n] + ValueOf(t[n + 1])
  <2>1. n + 1 \in 1 .. n + 1 /\ (n + 1) - 1 = n
    BY <1>1
  <2> QED
    BY <1>1, <1>3, <2>1 DEF IsValue
<1>7. ValueOf(t[n + 1]) = d
  BY <1>1, DigitValues
<1> QED
  BY <1>2, <1>3, <1>5, <1>6, <1>7 DEF t

(* The last digit and the number without it.                               *)
LEMMA DecimalStep ==
  ASSUME NEW n \in Nat, n >= 10
  PROVE  \E q \in Nat, r \in 0 .. 9 :
           /\ q < n /\ n = 10 * q + r
           /\ DecimalOf[q] \in Seq(DigitSymbols)
           /\ DecimalOf[n] = Append(DecimalOf[q], Digits[r + 1])
<1> DEFINE q == n \div 10
           r == n % 10
<1>1. q \in Nat /\ r \in 0 .. 9 /\ n = 10 * q + r /\ q < n
  BY LastDigit
<1>2. DecimalOf[n] = Append(DecimalOf[q], Digits[r + 1])
  <2>1. ~ (n < 10)
    OBVIOUS
  <2> QED
    BY <2>1, DecimalDef
<1>3. \A m \in Nat : DecimalOf[m] \in Seq(DigitSymbols)
  BY DecimalDef
<1> HIDE DEF q, r
<1> QED
  BY <1>1, <1>2, <1>3

(* A number below ten has one digit.                                       *)
LEMMA DecimalOfDigit ==
  ASSUME NEW n \in 0 .. 9
  PROVE  DecimalOf[n] = <<Digits[n + 1]>> /\ DecimalOf[n] \in Seq(DigitSymbols)
<1>1. n \in Nat /\ n < 10
  OBVIOUS
<1> QED
  BY <1>1, DecimalDef

(* atoi reads what sprintf has written.                                    *)
LEMMA AtoiOfDecimal == \A n \in Nat : atoi(DecimalOf[n]) = n
<1> DEFINE T == {n \in Nat : atoi(DecimalOf[n]) # n}
<1>1. SUFFICES ASSUME T # {} PROVE FALSE
  OBVIOUS
<1>2. PICK n \in T : \A k \in T : n <= k
  BY <1>1, Least
<1>3. n \in Nat /\ atoi(DecimalOf[n]) # n
  OBVIOUS
<1>4. CASE n < 10
  <2>1. n \in 0 .. 9
    BY <1>3, <1>4
  <2>2. DecimalOf[n] = <<Digits[n + 1]>>
    BY <2>1, DecimalOfDigit
  <2>3. <<>> \in Seq(DigitSymbols) /\ Append(<<>>, Digits[n + 1]) = <<Digits[n + 1]>>
    OBVIOUS
  <2>4. PICK value : IsValue(<<>>, value) /\ atoi(<<>>) = value[Len(<<>>)]
    BY <2>3, AtoiDef
  <2>5. atoi(<<>>) = 0
    BY <2>4 DEF IsValue
  <2>6. atoi(Append(<<>>, Digits[n + 1])) = 10 * atoi(<<>>) + n
    BY <2>1, <2>3, AtoiAppend
  <2> QED
    BY <1>3, <2>2, <2>3, <2>5, <2>6
<1>5. CASE n >= 10
  <2>1. PICK q \in Nat, r \in 0 .. 9 :
          /\ q < n /\ n = 10 * q + r
          /\ DecimalOf[q] \in Seq(DigitSymbols)
          /\ DecimalOf[n] = Append(DecimalOf[q], Digits[r + 1])
    BY <1>3, <1>5, DecimalStep
  <2>2. atoi(Append(DecimalOf[q], Digits[r + 1])) = 10 * atoi(DecimalOf[q]) + r
    BY <2>1, AtoiAppend
  <2>3. q \notin T
    BY <1>2, <1>3, <2>1
  <2>4. atoi(DecimalOf[q]) = q
    BY <2>3
  <2> QED
    BY <1>3, <2>1, <2>2, <2>4
<1> QED
  BY <1>3, <1>4, <1>5

(* How long a number may be that is written with l digits.                 *)
IsShort(n, l) == DecimalOf[n] \in Seq(DigitSymbols) /\ Len(DecimalOf[n]) \in 1 .. l

(* A number below ten needs one digit.                                     *)
LEMMA ShortDigit ==
  ASSUME NEW n \in Nat, n < 10
  PROVE  IsShort(n, 1)
<1>1. n \in 0 .. 9
  OBVIOUS
<1>2. DecimalOf[n] = <<Digits[n + 1]>> /\ DecimalOf[n] \in Seq(DigitSymbols)
  BY <1>1, DecimalOfDigit
<1>3. Len(DecimalOf[n]) = 1
  BY <1>2
<1> QED
  BY <1>2, <1>3 DEF IsShort

(* A number has one digit more than the number without its last digit.     *)
LEMMA ShortStep ==
  ASSUME NEW l \in Nat, NEW bound \in Nat, \A q \in Nat : q < bound => IsShort(q, l),
         NEW n \in Nat, n < 10 * bound, n >= 10
  PROVE  IsShort(n, l + 1)
<1>1. PICK q \in Nat, r \in 0 .. 9 :
        /\ q < n /\ n = 10 * q + r
        /\ DecimalOf[q] \in Seq(DigitSymbols)
        /\ DecimalOf[n] = Append(DecimalOf[q], Digits[r + 1])
  BY DecimalStep
<1>2. q < bound
  BY <1>1
<1>3. IsShort(q, l) /\ Digits[r + 1] \in DigitSymbols
  BY <1>2, DigitValues
<1>4. /\ DecimalOf[n] \in Seq(DigitSymbols)
      /\ Len(DecimalOf[n]) = Len(DecimalOf[q]) + 1
  BY <1>1, <1>3, AppendProperties
<1>5. Len(DecimalOf[q]) \in 1 .. l
  BY <1>3 DEF IsShort
<1>6. Len(DecimalOf[n]) \in 1 .. l + 1
  BY <1>4, <1>5
<1> QED
  BY <1>4, <1>6 DEF IsShort

(* The longest text whose length has no more than five digits.             *)
MaxLength == 99999

(* A record is not longer than the length in front of a text can say.      *)
LEMMA RecordSizes == RecordSize \in Nat \ {0} /\ RecordSize <= MaxLength /\ MaxLength \in Nat
<1>1. RecordSize \in Nat \ {0} /\ RecordSize <= 99999
  BY PathAssumption, SMT DEF PathAssumption
<1> QED
  BY <1>1, SMT DEF MaxLength

(* Such a length has no more digits than are read of it.                   *)
LEMMA DecimalLength ==
  ASSUME NEW n \in Nat, n <= MaxLength
  PROVE  IsShort(n, 5)
<1>1. ASSUME NEW l \in Nat, NEW bound \in Nat, \A q \in Nat : q < bound => IsShort(q, l),
             NEW m \in Nat, m < 10 * bound
      PROVE  IsShort(m, l + 1)
  <2>1. CASE m < 10
    <3>1. IsShort(m, 1)
      BY <2>1, ShortDigit
    <3>2. 1 .. 1 \subseteq 1 .. l + 1
      OBVIOUS
    <3> QED
      BY <3>1, <3>2, Zenon DEF IsShort
  <2>2. CASE m >= 10
    BY <1>1, <2>2, ShortStep
  <2> QED
    BY <2>1, <2>2
<1> DEFINE Bounded(bound, l) == \A m \in Nat : m < bound => IsShort(m, l)
<1>2. ASSUME NEW l \in Nat, NEW bound \in Nat, Bounded(bound, l) PROVE Bounded(10 * bound, l + 1)
  BY <1>1, <1>2
<1>3. Bounded(10, 1)
  BY ShortDigit
<1> HIDE DEF Bounded
<1>4. Bounded(10 * 10, 1 + 1)
  BY <1>2, <1>3, SMT
<1>5. Bounded(10 * (10 * 10), (1 + 1) + 1)
  BY <1>2, <1>4, SMT
<1>6. Bounded(10 * (10 * (10 * 10)), ((1 + 1) + 1) + 1)
  BY <1>2, <1>5, SMT
<1>7. Bounded(10 * (10 * (10 * (10 * 10))), (((1 + 1) + 1) + 1) + 1)
  BY <1>2, <1>6, SMT
<1>8. Bounded(100000, 5)
  BY <1>7, SMT
<1> QED
  BY <1>8, SMT DEF Bounded, MaxLength

(* A record that holds the whole text is captured as this text.            *)
LEMMA CaptureOfFinished ==
  ASSUME NEW A, IsAlphabet(A), NEW whole \in Seq(A), whole # <<>>, whole[1] = "|",
         Len(whole) <= MaxLength
  PROVE  apim_capture_socket_msg(apim_finish(whole)) = {whole}
<1> DEFINE number == DecimalOf[Len(whole)]
           record == apim_finish(whole)
           d == Len(number)
           NonDigits == {i \in 1 .. Len(record) : record[i] \notin ToSet(Digits)}
           end == IF NonDigits = {} THEN Len(record) ELSE FirstOf(NonDigits, record) - 1
           digits == IF end > 5 THEN 5 ELSE end
           length == atoi(SubSeq(record, 1, digits))
           rest == SubSeq(record, digits + 1, Len(record))
<1>1. Len(whole) \in Nat \ {0}
  BY EmptySeq
<1>2. number \in Seq(DigitSymbols) /\ d \in 1 .. 5 /\ atoi(number) = Len(whole)
  BY <1>1, DecimalLength, AtoiOfDecimal DEF IsShort
<1>3. record = number \o whole
  BY DEF apim_finish
<1>4. apim_capture_socket_msg(record) =
        IF length <= Len(rest) THEN {SubSeq(rest, 1, length)}
        ELSE {rest \o [i \in 1 .. k |-> Junk] : k \in 0 .. length - Len(rest)}
  <2> HIDE DEF record
  <2> QED
    BY DEF apim_capture_socket_msg
<1> HIDE DEF record, number
<1>5. number \in Seq(A)
  BY <1>2, DigitsInAlphabet, SeqMonotonic
<1>6. /\ record \in Seq(A) /\ Len(record) = d + Len(whole)
      /\ \A i \in 1 .. d + Len(whole) :
           record[i] = IF i <= d THEN number[i] ELSE whole[i - d]
  BY <1>3, <1>5, ConcatProperties
<1>7. \A i \in 1 .. d : record[i] \in DigitSymbols /\ record[i] = number[i]
  BY <1>1, <1>2, <1>6
<1>8. record[d + 1] = "|"
  <2>1. d + 1 \in 1 .. d + Len(whole) /\ ~ (d + 1 <= d) /\ (d + 1) - d = 1
    BY <1>1, <1>2
  <2> QED
    BY <1>6, <2>1
<1>9. end = d
  <2>1. d + 1 \in NonDigits
    BY <1>1, <1>2, <1>6, <1>8, DigitValues
  <2>2. \A i \in NonDigits : d + 1 <= i
    BY <1>2, <1>7, DigitValues
  <2>3. \A i \in NonDigits : i \in Int
    BY <1>6
  <2> HIDE DEF NonDigits
  <2>4. FirstOf(NonDigits, record) = d + 1
    <3>1. FirstOf(NonDigits, record) = CHOOSE i \in NonDigits : \A j \in NonDigits : i <= j
      BY <2>1 DEF FirstOf
    <3>2. \A i \in NonDigits : (\A j \in NonDigits : i <= j) => i = d + 1
      BY <1>2, <2>1, <2>2, <2>3
    <3> QED
      BY <2>1, <2>2, <3>1, <3>2
  <2> QED
    BY <1>2, <2>1, <2>4
<1> HIDE DEF end
<1>10. digits = d
  BY <1>2, <1>9
<1> HIDE DEF digits
<1>11. SubSeq(record, 1, d) = number
  <2>1. /\ SubSeq(record, 1, d) \in Seq(A) /\ Len(SubSeq(record, 1, d)) = d
        /\ \A i \in 1 .. d : SubSeq(record, 1, d)[i] = record[i]
    BY <1>1, <1>2, <1>6
  <2> QED
    BY <1>5, <1>7, <2>1, SeqEqual
<1>12. length = Len(whole)
  <2>1. SubSeq(record, 1, digits) = number
    BY <1>10, <1>11
  <2> QED
    BY <1>2, <2>1
<1>13. rest = whole
  <2>1. /\ SubSeq(record, d + 1, Len(record)) \in Seq(A)
        /\ Len(SubSeq(record, d + 1, Len(record))) = Len(whole)
        /\ \A i \in 1 .. Len(whole) : SubSeq(record, d + 1, Len(record))[i] = record[d + i]
    BY <1>1, <1>2, <1>6
  <2>2. ASSUME NEW i \in 1 .. Len(whole) PROVE record[d + i] = whole[i]
    <3>1. d + i \in 1 .. d + Len(whole) /\ ~ (d + i <= d) /\ (d + i) - d = i
      BY <1>1, <1>2
    <3> QED
      BY <1>6, <3>1
  <2>3. SubSeq(record, d + 1, Len(record)) = whole
    BY <2>1, <2>2, SeqEqual
  <2> QED
    BY <1>10, <2>3
<1> HIDE DEF length, rest
<1>14. SubSeq(whole, 1, Len(whole)) = whole
  BY SubSeqFull
<1> QED
  BY <1>1, <1>4, <1>12, <1>13, <1>14 DEF record
-----------------------------------------------------------------------------
(***************************************************************************)
(* Where the arguments are in the text of a request: O[k] is where the     *)
(* separator in front of argument k ends.                                  *)
(***************************************************************************)

Laid(A, s, args, O) ==
  /\ s \in Seq(A) /\ args \in Seq(Seq(A)) /\ args # <<>>
  /\ O \in [1 .. Len(args) -> Nat] /\ O[1] = 2
  /\ \A k \in 1 .. Len(args) - 1 : O[k + 1] = O[k] + Len(args[k]) + 2
  /\ Len(s) = O[Len(args)] + Len(args[Len(args)])
  /\ \A k \in 1 .. Len(args) :
       /\ s[O[k] - 1] = "|" /\ s[O[k]] = "|"
       /\ \A i \in 1 .. Len(args[k]) : s[O[k] + i] = args[k][i]

IsConcat(s, t, word) ==
  /\ Len(word) = Len(s) + Len(t)
  /\ \A i \in 1 .. Len(s) : word[i] = s[i]
  /\ \A i \in 1 .. Len(t) : word[Len(s) + i] = t[i]

(* What two texts in a row consist of.                                     *)
LEMMA ConcatAt ==
  ASSUME NEW A, NEW s \in Seq(A), NEW t \in Seq(A)
  PROVE  s \o t \in Seq(A) /\ IsConcat(s, t, s \o t)
<1>1. ASSUME NEW i \in 1 .. Len(t) PROVE (s \o t)[Len(s) + i] = t[i]
  <2>1. /\ Len(s) + i \in 1 .. Len(s) + Len(t) /\ ~ (Len(s) + i <= Len(s))
        /\ (Len(s) + i) - Len(s) = i
    OBVIOUS
  <2> QED
    BY <2>1, ConcatProperties
<1> QED
  BY <1>1, ConcatProperties DEF IsConcat

IsSeparated(front, arg, word) ==
  /\ Len(word) = Len(front) + 2 + Len(arg)
  /\ \A i \in 1 .. Len(front) : word[i] = front[i]
  /\ word[Len(front) + 1] = "|" /\ word[Len(front) + 2] = "|"
  /\ \A i \in 1 .. Len(arg) : word[Len(front) + 2 + i] = arg[i]

(* A separator and an argument behind a text.                              *)
LEMMA SeparatorAt ==
  ASSUME NEW A, "|" \in A, NEW front \in Seq(A), NEW arg \in Seq(A)
  PROVE  IsSeparated(front, arg, (front \o Pipes) \o arg)
<1> DEFINE middle == front \o Pipes
           word == middle \o arg
<1>1. Pipes \in Seq(A) /\ Len(Pipes) = 2 /\ Pipes[1] = "|" /\ Pipes[2] = "|"
  BY DEF Pipes
<1>2. middle \in Seq(A) /\ IsConcat(front, Pipes, middle)
  <2> SUFFICES front \in Seq(A) /\ Pipes \in Seq(A)
    BY ConcatAt, Zenon
  <2> QED
    BY <1>1
<1> HIDE DEF middle
<1>3. IsConcat(middle, arg, word)
  BY <1>2, ConcatAt, Zenon
<1> HIDE DEF word
<1>4. Len(front) \in Nat /\ Len(arg) \in Nat
  OBVIOUS
<1>5. /\ Len(middle) = Len(front) + 2
      /\ \A i \in 1 .. Len(front) : middle[i] = front[i]
      /\ middle[Len(front) + 1] = "|" /\ middle[Len(front) + 2] = "|"
  BY <1>1, <1>2 DEF IsConcat
<1>6. IsSeparated(front, arg, word)
  BY <1>3, <1>4, <1>5 DEF IsConcat, IsSeparated
<1> QED
  BY <1>6 DEF word, middle

(* Every text of a request has its arguments somewhere.                    *)
LEMMA TextIsLaid ==
  ASSUME NEW A, "|" \in A, NEW args \in Seq(Seq(A)), args # <<>>, NEW text, IsText(A, args, text)
  PROVE  \E O : Laid(A, text[Len(args)], args, O)
<1> DEFINE n == Len(args)
           s == text[n]
           O == [k \in 1 .. n |-> Len(text[k - 1]) + 2]
<1>1. n \in Nat \ {0} /\ \A k \in 1 .. n : args[k] \in Seq(A) /\ Len(args[k]) \in Nat
  BY EmptySeq
<1> HIDE DEF n
<1>2. \A k \in 0 .. n : text[k] \in Seq(A) /\ Len(text[k]) \in Nat
  BY DEF IsText, n
<1>3. ASSUME NEW k \in 1 .. n
      PROVE  /\ Len(text[k]) = Len(text[k - 1]) + 2 + Len(args[k])
             /\ \A i \in 1 .. Len(text[k - 1]) : text[k][i] = text[k - 1][i]
             /\ text[k][Len(text[k - 1]) + 1] = "|" /\ text[k][Len(text[k - 1]) + 2] = "|"
             /\ \A i \in 1 .. Len(args[k]) : text[k][Len(text[k - 1]) + 2 + i] = args[k][i]
  <2>1. k - 1 \in 0 .. n
    BY <1>1
  <2>2. text[k - 1] \in Seq(A) /\ args[k] \in Seq(A)
    BY <1>1, <1>2, <2>1
  <2>3. text[k] = (text[k - 1] \o Pipes) \o args[k]
    BY DEF IsText, n
  <2>4. IsSeparated(text[k - 1], args[k], (text[k - 1] \o Pipes) \o args[k])
    BY <2>2, SeparatorAt, Zenon
  <2>5. IsSeparated(text[k - 1], args[k], text[k])
    BY <2>3, <2>4, Zenon
  <2> QED
    BY <2>5 DEF IsSeparated
<1>4. \A k \in 0 .. n : Len(text[k]) <= Len(s) /\ \A i \in 1 .. Len(text[k]) : s[i] = text[k][i]
  <2> DEFINE Begun(k) == Len(text[k]) <= Len(s) /\ \A i \in 1 .. Len(text[k]) : s[i] = text[k][i]
             S == {m \in Nat : m <= n => Begun(n - m)}
  <2>1. 0 \in S
    BY <1>1, <1>2
  <2>2. ASSUME NEW m \in Nat, m \in S, m + 1 <= n PROVE Begun(n - (m + 1))
    <3>1. /\ n - m \in 1 .. n /\ (n - m) - 1 = n - (m + 1) /\ n - (m + 1) \in 0 .. n
          /\ n - m \in 0 .. n /\ m <= n
      BY <1>1, <2>2
    <3>2. Begun(n - m)
      BY <2>2, <3>1
    <3>3. /\ Len(text[n - m]) = Len(text[n - (m + 1)]) + 2 + Len(args[n - m])
          /\ \A i \in 1 .. Len(text[n - (m + 1)]) : text[n - m][i] = text[n - (m + 1)][i]
      <4>1. /\ Len(text[n - m]) = Len(text[(n - m) - 1]) + 2 + Len(args[n - m])
            /\ \A i \in 1 .. Len(text[(n - m) - 1]) : text[n - m][i] = text[(n - m) - 1][i]
        BY <1>3, <3>1, Zenon
      <4> QED
        BY <3>1, <4>1, Zenon
    <3>4. /\ Len(text[n - m]) \in Nat /\ Len(text[n - (m + 1)]) \in Nat
          /\ Len(args[n - m]) \in Nat /\ Len(s) \in Nat
      <4>1. /\ text[n - m] \in Seq(A) /\ text[n - (m + 1)] \in Seq(A) /\ args[n - m] \in Seq(A)
            /\ n \in 0 .. n /\ s = text[n]
        BY <1>1, <1>2, <3>1
      <4>2. s \in Seq(A)
        BY <1>2, <4>1
      <4> QED
        BY SMTT(40), <3>1, <4>1
    <3> DEFINE short == text[n - (m + 1)]
               long == text[n - m]
    <3> HIDE DEF s
    <3>5. /\ Len(long) <= Len(s) /\ \A i \in 1 .. Len(long) : s[i] = long[i]
          /\ Len(short) <= Len(long) /\ \A i \in 1 .. Len(short) : long[i] = short[i]
      <4>1. Len(long) <= Len(s) /\ \A i \in 1 .. Len(long) : s[i] = long[i]
        BY <3>2, Zenon
      <4>2. \A i \in 1 .. Len(short) : long[i] = short[i]
        BY <3>3, Zenon
      <4>3. \A p \in Nat, q \in Nat, r \in Nat : p = q + 2 + r => q <= p
        OBVIOUS
      <4>4. Len(short) <= Len(long)
        BY <3>3, <3>4, <4>3, Zenon
      <4> QED
        BY <4>1, <4>2, <4>4
    <3>6. Len(short) \in Nat /\ Len(long) \in Nat /\ Len(s) \in Nat
      BY <3>4
    <3> HIDE DEF short, long, s
    <3>7. Len(short) <= Len(s) /\ \A i \in 1 .. Len(short) : s[i] = short[i]
      BY <3>5, <3>6
    <3> QED
      BY <3>7 DEF short
  <2>3. ASSUME NEW m \in Nat, m \in S PROVE m + 1 \in S
    <3>1. m + 1 <= n => Begun(n - (m + 1))
      BY <2>2, <2>3
    <3> HIDE DEF Begun
    <3> QED
      BY <3>1
  <2> HIDE DEF S
  <2>4. \A m \in Nat : m \in S
    BY <2>1, <2>3, InductionOn
  <2>5. ASSUME NEW k \in 0 .. n PROVE Begun(k)
    <3>1. n - k \in Nat /\ n - k <= n /\ n - (n - k) = k
      BY <1>1
    <3>2. n - k \in S
      BY <2>4, <3>1
    <3> HIDE DEF Begun
    <3> QED
      BY <3>1, <3>2 DEF S
  <2> QED
    BY <2>5
<1>5. s \in Seq(A) /\ Len(s) = O[n] + Len(args[n])
  <2>1. n \in 1 .. n /\ n \in 0 .. n
    BY <1>1
  <2> QED
    BY <1>2, <1>3, <2>1
<1> HIDE DEF s
<1>6. O \in [1 .. n -> Nat] /\ O[1] = 2
  <2>1. \A k \in 1 .. n : k - 1 \in 0 .. n /\ Len(text[k - 1]) + 2 \in Nat
    BY <1>1, <1>2
  <2>2. text[0] = <<>> /\ 1 \in 1 .. n
    BY <1>1 DEF IsText
  <2> QED
    BY <2>1, <2>2
<1>7. ASSUME NEW k \in 1 .. n - 1 PROVE O[k + 1] = O[k] + Len(args[k]) + 2
  <2>1. k \in 1 .. n /\ k + 1 \in 1 .. n /\ (k + 1) - 1 = k /\ k - 1 \in 0 .. n
    BY <1>1
  <2>2. O[k + 1] = Len(text[k]) + 2 /\ O[k] = Len(text[k - 1]) + 2
    BY <2>1
  <2>3. Len(text[k]) = Len(text[k - 1]) + 2 + Len(args[k])
    BY <1>3, <2>1
  <2> HIDE DEF O
  <2>4. Len(text[k - 1]) \in Nat /\ Len(args[k]) \in Nat
    BY <1>1, <1>2, <2>1
  <2> QED
    BY <2>2, <2>3, <2>4
<1>8. ASSUME NEW k \in 1 .. n
      PROVE  /\ s[O[k] - 1] = "|" /\ s[O[k]] = "|"
             /\ \A i \in 1 .. Len(args[k]) : s[O[k] + i] = args[k][i]
  <2> DEFINE l == Len(text[k - 1])
             word == text[k]
             arg == args[k]
  <2>1. k \in 0 .. n /\ l \in Nat /\ Len(args[k]) \in Nat /\ O[k] = l + 2
    <3>1. k \in 0 .. n /\ k - 1 \in 0 .. n
      BY <1>1
    <3> QED
      BY <1>1, <1>2, <3>1
  <2> HIDE DEF O
  <2>2. /\ Len(word) = l + 2 + Len(arg) /\ word[l + 1] = "|" /\ word[l + 2] = "|"
        /\ \A i \in 1 .. Len(arg) : word[l + 2 + i] = arg[i]
    BY <1>3
  <2>3. \A i \in 1 .. Len(word) : s[i] = word[i]
    BY <1>4, <2>1
  <2>4. l \in Nat /\ Len(arg) \in Nat /\ O[k] = l + 2
    BY <2>1
  <2> HIDE DEF l, word, arg
  <2>5. /\ s[l + 1] = "|" /\ s[l + 2] = "|" /\ \A i \in 1 .. Len(arg) : s[l + 2 + i] = arg[i]
    BY <2>2, <2>3, <2>4
  <2>6. O[k] - 1 = l + 1
    BY <2>4
  <2> QED
    BY <2>4, <2>5, <2>6 DEF arg
<1> HIDE DEF O
<1>9. Laid(A, s, args, O)
  BY <1>1, <1>5, <1>6, <1>7, <1>8 DEF Laid, n
<1> QED
  BY <1>9 DEF s, n

(* A string has as many pipes in a row as before, and one more, or none.   *)
LEMMA RowDef ==
  ASSUME NEW A, NEW s \in Seq(A)
  PROVE  /\ PipesInRow(s)[0] = 0
         /\ \A i \in 1 .. Len(s) :
              /\ PipesInRow(s)[i] = IF s[i] # "|" THEN 0 ELSE PipesInRow(s)[i - 1] + 1
              /\ PipesInRow(s)[i] \in Nat
<1> DEFINE n == Len(s)
           Value(row, i) == IF i = 0 \/ s[i] # "|" THEN 0 ELSE row[i - 1] + 1
           step == [i \in 1 .. n |-> [v \in Nat |-> IF s[i] # "|" THEN 0 ELSE v + 1]]
           row == CHOOSE row : row = [i \in 0 .. n |-> Value(row, i)]
<1>1. n \in Nat
  OBVIOUS
<1>2. PipesInRow(s) = row
  BY Zenon DEF PipesInRow
<1> HIDE DEF n
<1>3. step \in [1 .. n -> [Nat -> Nat]]
  OBVIOUS
<1>4. PICK f : IsDefinedBy(f, n, Nat, 0, step)
  <2> HIDE DEF step
  <2>1. 0 \in Nat
    OBVIOUS
  <2> QED
    BY <1>1, <1>3, <2>1, Recursion
<1>5. ASSUME NEW i \in 1 .. n PROVE f[i] = IF s[i] # "|" THEN 0 ELSE f[i - 1] + 1
  <2>1. i - 1 \in 0 .. n
    BY <1>1
  <2>2. f[i - 1] \in Nat
    BY <1>4, <2>1 DEF IsDefinedBy
  <2>3. step[i] = [v \in Nat |-> IF s[i] # "|" THEN 0 ELSE v + 1]
    OBVIOUS
  <2> HIDE DEF step
  <2>4. f[i] = step[i][f[i - 1]]
    BY <1>4 DEF IsDefinedBy
  <2> QED
    BY <2>2, <2>3, <2>4
<1>6. f = [i \in 0 .. n |-> Value(f, i)]
  <2>1. \A i \in 0 .. n : f[i] = Value(f, i)
    <3> HIDE DEF step
    <3> QED
      BY <1>1, <1>4, <1>5 DEF IsDefinedBy
  <2>2. f = [i \in 0 .. n |-> f[i]]
    <3> HIDE DEF step, Value
    <3> QED
      BY <1>4 DEF IsDefinedBy
  <2> HIDE DEF Value
  <2> QED
    BY <2>1, <2>2
<1>7. row = [i \in 0 .. n |-> Value(row, i)]
  <2> HIDE DEF Value
  <2> QED
    BY <1>6
<1> HIDE DEF row
<1>8. row[0] = 0 /\ \A i \in 1 .. n : row[i] = IF s[i] # "|" THEN 0 ELSE row[i - 1] + 1
  BY <1>1, <1>7
<1>9. \A i \in 0 .. n : row[i] \in Nat
  <2> DEFINE S == {i \in Nat : i <= n => row[i] \in Nat}
  <2>1. 0 \in S
    BY <1>8
  <2>2. ASSUME NEW i \in Nat, i \in S PROVE i + 1 \in S
    <3>1. i + 1 <= n => i + 1 \in 1 .. n /\ (i + 1) - 1 = i /\ row[i] \in Nat
      BY <1>1, <2>2
    <3>2. i + 1 <= n => row[i + 1] \in Nat
      BY <1>8, <3>1
    <3> QED
      BY <3>2
  <2> HIDE DEF S
  <2>3. \A i \in Nat : i \in S
    BY <2>1, <2>2, InductionOn
  <2> QED
    BY <1>1, <2>3 DEF S
<1> QED
  BY <1>1, <1>2, <1>8, <1>9 DEF n

(* A clean argument has a first symbol, and no pipe.                       *)
LEMMA CleanArgument ==
  ASSUME NEW A, NEW argument \in Seq(A), IsClean(argument)
  PROVE  Len(argument) \in Nat \ {0} /\ \A i \in 1 .. Len(argument) : argument[i] # "|"
BY EmptySeq DEF IsClean, ToSet

(* The separators are in order, and the arguments between them.            *)
LEMMA LaidInOrder ==
  ASSUME NEW A, NEW s, NEW args, NEW O, Laid(A, s, args, O)
  PROVE  /\ Len(s) \in Nat /\ Len(args) \in Nat \ {0}
         /\ \A k \in 1 .. Len(args) :
              /\ O[k] \in Nat /\ O[k] >= 2 /\ Len(args[k]) \in Nat
              /\ O[k] + Len(args[k]) <= Len(s)
              /\ \A j \in 1 .. k - 1 : O[j] + Len(args[j]) + 2 <= O[k]
<1> DEFINE n == Len(args)
<1>1. /\ n \in Nat \ {0} /\ Len(s) \in Nat
      /\ \A k \in 1 .. n : O[k] \in Nat /\ Len(args[k]) \in Nat
  <2>1. /\ s \in Seq(A) /\ args \in Seq(Seq(A)) /\ args # <<>>
        /\ O \in [1 .. n -> Nat]
    BY DEF Laid
  <2>2. n \in Nat \ {0}
    BY <2>1, EmptySeq
  <2>3. \A k \in 1 .. n : args[k] \in Seq(A)
    BY <2>1
  <2> HIDE DEF n
  <2> QED
    BY <2>1, <2>2, <2>3
<1>2. /\ \A k \in 1 .. n - 1 : O[k + 1] = O[k] + Len(args[k]) + 2
      /\ O[1] = 2 /\ Len(s) = O[n] + Len(args[n])
  BY DEF Laid
<1> HIDE DEF n
<1> DEFINE Behind(k) == O[k] >= 2 /\ \A j \in 1 .. k - 1 : O[j] + Len(args[j]) + 2 <= O[k]
           S == {m \in Nat : m + 1 <= n => Behind(m + 1)}
<1>3. 0 \in S
  BY <1>2
<1>4. ASSUME NEW k \in 1 .. n - 1, Behind(k) PROVE Behind(k + 1)
  <2>1. /\ O[k + 1] = O[k] + Len(args[k]) + 2 /\ O[k] \in Nat /\ Len(args[k]) \in Nat
        /\ O[k] >= 2
    BY <1>1, <1>2, <1>4
  <2>2. ASSUME NEW j \in 1 .. (k + 1) - 1 PROVE O[j] + Len(args[j]) + 2 <= O[k + 1]
    <3>1. CASE j = k
      BY <2>1, <3>1
    <3>2. CASE j # k
      <4>1. j \in 1 .. k - 1 /\ j \in 1 .. n
        BY <1>1, <3>2
      <4>2. O[j] + Len(args[j]) + 2 <= O[k] /\ O[j] \in Nat /\ Len(args[j]) \in Nat
        BY <1>1, <1>4, <4>1
      <4> QED
        BY SMTT(40), <2>1, <4>2
    <3> QED
      BY <3>1, <3>2
  <2> QED
    BY <2>1, <2>2
<1>5. ASSUME NEW m \in Nat, m \in S PROVE m + 1 \in S
  <2> HIDE DEF Behind
  <2>1. m + 2 <= n => m + 1 \in 1 .. n - 1 /\ Behind(m + 1)
    BY <1>1, <1>5
  <2>2. m + 2 <= n => Behind((m + 1) + 1)
    BY <1>4, <2>1
  <2> QED
    BY <2>2
<1> HIDE DEF S
<1>6. \A m \in Nat : m \in S
  BY <1>3, <1>5, InductionOn
<1>7. ASSUME NEW k \in 1 .. n PROVE Behind(k)
  <2>1. k - 1 \in Nat /\ (k - 1) + 1 = k /\ k <= n /\ k - 1 \in S
    BY <1>1, <1>6
  <2> HIDE DEF Behind
  <2> QED
    BY <2>1 DEF S
<1>8. ASSUME NEW k \in 1 .. n PROVE O[k] + Len(args[k]) <= Len(s)
  <2>1. CASE k = n
    BY <1>1, <1>2, <2>1
  <2>2. CASE k # n
    <3>1. k \in 1 .. n - 1 /\ n \in 1 .. n
      BY <1>1, <2>2
    <3>2. O[k] + Len(args[k]) + 2 <= O[n]
      BY <1>7, <3>1
    <3>3. /\ O[n] \in Nat /\ Len(args[n]) \in Nat /\ O[k] \in Nat /\ Len(args[k]) \in Nat
          /\ Len(s) = O[n] + Len(args[n])
      BY <1>1, <1>2, <3>1
    <3> QED
      BY <3>2, <3>3
  <2> QED
    BY <2>1, <2>2
<1> QED
  BY <1>1, <1>7, <1>8 DEF n

(* What is known of one argument.                                          *)
LEMMA LaidAt ==
  ASSUME NEW A, NEW s, NEW args, NEW O, Laid(A, s, args, O), NEW k \in 1 .. Len(args)
  PROVE  /\ s \in Seq(A) /\ Len(s) \in Nat /\ Len(args) \in Nat \ {0} /\ k \in Nat \ {0}
         /\ args[k] \in Seq(A) /\ Len(args[k]) \in Nat
         /\ O[k] \in Nat /\ O[k] >= 2 /\ O[k] + Len(args[k]) <= Len(s)
         /\ s[O[k] - 1] = "|" /\ s[O[k]] = "|"
         /\ \A i \in 1 .. Len(args[k]) : s[O[k] + i] = args[k][i]
         /\ k < Len(args) => k + 1 \in 1 .. Len(args) /\ O[k + 1] = O[k] + Len(args[k]) + 2
         /\ k = Len(args) => Len(s) = O[k] + Len(args[k])
<1>1. /\ s \in Seq(A) /\ args \in Seq(Seq(A))
      /\ \A j \in 1 .. Len(args) - 1 : O[j + 1] = O[j] + Len(args[j]) + 2
      /\ Len(s) = O[Len(args)] + Len(args[Len(args)])
      /\ s[O[k] - 1] = "|" /\ s[O[k]] = "|"
      /\ \A i \in 1 .. Len(args[k]) : s[O[k] + i] = args[k][i]
  BY DEF Laid
<1>2. /\ Len(s) \in Nat /\ Len(args) \in Nat \ {0} /\ Len(args[k]) \in Nat
      /\ O[k] \in Nat /\ O[k] >= 2 /\ O[k] + Len(args[k]) <= Len(s)
  BY LaidInOrder
<1>3. k < Len(args) => k \in 1 .. Len(args) - 1 /\ k + 1 \in 1 .. Len(args)
  BY <1>2
<1>4. args[k] \in Seq(A) /\ k \in Nat \ {0}
  BY <1>1, <1>2
<1> QED
  BY <1>1, <1>2, <1>3, <1>4

(* Up to argument k, two pipes in a row end at the separators only, and no *)
(* row is longer.                                                          *)
RowsUpTo(s, O, k) ==
  /\ PipesInRow(s)[O[k]] = 2
  /\ \A i \in 1 .. O[k] :
       /\ PipesInRow(s)[i] \in 0 .. 2
       /\ PipesInRow(s)[i] = 2 <=> \E j \in 1 .. k : i = O[j]

(* The first separator starts the text.                                    *)
LEMMA FirstRow ==
  ASSUME NEW A, NEW s, NEW args, NEW O, Laid(A, s, args, O)
  PROVE  RowsUpTo(s, O, 1)
<1> DEFINE row == PipesInRow(s)
<1>1. s \in Seq(A) /\ O[1] = 2 /\ 1 \in 1 .. Len(args) /\ Len(s) \in Nat /\ 2 <= Len(s)
  <2>1. s \in Seq(A) /\ O[1] = 2 /\ Len(args) \in Nat \ {0}
    BY LaidInOrder DEF Laid
  <2>2. 1 \in 1 .. Len(args)
    BY <2>1
  <2>3. O[1] + Len(args[1]) <= Len(s) /\ Len(args[1]) \in Nat /\ Len(s) \in Nat
    BY <2>2, LaidInOrder
  <2> QED
    BY <2>1, <2>2, <2>3
<1>2. s[1] = "|" /\ s[2] = "|"
  <2>1. s[O[1] - 1] = "|" /\ s[O[1]] = "|"
    BY <1>1 DEF Laid
  <2>2. O[1] - 1 = 1
    BY <1>1
  <2> QED
    BY <1>1, <2>1, <2>2
<1>3. row[0] = 0 /\ \A i \in 1 .. Len(s) : row[i] = IF s[i] # "|" THEN 0 ELSE row[i - 1] + 1
  BY <1>1, RowDef
<1> HIDE DEF row
<1>4. row[1] = 1 /\ row[2] = 2
  BY <1>1, <1>2, <1>3
<1> QED
  BY <1>1, <1>4 DEF RowsUpTo, row

(* Behind a clean argument comes the next separator.                       *)
LEMMA RowsStep ==
  ASSUME NEW A, NEW s, NEW args, NEW O, Laid(A, s, args, O),
         NEW k \in 1 .. Len(args) - 1, RowsUpTo(s, O, k), IsClean(args[k])
  PROVE  RowsUpTo(s, O, k + 1)
<1> DEFINE row == PipesInRow(s)
           o == O[k]
           l == Len(args[k])
<1>1. Len(args) \in Nat /\ k \in 1 .. Len(args) /\ k + 1 \in 1 .. Len(args) /\ k < Len(args)
  <2>1. Len(args) \in Nat
    BY LaidInOrder
  <2> QED
    BY <2>1
<1>2. /\ s \in Seq(A) /\ args[k] \in Seq(A)
      /\ o \in Nat /\ o >= 2 /\ l \in Nat /\ O[k + 1] = o + l + 2
  BY <1>1, LaidAt
<1>3. Len(s) \in Nat /\ o + l + 2 <= Len(s)
  <2>1. O[k + 1] + Len(args[k + 1]) <= Len(s) /\ Len(args[k + 1]) \in Nat /\ Len(s) \in Nat
    BY <1>1, LaidAt
  <2> QED
    BY <1>2, <2>1
<1>4. l # 0 /\ \A i \in 1 .. l : s[o + i] # "|"
  <2>1. l # 0 /\ \A i \in 1 .. l : args[k][i] # "|"
    BY <1>2, CleanArgument
  <2>2. \A i \in 1 .. l : s[o + i] = args[k][i]
    BY <1>1, LaidAt
  <2> HIDE DEF l
  <2> QED
    BY <2>1, <2>2
<1>5. s[o + l + 1] = "|" /\ s[o + l + 2] = "|"
  <2>1. s[O[k + 1] - 1] = "|" /\ s[O[k + 1]] = "|"
    BY <1>1, LaidAt
  <2>2. O[k + 1] - 1 = o + l + 1
    BY <1>2
  <2> HIDE DEF o, l
  <2> QED
    BY <1>2, <2>1, <2>2
<1>6. \A i \in 1 .. Len(s) : row[i] = IF s[i] # "|" THEN 0 ELSE row[i - 1] + 1
  BY <1>2, RowDef
<1>7. \A i \in 1 .. o : row[i] \in 0 .. 2 /\ (row[i] = 2 <=> \E j \in 1 .. k : i = O[j])
  BY DEF RowsUpTo
<1>8. \A j \in 1 .. k : O[j] \in Nat /\ O[j] <= o
  <2> TAKE j \in 1 .. k
  <2>1. CASE j = k
    BY <1>2, <2>1
  <2>2. CASE j # k
    <3>1. j \in 1 .. k - 1 /\ j \in 1 .. Len(args)
      BY <1>1, <2>2
    <3>2. O[j] + Len(args[j]) + 2 <= O[k] /\ O[j] \in Nat /\ Len(args[j]) \in Nat
      BY <1>1, <3>1, LaidInOrder
    <3> QED
      BY <1>2, <3>2
  <2> QED
    BY <2>1, <2>2
<1> HIDE DEF row, o, l
<1>9. \A i \in o + 1 .. o + l : row[i] = 0
  <2> TAKE i \in o + 1 .. o + l
  <2>1. i \in 1 .. Len(s) /\ i - o \in 1 .. l /\ o + (i - o) = i
    BY <1>2, <1>3
  <2>2. s[i] # "|"
    BY <1>4, <2>1
  <2> QED
    BY <1>6, <2>1, <2>2
<1>10. row[o + l + 1] = 1
  <2>1. /\ o + l + 1 \in 1 .. Len(s) /\ (o + l + 1) - 1 = o + l /\ o + l \in o + 1 .. o + l
    BY <1>2, <1>3, <1>4
  <2>2. row[o + l + 1] = row[o + l] + 1
    BY <1>5, <1>6, <2>1
  <2> QED
    BY <1>9, <2>1, <2>2
<1>11. row[o + l + 2] = 2
  <2>1. o + l + 2 \in 1 .. Len(s) /\ (o + l + 2) - 1 = o + l + 1
    BY <1>2, <1>3
  <2>2. row[o + l + 2] = row[o + l + 1] + 1
    BY <1>5, <1>6, <2>1
  <2> QED
    BY <1>10, <2>2
<1>12. ASSUME NEW i \in 1 .. o + l + 2
       PROVE row[i] \in 0 .. 2 /\ (row[i] = 2 <=> \E j \in 1 .. k + 1 : i = O[j])
  <2>1. CASE i \in 1 .. o
    <3>1. i # O[k + 1]
      BY <1>2, <2>1
    <3>2. (\E j \in 1 .. k + 1 : i = O[j]) <=> (\E j \in 1 .. k : i = O[j])
      BY <1>1, <3>1
    <3> QED
      BY <1>7, <2>1, <3>2
  <2>2. CASE i \in o + 1 .. o + l + 1
    <3>1. row[i] \in 0 .. 1
      <4>1. i \in o + 1 .. o + l \/ i = o + l + 1
        BY <1>2, <2>2
      <4> QED
        BY <1>9, <1>10, <4>1
    <3>2. \A j \in 1 .. k + 1 : i # O[j]
      BY <1>1, <1>2, <1>8, <2>2
    <3> QED
      BY <3>1, <3>2
  <2>3. CASE i = o + l + 2
    BY <1>1, <1>2, <1>11, <2>3
  <2> QED
    BY <1>2, <2>1, <2>2, <2>3
<1> QED
  BY <1>2, <1>11, <1>12 DEF RowsUpTo, row

CleanUpTo(args, k) == \A j \in 1 .. k : IsClean(args[j])

(* So up to an argument that has only clean ones before it.                *)
LEMMA Rows ==
  ASSUME NEW A, NEW s, NEW args, NEW O, Laid(A, s, args, O),
         NEW k \in 1 .. Len(args), CleanUpTo(args, k - 1)
  PROVE  RowsUpTo(s, O, k)
<1> DEFINE S == {m \in Nat : m + 1 <= k => RowsUpTo(s, O, m + 1)}
<1>1. 0 \in S
  BY FirstRow
<1>2. ASSUME NEW m \in Nat, m \in S PROVE m + 1 \in S
  <2>1. ASSUME m + 2 <= k PROVE RowsUpTo(s, O, (m + 1) + 1)
    <3>1. Len(args) \in Nat
      BY LaidInOrder
    <3>2. m + 1 \in 1 .. Len(args) - 1 /\ m + 1 \in 1 .. k - 1 /\ RowsUpTo(s, O, m + 1)
      BY <1>2, <2>1, <3>1
    <3>3. IsClean(args[m + 1])
      BY <3>2 DEF CleanUpTo
    <3> QED
      BY <3>2, <3>3, RowsStep
  <2> QED
    BY <2>1
<1> HIDE DEF S
<1>3. k - 1 \in Nat /\ k - 1 \in S /\ (k - 1) + 1 = k
  <2>1. k - 1 \in Nat /\ (k - 1) + 1 = k
    BY LaidInOrder
  <2> QED
    BY <1>1, <1>2, <2>1, InductionOn
<1> QED
  BY <1>3 DEF S

(* So an argument is found where it is, the ones before it being clean.    *)
LEMMA Positions ==
  ASSUME NEW A, NEW s, NEW args, NEW O, Laid(A, s, args, O),
         NEW k \in 1 .. Len(args), CleanUpTo(args, k - 1)
  PROVE  argc_to_pos(s, k - 1) = O[k]
<1> DEFINE row == PipesInRow(s)
           ends == SeparatorEnds(s)
           Below(i) == {j \in ends : j < i}
           T == {i \in ends : i <= O[k]}
           at == [j \in 1 .. k |-> O[j]]
           Found == {i \in ends : Cardinality(Below(i)) = k - 1}
<1>1. /\ Len(args) \in Nat /\ Len(s) \in Nat /\ k \in Nat \ {0}
      /\ O[k] \in 1 .. Len(s)
  <2>1. /\ Len(args) \in Nat /\ Len(s) \in Nat /\ O[k] \in Nat /\ O[k] >= 2
        /\ Len(args[k]) \in Nat /\ O[k] + Len(args[k]) <= Len(s)
    BY LaidInOrder
  <2> QED
    BY <2>1
<1>2. /\ \A j \in 1 .. k : O[j] \in Nat /\ O[j] >= 2 /\ Len(args[j]) \in Nat
      /\ \A m \in 1 .. k : \A j \in 1 .. m - 1 : O[j] + Len(args[j]) + 2 <= O[m]
  <2>1. \A j \in 1 .. k : j \in 1 .. Len(args)
    BY <1>1
  <2>2. \A j \in 1 .. Len(args) : /\ O[j] \in Nat /\ O[j] >= 2 /\ Len(args[j]) \in Nat
                                 /\ \A i \in 1 .. j - 1 : O[i] + Len(args[i]) + 2 <= O[j]
    BY LaidInOrder
  <2> QED
    BY <2>1, <2>2, Zenon
<1>3. \A j, m \in 1 .. k : j < m => O[j] < O[m]
  <2> TAKE j, m \in 1 .. k
  <2>1. j < m => j \in 1 .. m - 1
    BY <1>1
  <2> QED
    BY SMTT(40), <1>2, <2>1
<1>4. \A i \in 1 .. O[k] : row[i] \in 0 .. 2 /\ (row[i] = 2 <=> \E j \in 1 .. k : i = O[j])
  BY Rows DEF RowsUpTo
<1>5. ends = {i \in 1 .. Len(s) : row[i] > 0 /\ (row[i] % 2) = 0}
  BY DEF SeparatorEnds
<1> HIDE DEF row
<1>6. \A i \in 1 .. O[k] : i \in ends <=> \E j \in 1 .. k : i = O[j]
  <2> TAKE i \in 1 .. O[k]
  <2>1. i \in 1 .. Len(s)
    BY <1>1
  <2>2. row[i] > 0 /\ (row[i] % 2) = 0 <=> row[i] = 2
    BY <1>4
  <2>3. i \in ends <=> row[i] = 2
    BY <1>5, <2>1, <2>2
  <2> QED
    BY <1>4, <2>3
<1>7. ends \subseteq 1 .. Len(s)
  BY <1>5
<1> HIDE DEF ends
<1>8. \A j \in 1 .. k : O[j] \in 1 .. O[k] /\ O[j] \in T
  <2> TAKE j \in 1 .. k
  <2>1. O[j] <= O[k]
    BY <1>1, <1>2, <1>3
  <2> QED
    BY <1>1, <1>2, <1>6, <2>1
<1>9. \A i \in T : \E j \in 1 .. k : at[j] = i
  <2> TAKE i \in T
  <2>1. i \in 1 .. O[k] /\ i \in ends
    BY <1>1, <1>7
  <2> QED
    BY <1>6, <2>1
<1>10. at \in [1 .. k -> T] /\ Increasing(at) /\ at[k] = O[k]
  BY <1>1, <1>3, <1>8 DEF Increasing
<1>11. T \in SUBSET Int
  <2>1. \A i \in ends : i \in Int
    BY <1>1, <1>7
  <2> QED
    BY <2>1
<1>12. ASSUME NEW i \in T PROVE Below(i) = {j \in T : j < i}
  <2>1. i \in Int /\ i <= O[k] /\ \A j \in ends : j \in Int
    BY <1>1, <1>7
  <2>2. \A j \in ends : j < i => j <= O[k]
    BY <1>1, <2>1
  <2> QED
    BY <2>2
<1>13. /\ Cardinality(Below(O[k])) = k - 1 /\ Cardinality(T) = k /\ O[k] \in T
  <2> HIDE DEF T, at, Below
  <2>1. k \in 1 .. k /\ k \in Nat
    BY <1>1
  <2>2. Cardinality({j \in T : j < at[k]}) = k - 1 /\ Cardinality(T) = k
    BY <1>9, <1>10, <1>11, <2>1, RankOf
  <2> QED
    BY <1>8, <1>10, <1>12, <2>1, <2>2
<1>14. ASSUME NEW i \in T, Cardinality(Below(i)) = k - 1 PROVE i = O[k]
  <2> HIDE DEF T, at, Below
  <2>1. k \in 1 .. k /\ k \in Nat
    BY <1>1
  <2>2. Cardinality({j \in T : j < i}) = k - 1
    BY <1>12, <1>14
  <2>3. i = at[k]
    BY <1>9, <1>10, <1>11, <2>1, <2>2, RankIsUnique
  <2> QED
    BY <1>10, <2>3
<1> HIDE DEF T, at, Below
<1>15. ASSUME NEW i \in ends, i > O[k] PROVE Cardinality(Below(i)) # k - 1
  <2>1. T \subseteq Below(i)
    <3>1. \A j \in ends : j <= O[k] => j < i
      BY <1>1, <1>7, <1>15
    <3> QED
      BY <3>1 DEF T, Below
  <2>2. IsFiniteSet(Below(i))
    <3>1. IsFiniteSet(1 .. Len(s))
      BY <1>1, FS_Interval
    <3>2. Below(i) \subseteq 1 .. Len(s)
      BY <1>7 DEF Below
    <3> QED
      BY <3>1, <3>2, FS_Subset
  <2>3. Cardinality(T) <= Cardinality(Below(i)) /\ Cardinality(Below(i)) \in Nat
    BY <2>1, <2>2, FS_Subset, FS_CardinalityType
  <2>4. Cardinality(T) = k
    BY <1>13
  <2> QED
    BY <1>1, <2>3, <2>4
<1>16. Found = {O[k]}
  <2>1. O[k] \in ends
    BY <1>13 DEF T
  <2>2. ASSUME NEW i \in ends, Cardinality(Below(i)) = k - 1 PROVE i = O[k]
    <3>1. ~ (i > O[k])
      BY <1>15, <2>2
    <3>2. i \in T
      BY <1>1, <1>7, <3>1 DEF T
    <3> QED
      BY <1>14, <2>2, <3>2
  <2> QED
    BY <1>13, <2>1, <2>2
<1>17. argc_to_pos(s, k - 1) = FirstOf(Found, s)
  BY DEF argc_to_pos, ends, Below
<1> HIDE DEF Found
<1>18. \A p \in Nat : FirstOf({p}, s) = p
  BY DEF FirstOf
<1>19. O[k] \in Nat
  BY <1>1
<1> QED
  BY <1>16, <1>17, <1>18, <1>19

Piped(argument) == argument \o Pipes

(* A clean argument is read as it is, but the last two pipes of a text are *)
(* taken for a part of it.                                                 *)
LEMMA ReadClean ==
  ASSUME NEW A, NEW s, NEW args, NEW O, Laid(A, s, args, O),
         NEW k \in 1 .. Len(args), CleanUpTo(args, k)
  PROVE  apim_read_param(s, k - 1) =
           IF k < Len(args) /\ O[k + 1] = Len(s) THEN Piped(args[k]) ELSE args[k]
<1> DEFINE n == Len(args)
           arg == args[k]
           o == O[k]
           l == Len(arg)
           pairs == {i \in o + 2 .. Len(s) : s[i - 1] = "|" /\ s[i] = "|"}
           end == FirstOf(pairs, s)
           account == IF end >= Len(s) THEN 0 ELSE 2
<1>1. n \in Nat \ {0} /\ k \in 1 .. n /\ s \in Seq(A) /\ arg \in Seq(A) /\ IsClean(arg)
  <2>1. k \in 1 .. k
    BY LaidAt
  <2> QED
    BY <2>1, LaidAt DEF CleanUpTo
<1>2. /\ o \in Nat /\ l \in Nat \ {0} /\ Len(s) \in Nat /\ o + l <= Len(s)
      /\ \A i \in 1 .. l : arg[i] # "|" /\ s[o + i] = arg[i]
  <2>1. l \in Nat \ {0} /\ \A i \in 1 .. l : arg[i] # "|"
    BY <1>1, CleanArgument
  <2> QED
    BY <2>1, LaidAt
<1>3. apim_read_param(s, k - 1) = SubSeq(s, o + 1, end - account)
  <2>1. CleanUpTo(args, k - 1)
    BY <1>1 DEF CleanUpTo
  <2>2. argc_to_pos(s, k - 1) = o
    BY <2>1, Positions
  <2> QED
    BY <2>2 DEF apim_read_param
<1>4. k = n => Len(s) = o + l
  BY LaidAt
<1>5. k < n => /\ O[k + 1] = o + l + 2 /\ o + l + 2 <= Len(s)
               /\ s[o + l + 1] = "|" /\ s[o + l + 2] = "|"
  <2> HAVE k < n
  <2>1. k + 1 \in 1 .. n /\ k \in 1 .. n - 1
    BY <1>1
  <2>2. O[k + 1] = o + l + 2
    BY LaidAt
  <2>3. /\ O[k + 1] + Len(args[k + 1]) <= Len(s) /\ Len(args[k + 1]) \in Nat
        /\ s[O[k + 1] - 1] = "|" /\ s[O[k + 1]] = "|"
    BY <2>1, LaidAt
  <2>4. O[k + 1] - 1 = o + l + 1
    <3>1. o \in Nat /\ l \in Nat
      BY <1>2
    <3> HIDE DEF o, l
    <3> QED
      BY <2>2, <3>1
  <2>5. o + l + 2 <= Len(s)
    <3>1. O[k + 1] \in Nat /\ Len(s) \in Nat /\ O[k + 1] <= Len(s)
      <4>1. O[k + 1] \in Nat /\ Len(s) \in Nat
        BY <2>1, LaidAt
      <4> QED
        BY <2>3, <4>1
    <3> QED
      BY <2>2, <3>1
  <2> HIDE DEF o, l
  <2>6. s[o + l + 1] = "|" /\ s[o + l + 2] = "|"
    BY <2>2, <2>3, <2>4
  <2> QED
    BY <2>2, <2>5, <2>6
<1>6. ASSUME NEW i \in pairs PROVE i >= o + l + 2
  <2>1. i \in o + 2 .. Len(s) /\ s[i - 1] = "|"
    OBVIOUS
  <2> HIDE DEF o, l, arg, pairs
  <2>2. i < o + l + 2 => (i - 1) - o \in 1 .. l /\ o + ((i - 1) - o) = i - 1
    BY <1>2, <2>1
  <2>3. i < o + l + 2 => s[i - 1] # "|"
    BY <1>2, <2>2
  <2> QED
    BY <1>2, <2>1, <2>3
<1> HIDE DEF o, l, arg
<1>7. SubSeq(s, o + 1, o + l) = arg
  <2>1. /\ SubSeq(s, o + 1, o + l) \in Seq(A) /\ Len(SubSeq(s, o + 1, o + l)) = l
        /\ \A i \in 1 .. l : SubSeq(s, o + 1, o + l)[i] = s[o + i]
    BY <1>1, <1>2
  <2> QED
    BY <1>1, <1>2, <2>1, SeqEqual DEF l
<1>8. CASE k = n
  <2>1. Len(s) = o + l
    BY <1>4, <1>8
  <2>2. pairs = {}
    <3>1. \A i \in pairs : i <= Len(s) /\ i \in Int
      BY <1>2
    <3> QED
      BY <1>2, <1>6, <2>1, <3>1
  <2>3. end = Len(s)
    BY <2>2 DEF FirstOf
  <2> HIDE DEF end
  <2>4. end - account = o + l
    BY <1>2, <2>1, <2>3
  <2> HIDE DEF account
  <2>5. apim_read_param(s, k - 1) = arg
    BY <1>3, <1>7, <2>4
  <2>6. ~ (k < n)
    BY <1>1, <1>8
  <2> QED
    BY <2>5, <2>6 DEF arg
<1>9. CASE k < n
  <2>1. end = o + l + 2
    <3>1. o + l + 2 \in pairs
      <4>1. o + l + 2 \in o + 2 .. Len(s) /\ (o + l + 2) - 1 = o + l + 1
        BY <1>2, <1>5, <1>9
      <4> QED
        BY <1>5, <1>9, <4>1
    <3>2. \A i \in pairs : i \in Int
      BY <1>2
    <3> HIDE DEF pairs
    <3>3. end = CHOOSE i \in pairs : \A j \in pairs : i <= j
      BY <3>1 DEF FirstOf
    <3>4. \A i \in pairs : (\A j \in pairs : i <= j) => i = o + l + 2
      BY <1>2, <1>6, <3>1, <3>2
    <3> QED
      BY <1>6, <3>1, <3>3, <3>4
  <2> HIDE DEF end
  <2>2. CASE O[k + 1] = Len(s)
    <3>1. end - account = o + l + 2 /\ Len(s) = o + l + 2
      BY <1>2, <1>5, <1>9, <2>1, <2>2
    <3>2. SubSeq(s, o + 1, o + l + 2) = arg \o Pipes
      <4> DEFINE part == SubSeq(s, o + 1, o + l + 2)
                 whole == arg \o Pipes
      <4>1. /\ part \in Seq(A) /\ Len(part) = l + 2
            /\ \A i \in 1 .. l + 2 : part[i] = s[o + i]
        BY <1>1, <1>2, <3>1
      <4>2. "|" \in A
        BY <1>1, <1>2, <1>5, <1>9, <3>1
      <4>3. Pipes \in Seq(A) /\ Len(Pipes) = 2 /\ Pipes[1] = "|" /\ Pipes[2] = "|"
        BY <4>2 DEF Pipes
      <4>4. whole \in Seq(A) /\ IsConcat(arg, Pipes, whole)
        <5> SUFFICES arg \in Seq(A) /\ Pipes \in Seq(A)
          BY ConcatAt, Zenon
        <5> QED
          BY <1>1, <4>3
      <4> HIDE DEF part, whole
      <4>5. ASSUME NEW i \in 1 .. l + 2 PROVE part[i] = whole[i]
        <5>1. CASE i \in 1 .. l
          BY <1>2, <4>1, <4>4, <5>1 DEF IsConcat, l
        <5>2. CASE i = l + 1
          <6>1. part[i] = s[o + l + 1]
            BY <1>2, <4>1, <5>2
          <6>2. whole[i] = "|"
            BY <4>3, <4>4, <5>2 DEF IsConcat, l
          <6> QED
            BY <1>5, <1>9, <6>1, <6>2
        <5>3. CASE i = l + 2
          <6>1. part[i] = s[o + l + 2]
            BY <1>2, <4>1, <5>3
          <6>2. whole[i] = "|"
            BY <4>3, <4>4, <5>3 DEF IsConcat, l
          <6> QED
            BY <1>5, <1>9, <6>1, <6>2
        <5> QED
          BY <1>2, <5>1, <5>2, <5>3
      <4>6. Len(whole) = l + 2
        BY <4>3, <4>4 DEF IsConcat, l
      <4>7. part = whole
        BY <4>1, <4>4, <4>5, <4>6, SeqEqual
      <4> QED
        BY <4>7 DEF part, whole
    <3> HIDE DEF account
    <3> QED
      BY <1>3, <1>9, <2>2, <3>1, <3>2 DEF arg, n, Piped
  <2>3. CASE O[k + 1] # Len(s)
    <3>1. end - account = o + l
      BY <1>2, <1>5, <1>9, <2>1, <2>3
    <3> HIDE DEF account
    <3> QED
      BY <1>3, <1>7, <2>3, <3>1 DEF arg
  <2> QED
    BY <2>2, <2>3
<1> QED
  BY <1>1, <1>8, <1>9

(* apim_count_args finds every separator that argc_to_pos finds.           *)
LEMMA Counts ==
  ASSUME NEW A, NEW s, NEW args, NEW O, Laid(A, s, args, O),
         NEW k \in 1 .. Len(args), CleanUpTo(args, k - 1)
  PROVE  /\ apim_count_args(s) \in Nat /\ apim_count_args(s) >= k
         /\ CleanUpTo(args, k) /\ k = Len(args) => apim_count_args(s) = k
<1> DEFINE row == PipesInRow(s)
           U == {i \in 1 .. Len(s) : row[i] = 2}
           at == [j \in 1 .. k |-> O[j]]
           T == {O[j] : j \in 1 .. k}
<1>1. /\ Len(args) \in Nat /\ Len(s) \in Nat /\ k \in Nat \ {0} /\ s \in Seq(A)
      /\ O[k] \in 1 .. Len(s)
  <2>1. /\ Len(args) \in Nat /\ Len(s) \in Nat /\ O[k] \in Nat /\ O[k] >= 2 /\ k \in Nat \ {0}
        /\ Len(args[k]) \in Nat /\ O[k] + Len(args[k]) <= Len(s) /\ s \in Seq(A)
    BY LaidAt
  <2> QED
    BY <2>1
<1>2. /\ \A j \in 1 .. k : O[j] \in Nat /\ O[j] >= 2 /\ Len(args[j]) \in Nat
      /\ \A m \in 1 .. k : \A j \in 1 .. m - 1 : O[j] + Len(args[j]) + 2 <= O[m]
  <2>1. \A j \in 1 .. k : j \in 1 .. Len(args)
    BY <1>1
  <2>2. \A j \in 1 .. Len(args) : /\ O[j] \in Nat /\ O[j] >= 2 /\ Len(args[j]) \in Nat
                                 /\ \A i \in 1 .. j - 1 : O[i] + Len(args[i]) + 2 <= O[j]
    BY LaidInOrder
  <2> QED
    BY <2>1, <2>2, Zenon
<1>3. \A j, m \in 1 .. k : j < m => O[j] < O[m]
  <2> TAKE j, m \in 1 .. k
  <2>1. j < m => j \in 1 .. m - 1
    BY <1>1
  <2> QED
    BY SMTT(40), <1>2, <2>1
<1>4. \A j \in 1 .. k : O[j] \in 1 .. O[k]
  <2> TAKE j \in 1 .. k
  <2>1. O[j] <= O[k]
    BY <1>1, <1>2, <1>3
  <2> QED
    BY <1>1, <1>2, <2>1
<1>5. \A i \in 1 .. O[k] : row[i] = 2 <=> \E j \in 1 .. k : i = O[j]
  BY Rows DEF RowsUpTo
<1>6. apim_count_args(s) = Cardinality(U)
  BY DEF apim_count_args
<1>7. \A i \in 1 .. Len(s) : row[i] = IF s[i] # "|" THEN 0 ELSE row[i - 1] + 1
  BY <1>1, RowDef
<1> HIDE DEF row
<1>8. T \subseteq U
  <2>1. \A j \in 1 .. k : O[j] \in 1 .. Len(s) /\ row[O[j]] = 2
    <3> TAKE j \in 1 .. k
    <3>1. O[j] \in 1 .. O[k] /\ O[j] \in 1 .. Len(s)
      BY <1>1, <1>4
    <3> QED
      BY <1>5, <3>1
  <2> QED
    BY <2>1
<1>9. IsFiniteSet(U) /\ Cardinality(U) \in Nat
  <2>1. IsFiniteSet(1 .. Len(s)) /\ U \subseteq 1 .. Len(s)
    BY <1>1, FS_Interval
  <2> HIDE DEF U
  <2> QED
    BY <2>1, FS_Subset, FS_CardinalityType
<1>10. Cardinality(T) = k
  <2>1. at \in [1 .. k -> T] /\ Increasing(at) /\ \A i \in T : \E j \in 1 .. k : at[j] = i
    BY <1>3 DEF Increasing
  <2>2. T \in SUBSET Int /\ k \in Nat /\ k \in 1 .. k
    BY <1>1, <1>2
  <2> HIDE DEF T, at
  <2> QED
    BY <2>1, <2>2, RankOf
<1>11. ASSUME CleanUpTo(args, k), k = Len(args) PROVE U = T
  <2> DEFINE o == O[k]
             l == Len(args[k])
  <2>1. /\ o \in Nat /\ l \in Nat /\ Len(s) = o + l /\ args[k] \in Seq(A)
        /\ \A i \in 1 .. l : s[o + i] = args[k][i]
    BY <1>11, LaidAt
  <2>2. \A i \in 1 .. l : s[o + i] # "|"
    <3>1. IsClean(args[k])
      BY <1>1, <1>11 DEF CleanUpTo
    <3>2. \A i \in 1 .. l : args[k][i] # "|"
      BY <2>1, <3>1, CleanArgument
    <3> HIDE DEF o, l
    <3> QED
      BY <2>1, <3>2
  <2> HIDE DEF l
  <2>3. ASSUME NEW i \in 1 .. Len(s), row[i] = 2 PROVE i \in T
    <3>1. i \in 1 .. o
      <4>1. ASSUME i > o PROVE FALSE
        <5>1. i - o \in 1 .. l /\ o + (i - o) = i
          BY <2>1, <4>1
        <5>2. s[i] # "|"
          BY <2>2, <5>1
        <5> QED
          BY <1>7, <2>3, <5>2
      <4> QED
        BY <2>1, <4>1
    <3> QED
      BY <1>5, <2>3, <3>1
  <2> QED
    BY <1>8, <2>3
<1> HIDE DEF T, U
<1>12. Cardinality(U) >= k
  BY <1>8, <1>9, <1>10, FS_Subset
<1> QED
  BY <1>6, <1>9, <1>10, <1>11, <1>12

(* What the handler is given, when the first arguments are clean.          *)
LEMMA ParsedClean ==
  ASSUME NEW A, NEW s, NEW args, NEW O, Laid(A, s, args, O),
         NEW k \in 1 .. Len(args), CleanUpTo(args, k),
         k < Len(args) => args[k + 1] # <<>>
  PROVE  /\ Len(apim_parse_args(s)) \in Nat /\ Len(apim_parse_args(s)) >= k
         /\ DOMAIN apim_parse_args(s) = 1 .. Len(apim_parse_args(s))
         /\ \A j \in 1 .. k : apim_parse_args(s)[j] = args[j]
         /\ k = Len(args) => apim_parse_args(s) = args
<1> DEFINE count == apim_count_args(s)
           parsed == apim_parse_args(s)
<1>1. /\ Len(args) \in Nat /\ Len(s) \in Nat /\ k \in Nat \ {0}
      /\ args \in Seq(Seq(A))
  BY LaidAt DEF Laid
<1>2. count \in Nat /\ count >= k /\ (k = Len(args) => count = k)
  <2>1. CleanUpTo(args, k - 1)
    BY <1>1 DEF CleanUpTo
  <2> QED
    BY <2>1, Counts
<1>3. parsed = [j \in 1 .. count |-> apim_read_param(s, j - 1)]
  BY DEF apim_parse_args
<1> HIDE DEF count, parsed
<1>4. Len(parsed) = count /\ DOMAIN parsed = 1 .. count
  BY <1>2, <1>3
<1>5. ASSUME NEW j \in 1 .. k PROVE parsed[j] = args[j]
  <2>1. j \in 1 .. Len(args) /\ CleanUpTo(args, j)
    BY <1>1 DEF CleanUpTo
  <2>2. ASSUME j < Len(args) PROVE O[j + 1] # Len(s)
    <3>1. j + 1 \in 1 .. Len(args) /\ args[j + 1] \in Seq(A)
      BY <1>1, <2>2
    <3>2. args[j + 1] # <<>>
      <4>1. CASE j = k
        BY <2>2, <4>1
      <4>2. CASE j # k
        <5>1. j + 1 \in 1 .. k
          BY <1>1, <4>2
        <5> QED
          BY <5>1 DEF CleanUpTo, IsClean
      <4> QED
        BY <4>1, <4>2
    <3>3. Len(args[j + 1]) \in Nat \ {0}
      BY <3>1, <3>2, EmptySeq
    <3>4. /\ O[j + 1] \in Nat /\ O[j + 1] + Len(args[j + 1]) <= Len(s)
      BY <3>1, LaidAt
    <3> QED
      BY <1>1, <3>3, <3>4
  <2>3. apim_read_param(s, j - 1) = args[j]
    BY <2>1, <2>2, ReadClean
  <2>4. j \in 1 .. count
    BY <1>1, <1>2
  <2> QED
    BY <1>3, <2>3, <2>4
<1>6. ASSUME k = Len(args) PROVE parsed = args
  <2>1. parsed = [j \in 1 .. k |-> args[j]]
    <3>1. parsed = [j \in 1 .. k |-> parsed[j]]
      BY <1>2, <1>3, <1>6
    <3> QED
      BY <1>5, <3>1
  <2>2. args = [j \in 1 .. k |-> args[j]]
    BY <1>1, <1>6
  <2> QED
    BY <2>1, <2>2
<1> QED
  BY <1>2, <1>4, <1>5, <1>6 DEF parsed

(* When the first one is clean, only pipes can come behind it.             *)
LEMMA ParsedFirst ==
  ASSUME NEW A, NEW s, NEW args, NEW O, Laid(A, s, args, O), IsClean(args[1])
  PROVE  apim_parse_args(s) # <<>> /\ apim_parse_args(s)[1] \in {args[1], Piped(args[1])}
<1>1. Len(args) \in Nat /\ 1 \in 1 .. Len(args)
  <2>1. Len(args) \in Nat \ {0}
    BY LaidInOrder
  <2> QED
    BY <2>1
<1>2. CleanUpTo(args, 1) /\ CleanUpTo(args, 0) /\ 1 - 1 = 0
  BY DEF CleanUpTo
<1>3. apim_read_param(s, 0) \in {args[1], Piped(args[1])}
  <2>1. apim_read_param(s, 1 - 1) \in {args[1], Piped(args[1])}
    BY <1>1, <1>2, ReadClean
  <2> QED
    BY <1>2, <2>1
<1>4. apim_count_args(s) \in Nat /\ apim_count_args(s) >= 1
  BY <1>1, <1>2, Counts
<1>5. apim_parse_args(s) = [j \in 1 .. apim_count_args(s) |-> apim_read_param(s, j - 1)]
  BY DEF apim_parse_args
<1>6. 1 \in DOMAIN apim_parse_args(s) /\ apim_parse_args(s)[1] = apim_read_param(s, 0)
  BY <1>2, <1>4, <1>5
<1>7. apim_parse_args(s) # <<>>
  BY <1>6
<1> QED
  BY <1>3, <1>6, <1>7
-----------------------------------------------------------------------------
(***************************************************************************)
(* From the request to the handler: one record, captured as a whole, whose *)
(* arguments are read of the text that was sent.                           *)
(***************************************************************************)

(* What is sent is a text with its length in front.                        *)
LEMMA EncodedIsLaid ==
  ASSUME NEW A, IsAlphabet(A), NEW args \in Seq(Seq(A)), args # <<>>
  PROVE  \E s, O : Laid(A, s, args, O) /\ Encoded(args) = apim_finish(s)
<1>1. "|" \in A
  BY DEF IsAlphabet
<1>2. PICK text : IsText(A, args, text) /\ Encoded(args) = apim_finish(text[Len(args)])
  BY <1>1, EncodedDef
<1>3. PICK O : Laid(A, text[Len(args)], args, O)
  BY <1>1, <1>2, TextIsLaid
<1> QED
  BY <1>2, <1>3

(* The length in front makes a text longer.                                *)
LEMMA FinishedText ==
  ASSUME NEW A, IsAlphabet(A), NEW s \in Seq(A)
  PROVE  /\ apim_finish(s) \in Seq(A) /\ Len(apim_finish(s)) \in Nat
         /\ Len(s) <= Len(apim_finish(s))
<1>1. DecimalOf[Len(s)] \in Seq(A)
  <2>1. Len(s) \in Nat
    OBVIOUS
  <2>2. DecimalOf[Len(s)] \in Seq(DigitSymbols)
    BY <2>1, DecimalDef
  <2> QED
    BY <2>2, DigitsInAlphabet, SeqMonotonic
<1> DEFINE number == DecimalOf[Len(s)]
<1>2. number \in Seq(A) /\ apim_finish(s) = number \o s
  BY <1>1 DEF apim_finish
<1> HIDE DEF number
<1> QED
  BY <1>2, ConcatProperties

(* A text that fits into a record is written as one.                       *)
LEMMA OneRecord ==
  ASSUME NEW A, NEW text \in Seq(A), Len(text) \in 1 .. RecordSize
  PROVE  RecordsOf(text) = <<text>>
<1> DEFINE R == RecordSize
           L == Len(text)
           count == (L + R - 1) \div R
           record(k) == SubSeq(text, (k - 1) * R + 1, IF k = count THEN L ELSE k * R)
<1>1. R \in Nat \ {0} /\ L \in 1 .. R
  BY PathAssumption DEF PathAssumption
<1>2. RecordsOf(text) = [k \in 1 .. count |-> record(k)]
  BY DEF RecordsOf
<1>3. SubSeq(text, 1, L) = text
  BY SubSeqFull
<1> HIDE DEF R, L
<1>4. count = 1
  <2>1. L + R - 1 \in Nat /\ R <= L + R - 1 /\ L + R - 1 < R + R
    BY <1>1
  <2>2. count \in Nat /\ count * R <= L + R - 1 /\ L + R - 1 < count * R + R
    BY <1>1, <2>1, Division
  <2> HIDE DEF count
  <2>3. count # 0
    BY <1>1, <2>1, <2>2
  <2>4. ~ (2 <= count)
    <3>1. ASSUME 2 <= count PROVE FALSE
      <4>1. 2 * R <= count * R /\ 2 * R = R + R /\ count * R \in Int
        BY <1>1, <2>2, <3>1, Multiples
      <4> QED
        BY <1>1, <2>1, <2>2, <4>1
    <3> QED
      BY <3>1
  <2> QED
    BY <2>2, <2>3, <2>4
<1> HIDE DEF count
<1>5. record(1) = text
  <2>1. (1 - 1) * R + 1 = 1
    BY <1>1
  <2> QED
    BY <1>3, <1>4, <2>1
<1> HIDE DEF record
<1> QED
  BY <1>2, <1>4, <1>5

(* The name of a command is neither empty nor has a pipe in it.            *)
LEMMA KeywordIsClean ==
  ASSUME NEW A, IsAlphabet(A), PathInv(A), asked # <<>>
  PROVE  asked \in Seq(Seq(A)) /\ IsClean(asked[1])
<1>1. line \in Seq(A)
  BY SeqMonotonic DEF IsAlphabet, PathInv
<1>2. /\ asked \in Seq(Seq(A))
      /\ IsNamed(asked) \/ IsGlobal(line, asked) \/ IsDirect(line, asked)
  BY <1>1, WhatIsAsked DEF PathInv
<1>3. PICK name \in NamedCommands \cup {"GLOBAL", "DM"} : asked[1] = <<name>>
  BY <1>2 DEF IsNamed, IsGlobal, IsDirect
<1>4. name # "|"
  BY DEF NamedCommands
<1>5. ToSet(<<name>>) = {name} /\ <<name>> # <<>>
  BY DEF ToSet
<1> QED
  BY <1>2, <1>3, <1>4, <1>5 DEF IsClean

(* Every request that fits into a record is on its way as one, or has been *)
(* executed with what is read of its text.                                 *)
Delivered(A) ==
  asked # <<>> /\ FitsRecord =>
    \E s, O :
      /\ Laid(A, s, asked, O) /\ Encoded(asked) = apim_finish(s)
      /\ \/ wire = <<apim_finish(s)>> /\ got = <<>>
         \/ wire = <<>> /\ got = <<apim_parse_args(s)>>

(* No step violates this.                                                  *)
LEMMA DeliveredStep ==
  ASSUME NEW A, IsAlphabet(A), PathInv(A), Delivered(A), [Next]_vars
  PROVE  Delivered(A)'
<1>1. ASSUME NEW symbol \in Starts \cup Symbols, Type(symbol) PROVE Delivered(A)'
  <2>1. asked' = <<>>
    BY <1>1 DEF Type, PathInv
  <2> QED
    BY <2>1 DEF Delivered
<1>2. ASSUME Enter PROVE Delivered(A)'
  <2>1. PICK request \in RequestsOf(line) :
          /\ asked' = request
          /\ wire' = IF request = <<>> THEN <<>> ELSE RecordsOf(Encoded(request))
    BY <1>2 DEF Enter
  <2>2. SUFFICES ASSUME asked' # <<>>, FitsRecord'
                 PROVE  \E s, O :
                          /\ Laid(A, s, asked', O) /\ Encoded(asked') = apim_finish(s)
                          /\ wire' = <<apim_finish(s)>> /\ got' = <<>>
    BY DEF Delivered
  <2>3. got' = <<>>
    BY <1>2 DEF Enter, PathInv
  <2>4. request \in Seq(Seq(A)) /\ request # <<>>
    <3>1. line \in Seq(A)
      BY SeqMonotonic DEF IsAlphabet, PathInv
    <3> QED
      BY <2>1, <2>2, <3>1, WhatIsAsked
  <2>5. PICK s, O : Laid(A, s, request, O) /\ Encoded(request) = apim_finish(s)
    BY <2>4, EncodedIsLaid
  <2>6. Encoded(request) \in Seq(A) /\ Len(Encoded(request)) \in 1 .. RecordSize
    <3>1. Encoded(request) \in Seq(A) /\ Encoded(request) # <<>>
      BY <2>4, EncodedIsText
    <3>2. Len(Encoded(request)) \in Nat \ {0}
      BY <3>1, EmptySeq
    <3>3. Len(Encoded(request)) <= RecordSize /\ RecordSize \in Nat
      BY <2>1, <2>2, RecordSizes DEF FitsRecord
    <3> QED
      BY <3>1, <3>2, <3>3
  <2>7. wire' = <<Encoded(request)>>
    BY <2>1, <2>4, <2>6, OneRecord
  <2> QED
    BY <2>1, <2>3, <2>5, <2>7
<1>3. CASE Crash
  BY <1>3 DEF Crash, Delivered, FitsRecord
<1>4. ASSUME Capture PROVE Delivered(A)'
  <2>1. SUFFICES ASSUME asked # <<>>, FitsRecord
                 PROVE  \E s, O :
                          /\ Laid(A, s, asked, O) /\ Encoded(asked) = apim_finish(s)
                          /\ wire' = <<>> /\ got' = <<apim_parse_args(s)>>
    BY <1>4 DEF Capture, Delivered, FitsRecord
  <2>2. wire # <<>>
    BY <1>4 DEF Capture
  <2>3. PICK s, O : /\ Laid(A, s, asked, O) /\ Encoded(asked) = apim_finish(s)
                    /\ wire = <<apim_finish(s)>> /\ got = <<>>
    BY <2>1, <2>2 DEF Delivered
  <2>4. /\ \E message \in apim_capture_socket_msg(Head(wire)) :
             got' = Append(got, CommandOf(message))
        /\ wire' = Tail(wire)
    BY <1>4 DEF Capture
  <2>5. Head(wire) = apim_finish(s) /\ wire' = <<>>
    BY <2>3, <2>4
  <2>6. s \in Seq(A) /\ s # <<>> /\ s[1] = "|" /\ Len(s) \in Nat
    <3>1. Len(asked) \in Nat \ {0} /\ Len(s) \in Nat
      BY <2>3, LaidInOrder
    <3>2. 1 \in 1 .. Len(asked)
      BY <3>1
    <3>3. s \in Seq(A) /\ O[1] >= 2 /\ O[1] + Len(asked[1]) <= Len(s)
          /\ O[1] \in Nat /\ Len(asked[1]) \in Nat /\ s[O[1] - 1] = "|"
      BY <2>3, <3>2, LaidAt
    <3>4. O[1] = 2
      BY <2>3 DEF Laid
    <3>5. s[1] = "|" /\ Len(s) # 0
      BY <3>1, <3>3, <3>4
    <3> QED
      BY <3>1, <3>3, <3>5
  <2>7. Len(s) <= MaxLength
    <3>1. Len(apim_finish(s)) \in Nat /\ Len(s) <= Len(apim_finish(s))
      BY <2>6, FinishedText
    <3>2. Len(apim_finish(s)) <= RecordSize
      BY <2>1, <2>3 DEF FitsRecord
    <3> QED
      BY <2>6, <3>1, <3>2, RecordSizes
  <2>8. apim_capture_socket_msg(apim_finish(s)) = {s}
    BY <2>6, <2>7, CaptureOfFinished
  <2>9. got' = Append(got, CommandOf(s))
    BY <2>4, <2>5, <2>8
  <2>10. CommandOf(s) = apim_parse_args(s)
    BY <2>6 DEF CommandOf
  <2>11. got' = <<apim_parse_args(s)>>
    BY <2>3, <2>9, <2>10
  <2> QED
    BY <2>3, <2>5, <2>11
<1>5. ASSUME NextLine PROVE Delivered(A)'
  <2>1. asked' = <<>>
    BY <1>5 DEF NextLine
  <2> QED
    BY <2>1 DEF Delivered
<1>6. CASE UNCHANGED vars
  BY <1>6 DEF vars, Delivered, FitsRecord
<1> QED
  BY <1>1, <1>2, <1>3, <1>4, <1>5, <1>6 DEF Next

(* Nothing was asked at first.                                             *)
LEMMA DeliveredInit ==
  ASSUME NEW A, Init
  PROVE  Delivered(A)
BY DEF Init, Delivered

(* So what has arrived was read of the text that was sent.                 *)
LEMMA ArrivedAs ==
  ASSUME NEW A, IsAlphabet(A), PathInv(A), Delivered(A), Arrived, FitsRecord
  PROVE  \E s, O : Laid(A, s, asked, O) /\ got = <<apim_parse_args(s)>>
BY DEF Delivered, Arrived

(* What is free of pipes and nowhere empty arrives as it was sent,         *)
(* whatever it consists of, however long it is up to the size of a record. *)
THEOREM CleanRequests ==
  ASSUME NEW CONSTANT A, IsAlphabet(A)
  PROVE  Spec => []RoundTrip
<1>1. Init => PathInv(A) /\ Delivered(A)
  BY PathInit, DeliveredInit
<1>2. PathInv(A) /\ Delivered(A) /\ [Next]_vars => PathInv(A)' /\ Delivered(A)'
  BY PathStep, DeliveredStep
<1>3. PathInv(A) /\ Delivered(A) => RoundTrip
  <2> SUFFICES ASSUME PathInv(A), Delivered(A), Arrived, FitsRecord,
                      \A k \in DOMAIN asked : IsClean(asked[k])
               PROVE  got = <<asked>>
    BY DEF RoundTrip
  <2>1. PICK s, O : Laid(A, s, asked, O) /\ got = <<apim_parse_args(s)>>
    BY ArrivedAs
  <2>2. Len(asked) \in Nat \ {0} /\ DOMAIN asked = 1 .. Len(asked)
    <3>1. asked \in Seq(Seq(A))
      BY <2>1 DEF Laid
    <3> QED
      BY <2>1, <3>1, LaidInOrder
  <2>3. CleanUpTo(asked, Len(asked)) /\ Len(asked) \in 1 .. Len(asked)
        /\ ~ (Len(asked) < Len(asked))
    BY <2>2 DEF CleanUpTo
  <2>4. apim_parse_args(s) = asked
    BY <2>1, <2>3, ParsedClean
  <2> QED
    BY <2>1, <2>4
<1> QED
  BY <1>1, <1>2, <1>3, PTL DEF Spec

(* An argument that has pipes in it, or is empty, spoils no clean argument *)
(* before it, unless it is an empty one right behind it.                   *)
THEOREM CleanArguments ==
  ASSUME NEW CONSTANT A, IsAlphabet(A)
  PROVE  Spec => []CleanArgumentsArrive
<1>1. Init => PathInv(A) /\ Delivered(A)
  BY PathInit, DeliveredInit
<1>2. PathInv(A) /\ Delivered(A) /\ [Next]_vars => PathInv(A)' /\ Delivered(A)'
  BY PathStep, DeliveredStep
<1>3. PathInv(A) /\ Delivered(A) => CleanArgumentsArrive
  <2> SUFFICES ASSUME PathInv(A), Delivered(A), Arrived, FitsRecord, NEW k \in DOMAIN asked,
                      \A j \in 1 .. k : IsClean(asked[j]), k < Len(asked) => asked[k + 1] # <<>>
               PROVE  SubSeq(got[1], 1, k) = SubSeq(asked, 1, k)
    BY DEF CleanArgumentsArrive
  <2>1. PICK s, O : Laid(A, s, asked, O) /\ got = <<apim_parse_args(s)>>
    BY ArrivedAs
  <2>2. asked \in Seq(Seq(A)) /\ k \in 1 .. Len(asked)
    BY <2>1 DEF Laid
  <2>3. CleanUpTo(asked, k)
    BY DEF CleanUpTo
  <2> DEFINE parsed == apim_parse_args(s)
  <2>4. /\ Len(parsed) \in Nat /\ Len(parsed) >= k /\ \A j \in 1 .. k : parsed[j] = asked[j]
    BY <2>1, <2>2, <2>3, ParsedClean
  <2>5. got[1] = parsed
    BY <2>1
  <2> HIDE DEF parsed
  <2>6. /\ SubSeq(parsed, 1, k) = [j \in 1 .. k |-> parsed[j]]
        /\ SubSeq(asked, 1, k) = [j \in 1 .. k |-> asked[j]]
    BY <2>2 DEF SubSeq
  <2> QED
    BY <2>4, <2>5, <2>6
<1> QED
  BY <1>1, <1>2, <1>3, PTL DEF Spec

(* Nothing that is typed as a name or a text makes the server execute      *)
(* another command than the one that the client chose.                     *)
THEOREM ChosenCommand ==
  ASSUME NEW CONSTANT A, IsAlphabet(A)
  PROVE  Spec => []NoOtherCommand
<1>1. Init => PathInv(A) /\ Delivered(A)
  BY PathInit, DeliveredInit
<1>2. PathInv(A) /\ Delivered(A) /\ [Next]_vars => PathInv(A)' /\ Delivered(A)'
  BY PathStep, DeliveredStep
<1>3. PathInv(A) /\ Delivered(A) => NoOtherCommand
  <2> SUFFICES ASSUME PathInv(A), Delivered(A), Arrived, FitsRecord
               PROVE  /\ Len(got) = 1 /\ got[1] # <<>>
                      /\ got[1][1] \in {asked[1], asked[1] \o <<"|", "|">>}
    BY DEF NoOtherCommand
  <2>1. PICK s, O : Laid(A, s, asked, O) /\ got = <<apim_parse_args(s)>>
    BY ArrivedAs
  <2>2. IsClean(asked[1])
    BY KeywordIsClean DEF Arrived
  <2>3. /\ apim_parse_args(s) # <<>>
        /\ apim_parse_args(s)[1] \in {asked[1], Piped(asked[1])}
    BY <2>1, <2>2, ParsedFirst
  <2>4. Len(got) = 1 /\ got[1] = apim_parse_args(s)
    BY <2>1
  <2> QED
    BY <2>3, <2>4 DEF Piped, Pipes
<1> QED
  BY <1>1, <1>2, <1>3, PTL DEF Spec
=============================================================================
