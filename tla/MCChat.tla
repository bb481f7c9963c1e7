------------------------------- MODULE MCChat -------------------------------
(***************************************************************************)
(* Instances of the chat for TLC: what the users of each run may type.     *)
(***************************************************************************)
EXTENDS Chat, TLC

CONSTANTS ann, bob, nobody,
          first, second  \* clients

ErrorAtEof == {-1}

Atoi(word) == IF word = "1" THEN 1 ELSE 0

RegisterLine(name) == <<"/register", " ", name, " ", "pw">>
Text(text) == <<text>>
Dm(name, text) == <<"@", name, " ", text>>
History == <<"/history", " ", "1">>
PmHistory(name) == <<"/pmhistory", " ", name, " ", "1">>
Exit == <<"/exit">>
Logout == <<"/logout">>

RegisterRequest(name) == << <<"REGISTER">>, <<name>>, <<"pw">> >>

ChatRequests ==
  {MessageOf(RegisterRequest(ann)), MessageOf(RegisterRequest(bob)),
   MessageOf(<< <<"GLOBAL">>, <<"hi">> >>), MessageOf(<< <<"LOGOUT">> >>),
   MessageOf(<< <<"CLOSE">> >>)}

(* Users who sign up, talk and leave.                                      *)
ChatLines ==
  (first :> {RegisterLine(ann), Text("hi")})
  @@ (second :> {RegisterLine(bob), Logout, Exit})

(* Users who talk to all and to each other, and read what was said.        *)
QuoteLines ==
  (first :> {RegisterLine(ann), Dm(bob, "hi"), Text("hi")})
  @@ (second :> {RegisterLine(bob), Dm(bob, "hi"), History, PmHistory(ann)})

QuoteRequests ==
  ChatRequests \cup
  {MessageOf(<< <<"DM">>, <<bob>>, <<"hi">> >>),
   MessageOf(<< <<"HISTORY">>, <<"1">> >>),
   MessageOf(<< <<"PMHISTORY">>, <<ann>>, <<"1">> >>)}

(* Users who only sign up, and stay.                                       *)
SignUpLines == (first :> {RegisterLine(ann)}) @@ (second :> {RegisterLine(bob)})
=============================================================================
