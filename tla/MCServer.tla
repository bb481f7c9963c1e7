------------------------------ MODULE MCServer ------------------------------
(***************************************************************************)
(* Instances of the server for TLC: the requests that the clients of each  *)
(* run send.                                                               *)
(***************************************************************************)
EXTENDS ServerProperties, TLC

CONSTANTS ann, bob, cat,
          nobody,  \* the name field of a request that has none
          long,    \* a name of more than 20 characters
          ragged   \* the name a client ends up asking for when the text after
                   \* it is empty: apim_read_param then keeps the separator

(* What a read may return at end-of-file.                                  *)
ErrorAtEof == {-1}
ZeroAtEof == {0}
EitherAtEof == {-1, 0}

Req(route, argc, name, word, count) ==
  [route |-> route, argc |-> argc, name |-> name, word |-> word, count |-> count]

Plain(route, argc) == Req(route, argc, nobody, "", 0)

Login(names) == {Req("LOGIN", 3, n, "pw", 0) : n \in names}
Register(names) == {Req("REGISTER", 3, n, "pw", 0) : n \in names}
Global(texts) == {Req("GLOBAL", 2, nobody, text, 0) : text \in texts}
Dm(names, texts) == {Req("DM", 3, n, text, 0) : n \in names, text \in texts}
History(counts) == {Req("HISTORY", 2, nobody, "", k) : k \in counts}
PmHistory(names, counts) == {Req("PMHISTORY", 3, n, "", k) : n \in names, k \in counts}
Logout == {Plain("LOGOUT", 1)}
Close == {Plain("CLOSE", 1)}
Health == {Plain("HEALTH", 1)}

(* What the sessions of the specification tell apart.                      *)
AbstractRequests ==
  Register({ann, bob}) \cup Login({ann}) \cup Logout \cup Close
  \cup Global({"hi"}) \cup Dm({bob}, {"hi"})

(* Three users who talk to each other: which is which makes no difference. *)
Friends == {ann, bob, cat}

TalkRequests ==
  Register(Friends) \cup Global({"hi"}) \cup Dm(Friends, {"hi"})
  \cup History({1}) \cup PmHistory(Friends, {30}) \cup Close

FriendsSymmetry == Permutations(Friends)

(* Every handler, with every way it refuses a request; one name with two   *)
(* passwords, logins and switches.                                         *)
OddRequests ==
  {Plain("GLOBAL", 3), Req("DM", 4, ann, "hi", 0), Plain("LOGIN", 2), Plain("REGISTER", 2),
   Plain("HISTORY", 1), Plain("HISTORY", 3), Plain("PMHISTORY", 2), Plain("USERS", 1),
   Plain("TYPO", 1), Plain("", 1), Plain("", 0), Req("LOGIN", 3, ann, "hi", 0)}
  \cup Register({ann, long, ragged}) \cup Login({ann})
  \cup {Req("REGISTER", 3, ann, "hi", 0), Req("REGISTER", 3, ann, "drop", 0)}
  \cup Dm({ann, long}, {"hi"}) \cup Dm({ragged}, {""})
  \cup Global({"hi"}) \cup History({-1, 31}) \cup PmHistory({ann}, {-1, 31})
  \cup Logout \cup Close \cup Health

(* What keeps a connection busy.                                           *)
BusyRequests == Health \cup Close

LoginRequests == Register({ann}) \cup Login({ann}) \cup Close

GlobalRequests == Register({ann, bob}) \cup Global({"hi"})
=============================================================================
