--------------------------- MODULE ClientCommands ---------------------------
(***************************************************************************)
(* What a client makes of the line its user has typed (client.c from line  *)
(* 150 on, the typed commands of client-commands.c and what they take from *)
(* utls.c and commands.c).  A line is a sequence of symbols (ApiMessages), *)
(* the name of a command being one of them.                                *)
(***************************************************************************)
EXTENDS ApiMessages

CONSTANTS NULL,         \* an argument that was never filled in
          SHA256(_),    \* the hash of a password, which has no separator
          MinPassword   \* the least symbols of a password (8 characters)

ClientOnly ==
  {"/exit", "/login", "/logout", "/register", "/users", "/help", "/history", "/pmhistory"}

FromServer == {"GLOBAL", "SERVER_DISCONNECTED", "SERV_RESPONSE", "HEALTH"}

(* Names that were registered for no command are empty, and found too.     *)
cmdc_commands == {<<name>> : name \in ClientOnly \cup FromServer} \cup {<<>>}

cmd_has_command_prop(line) == line # <<>> /\ line[1] \in ClientOnly \cup {"/"}

Space == " "

Spaces(line) == {i \in 1 .. Len(line) : line[i] = Space}

(* Mutant: as many arguments as spaces.                                    *)
utils_str_to_args_fewer(line) ==
  LET ends == Spaces(line)
      End(k) == CHOOSE i \in ends : Cardinality({j \in ends : j < i}) = k - 1
      Start(k) == IF k = 1 THEN 1 ELSE End(k - 1) + 1
  IN  IF ends = {} THEN <<line>>
      ELSE [k \in 1 .. Cardinality(ends) |-> SubSeq(line, Start(k), End(k) - 1)]

(* One argument more than spaces; but the loop ends with the line, and the *)
(* last one is never filled in if it is empty.                             *)
utils_str_to_args(line) ==
  LET ends == Spaces(line) \cup {Len(line) + 1}
      End(k) == CHOOSE i \in ends : Cardinality({j \in ends : j < i}) = k - 1
      Start(k) == IF k = 1 THEN 1 ELSE End(k - 1) + 1
  IN  [k \in 1 .. Cardinality(ends) |->
         IF Start(k) > Len(line) THEN NULL ELSE SubSeq(line, Start(k), End(k) - 1)]

(* The use, and the release, of an argument that was not filled in: what   *)
(* the memory holds is a bad pointer, or a good one to some text.          *)
IsUnfilled(args) == args[Len(args)] = NULL

Filled(args) == [k \in DOMAIN args |-> IF args[k] = NULL THEN <<Junk>> ELSE args[k]]

-----------------------------------------------------------------------------
(* The commands: what each may write, a request or nothing.                *)

Nothing == {<<>>}

Only(args) == {args}

cmdc_exit(args) == Only(<< <<"CLOSE">> >>)

cmdc_login(args) ==
  IF Len(args) = 3 THEN Only(<< <<"LOGIN">>, args[2], SHA256(args[3]) >>) ELSE Nothing

cmdc_logout(args) == Only(<< <<"LOGOUT">> >>)

(* The length of a password that was not filled in is anything.            *)
cmdc_register(args) ==
  LET request == << <<"REGISTER">>, args[2], SHA256(args[3]) >>
  IN  IF Len(args) # 3 THEN Nothing
      ELSE IF args[3] = <<Junk>> THEN {<<>>, request}
      ELSE IF Len(args[3]) < MinPassword THEN Nothing ELSE Only(request)

cmdc_users(args) == Only(<< <<"USERS">> >>)

cmdc_help(args) == Nothing

cmdc_history(args) == IF Len(args) = 2 THEN Only(<< <<"HISTORY">>, args[2] >>) ELSE Nothing

cmdc_pm_history(args) ==
  IF Len(args) = 3 THEN Only(<< <<"PMHISTORY">>, args[2], args[3] >>) ELSE Nothing

(* Mutant: the space stays in front of the text.                           *)
cmdc_private_dm_spaced(line) ==
  LET end == FirstOf(Spaces(line) \cup {Len(line) + 1}, line)
  IN  {<< <<"DM">>, SubSeq(line, 2, end - 1), SubSeq(line, end, Len(line)) >>}

(* Without a space the text is one byte from behind the line.              *)
cmdc_private_dm(line) ==
  LET end == FirstOf(Spaces(line) \cup {Len(line) + 1}, line)
      texts == IF Spaces(line) = {} THEN {<<>>, <<Junk>>}
               ELSE {SubSeq(line, end + 1, Len(line))}
  IN  {<< <<"DM">>, SubSeq(line, 2, end - 1), text >> : text \in texts}

(* The function that is registered for the name of the command.            *)
cmd_execute(args) ==
  CASE args[1] = <<"/exit">>      -> cmdc_exit(args)
    [] args[1] = <<"/login">>     -> cmdc_login(args)
    [] args[1] = <<"/logout">>    -> cmdc_logout(args)
    [] args[1] = <<"/register">>  -> cmdc_register(args)
    [] args[1] = <<"/users">>     -> cmdc_users(args)
    [] args[1] = <<"/help">>      -> cmdc_help(args)
    [] args[1] = <<"/history">>   -> cmdc_history(args)
    [] args[1] = <<"/pmhistory">> -> cmdc_pm_history(args)

cmdc_execute_command(line) ==
  LET args == utils_str_to_args(line)
  IN  IF args[1] \in cmdc_commands THEN cmd_execute(Filled(args)) ELSE Nothing

(* Mutant: whatever is no command is sent to everybody.                    *)
RequestsOf_typos(line) ==
  IF line # <<>> /\ line[1] = "@" THEN cmdc_private_dm(line)
  ELSE IF cmd_has_command_prop(line) /\ cmdc_execute_command(line) # Nothing
       THEN cmdc_execute_command(line)
  ELSE Only(<< <<"GLOBAL">>, line >>)

(* What may be written for a line, and nothing else is done with it.       *)
RequestsOf(line) ==
  IF line # <<>> /\ line[1] = "@" THEN cmdc_private_dm(line)
  ELSE IF cmd_has_command_prop(line) THEN cmdc_execute_command(line)
  ELSE Only(<< <<"GLOBAL">>, line >>)

(* Lines whose command works with an argument that was not filled in.      *)
MayCrash(line) ==
  /\ cmd_has_command_prop(line)
  /\ LET args == utils_str_to_args(line)
     IN  args[1] \in cmdc_commands /\ IsUnfilled(args)
=============================================================================
