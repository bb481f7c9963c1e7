---------------------------- MODULE AuthorProofs ----------------------------
(***************************************************************************)
(* For every number of clients, slots, lines and frames: what is printed as*)
(* said by a user was typed into a client whose user had asked before to be*)
(* him.  The invariant follows a line from the keyboard to the screens:    *)
(* which client a connection is of, also when the client has left it, which*)
(* line each request under way was written for, which lines are served     *)
(* already, and which line each message was spoken by.  The last section   *)
(* follows it through the log and the histories, too.                      *)
(***************************************************************************)
EXTENDS ClientProofs

-----------------------------------------------------------------------------
(* The lines and their requests.                                           *)

Phrases == UNION {Lines[c] : c \in Clients}

(* Words with a space between any two of them.                             *)
Alternates(text) == Commands!Spaces(text) = {i \in 1 .. Len(text) : i % 2 = 0} /\ Len(text) % 2 = 1

(* The name of somebody and a text for him.                                *)
IsNote(text) == Len(text) = 4 /\ Commands!Spaces(text) = {3}

(* A text is a single symbol here, as are the words of a command, which    *)
(* are separated by single spaces.                                         *)
LinesAreWords ==
  \A text \in Phrases :
    /\ IsSequence(text) /\ text # <<>>
    /\ \A i \in 1 .. Len(text) : <<text[i]>> # NULL
    /\ text[1] = "@" => IsNote(text)
    /\ text[1] # "@" /\ ~ Commands!cmd_has_command_prop(text) => Len(text) = 1
    /\ Commands!cmd_has_command_prop(text) => Alternates(text)

(* A symbol is a piece of a sequence.                                      *)
LEMMA OneSymbol ==
  ASSUME NEW text, IsSequence(text), NEW k \in 1 .. Len(text)
  PROVE  SubSeq(text, k, k) = <<text[k]>>
<1>1. PICK S : text \in Seq(S)
  BY DEF IsSequence
<1>2. k \in Nat /\ k >= 1 /\ k <= Len(text) /\ k - k + 1 = 1
  BY <1>1
<1>3. SubSeq(text, k, k) = [i \in 1 .. 1 |-> text[k + i - 1]]
  BY <1>1, <1>2 DEF SubSeq
<1>4. \A i \in 1 .. 1 : i = 1 /\ k + i - 1 = k
  BY <1>2
<1>5. [i \in 1 .. 1 |-> text[k + i - 1]] = [i \in 1 .. 1 |-> text[k]]
  BY <1>4
<1>6. \A a : [i \in 1 .. 1 |-> a] = <<a>>
  OBVIOUS
<1> QED
  BY <1>3, <1>5, <1>6

(* What utils_str_to_args is.                                              *)
LEMMA SplitAtSpaces ==
  ASSUME NEW text
  PROVE  LET ends == Commands!Spaces(text) \cup {Len(text) + 1}
             end(k) == CHOOSE i \in ends : Cardinality({j \in ends : j < i}) = k - 1
             start(k) == IF k = 1 THEN 1 ELSE end(k - 1) + 1
         IN  Commands!utils_str_to_args(text) =
               [k \in 1 .. Cardinality(ends) |->
                  IF start(k) > Len(text) THEN NULL ELSE SubSeq(text, start(k), end(k) - 1)]
BY Zenon DEF Commands!utils_str_to_args, Commands!Cardinality, Cardinality

(* A line of alternating words and spaces has three arguments exactly if   *)
(* it has three words.                                                     *)
LEMMA ThreeWords ==
  ASSUME NEW text, IsSequence(text), Alternates(text),
         Len(Commands!utils_str_to_args(text)) = 3
  PROVE  /\ Len(text) = 5
         /\ Commands!utils_str_to_args(text) = << <<text[1]>>, <<text[3]>>, <<text[5]>> >>
<1> DEFINE ends == Commands!Spaces(text) \cup {Len(text) + 1}
           end(k) == CHOOSE i \in ends : Cardinality({j \in ends : j < i}) = k - 1
           start(k) == IF k = 1 THEN 1 ELSE end(k - 1) + 1
<1>1. Commands!utils_str_to_args(text) =
        [k \in 1 .. Cardinality(ends) |->
           IF start(k) > Len(text) THEN NULL ELSE SubSeq(text, start(k), end(k) - 1)]
  BY SplitAtSpaces, Zenon
<1>2. Len(text) \in Nat /\ Len(text) % 2 = 1
  BY DEF IsSequence, Alternates
<1>3. ends = {i \in 1 .. Len(text) + 1 : i % 2 = 0}
  BY <1>2 DEF Alternates
<1> HIDE DEF ends
<1>4. IsFiniteSet(ends) /\ Cardinality(ends) \in Nat
  <2> DEFINE last == Len(text) + 1
  <2>1. IsFiniteSet(1 .. last)
    BY <1>2, FS_Interval
  <2>2. ends \subseteq 1 .. last
    BY <1>3
  <2> QED
    BY <2>1, <2>2, FS_Subset, FS_CardinalityType
<1>5. Cardinality(ends) = 3
  BY <1>1, <1>4
<1>6. /\ IsFiniteSet({2}) /\ Cardinality({2}) = 1
      /\ IsFiniteSet({2, 4}) /\ Cardinality({2, 4}) = 2
      /\ IsFiniteSet({2, 4, 6}) /\ Cardinality({2, 4, 6}) = 3
      /\ IsFiniteSet({2, 4, 6, 8}) /\ Cardinality({2, 4, 6, 8}) = 4
  <2>1. {2, 4} = {2} \cup {4} /\ {2, 4, 6} = {2, 4} \cup {6} /\ {2, 4, 6, 8} = {2, 4, 6} \cup {8}
    OBVIOUS
  <2>2. IsFiniteSet({2}) /\ Cardinality({2}) = 1
    BY FS_Singleton
  <2>3. IsFiniteSet({2, 4}) /\ Cardinality({2, 4}) = 2
    BY <2>1, <2>2, FS_AddElement
  <2>4. IsFiniteSet({2, 4, 6}) /\ Cardinality({2, 4, 6}) = 3
    BY <2>1, <2>3, FS_AddElement
  <2> QED
    BY <2>1, <2>2, <2>3, <2>4, FS_AddElement
<1>7. Len(text) = 5
  <2>1. CASE Len(text) < 5
    <3>1. ends = {2} \/ ends = {2, 4}
      BY <1>2, <1>3, <2>1
    <3> QED
      BY <1>5, <1>6, <3>1
  <2>2. CASE Len(text) > 5
    <3>1. {2, 4, 6, 8} \subseteq ends
      BY <1>2, <1>3, <2>2
    <3> QED
      BY <1>4, <1>5, <1>6, <3>1, FS_Subset
  <2>3. Len(text) \in Nat
    BY <1>2
  <2>4. \A n \in Nat : n < 5 \/ n > 5 \/ n = 5
    OBVIOUS
  <2> QED
    BY <2>1, <2>2, <2>3, <2>4, Zenon
<1>8. ends = {2, 4, 6}
  BY <1>3, <1>7
<1>9. \A i \in ends : \A k \in 1 .. 3 : Cardinality({j \in ends : j < i}) = k - 1 <=> i = 2 * k
  <2>1. /\ {j \in ends : j < 2} = {} /\ {j \in ends : j < 4} = {2} /\ {j \in ends : j < 6} = {2, 4}
    BY <1>8
  <2>2. Cardinality({}) = 0
    BY FS_EmptySet
  <2> QED
    BY <1>6, <1>8, <2>1, <2>2
<1>10. end(1) = 2 /\ end(2) = 4 /\ end(3) = 6
  <2>1. ASSUME NEW k \in 1 .. 3 PROVE end(k) = 2 * k
    <3>1. 2 * k \in ends /\ Cardinality({j \in ends : j < 2 * k}) = k - 1
      BY <1>8, <1>9
    <3>2. end(k) \in ends /\ Cardinality({j \in ends : j < end(k)}) = k - 1
      BY <3>1, Zenon
    <3> QED
      BY <1>9, <3>2
  <2> HIDE DEF end
  <2>2. end(1) = 2 * 1 /\ end(2) = 2 * 2 /\ end(3) = 2 * 3
    BY <2>1
  <2> QED
    BY <2>2
<1> HIDE DEF end
<1>11. SubSeq(text, 1, 1) = <<text[1]>> /\ SubSeq(text, 3, 3) = <<text[3]>> /\ SubSeq(text, 5, 5) = <<text[5]>>
  <2>1. 1 \in 1 .. Len(text) /\ 3 \in 1 .. Len(text) /\ 5 \in 1 .. Len(text)
    BY <1>7
  <2> QED
    BY <2>1, OneSymbol
<1>12. start(1) = 1 /\ start(2) = 3 /\ start(3) = 5
  BY <1>10
<1> HIDE DEF start
<1>13. \A k \in 1 .. 3 : (IF start(k) > Len(text) THEN NULL ELSE SubSeq(text, start(k), end(k) - 1))
                         = SubSeq(text, 2 * k - 1, 2 * k - 1)
  BY <1>7, <1>10, <1>12
<1>14. Commands!utils_str_to_args(text) = [k \in 1 .. 3 |-> SubSeq(text, 2 * k - 1, 2 * k - 1)]
  BY <1>1, <1>5, <1>13
<1>15. \A a, b, d : <<a, b, d>> = [k \in 1 .. 3 |-> IF k = 1 THEN a ELSE IF k = 2 THEN b ELSE d]
  OBVIOUS
<1>16. \A k \in 1 .. 3 : SubSeq(text, 2 * k - 1, 2 * k - 1)
          = IF k = 1 THEN <<text[1]>> ELSE IF k = 2 THEN <<text[3]>> ELSE <<text[5]>>
  BY <1>11
<1> QED
  BY <1>7, <1>14, <1>15, <1>16

(* Its first argument is its first word.                                   *)
LEMMA FirstWord ==
  ASSUME NEW text, IsSequence(text), text # <<>>, Alternates(text)
  PROVE  LET args == Commands!utils_str_to_args(text)
         IN  args[1] = <<text[1]>> /\ Len(args) \in Nat /\ DOMAIN args = 1 .. Len(args) /\ 1 \in DOMAIN args
<1> DEFINE ends == Commands!Spaces(text) \cup {Len(text) + 1}
           end(k) == CHOOSE i \in ends : Cardinality({j \in ends : j < i}) = k - 1
           start(k) == IF k = 1 THEN 1 ELSE end(k - 1) + 1
           args == Commands!utils_str_to_args(text)
<1>1. args = [k \in 1 .. Cardinality(ends) |->
                IF start(k) > Len(text) THEN NULL ELSE SubSeq(text, start(k), end(k) - 1)]
  BY SplitAtSpaces, Zenon
<1> HIDE DEF args
<1>2. Len(text) \in Nat /\ Len(text) >= 1 /\ Len(text) % 2 = 1
  BY DEF IsSequence, Alternates
<1>3. ends = {i \in 1 .. Len(text) + 1 : i % 2 = 0}
  BY <1>2 DEF Alternates
<1> HIDE DEF ends
<1>4. 2 \in ends /\ \A i \in ends : i \in Nat /\ i >= 2
  BY <1>2, <1>3
<1>5. IsFiniteSet(ends)
  <2> DEFINE last == Len(text) + 1
  <2>1. IsFiniteSet(1 .. last)
    BY <1>2, FS_Interval
  <2>2. ends \subseteq 1 .. last
    BY <1>3
  <2> QED
    BY <2>1, <2>2, FS_Subset
<1>6. Cardinality(ends) \in Nat /\ Cardinality(ends) >= 1
  <2>1. Cardinality(ends) \in Nat /\ Cardinality(ends) # 0
    BY <1>4, <1>5, FS_CardinalityType, FS_EmptySet
  <2> QED
    BY <2>1
<1>7. end(1) = 2
  <2>1. \A i \in ends : Cardinality({j \in ends : j < i}) = 0 <=> i = 2
    <3> SUFFICES ASSUME NEW i \in ends PROVE Cardinality({j \in ends : j < i}) = 0 <=> i = 2
      OBVIOUS
    <3>1. IsFiniteSet({j \in ends : j < i})
      BY <1>5, FS_Subset
    <3>2. Cardinality({j \in ends : j < i}) = 0 <=> {j \in ends : j < i} = {}
      BY <3>1, FS_EmptySet
    <3>3. {j \in ends : j < i} = {} <=> i = 2
      BY <1>4
    <3> QED
      BY <3>2, <3>3
  <2>2. \A i \in ends : Cardinality({j \in ends : j < i}) = 1 - 1 <=> i = 2
    BY <2>1
  <2> QED
    BY <1>4, <2>2
<1> HIDE DEF end
<1>8. start(1) = 1
  OBVIOUS
<1> HIDE DEF start
<1>9. args[1] = SubSeq(text, 1, 1)
  <2>1. 1 \in 1 .. Cardinality(ends) /\ ~ (1 > Len(text)) /\ 2 - 1 = 1
    <3>1. Len(text) \in Nat /\ Len(text) >= 1
      BY <1>2
    <3>2. \A n \in Nat : n >= 1 => 1 \in 1 .. n /\ ~ (1 > n) /\ 2 - 1 = 1
      OBVIOUS
    <3> QED
      BY <1>6, <3>1, <3>2, Zenon
  <2>2. args[1] = IF start(1) > Len(text) THEN NULL ELSE SubSeq(text, start(1), end(1) - 1)
    BY <1>1, <2>1, Zenon
  <2> QED
    BY <1>7, <1>8, <2>1, <2>2, Zenon
<1>10. SubSeq(text, 1, 1) = <<text[1]>>
  <2>1. Len(text) \in Nat /\ Len(text) >= 1
    BY <1>2
  <2>2. 1 \in 1 .. Len(text)
    BY <2>1
  <2> QED
    BY <2>2, OneSymbol
<1>11. Len(args) = Cardinality(ends) /\ DOMAIN args = 1 .. Cardinality(ends)
  BY <1>1, <1>6
<1> QED
  BY <1>6, <1>9, <1>10, <1>11 DEF args

(* The requests and the messages of a line.                                *)
IsWritten(msg, text) ==
  \E request \in Commands!RequestsOf(text) : request # <<>> /\ msg = MessageOf(request)

(* What a command writes: a text is the business of none, and a name to log*)
(* in with is the second of three arguments.                               *)
LEMMA CommandWrites ==
  ASSUME NEW args, args[1] \in {<<name>> : name \in Commands!ClientOnly},
         NEW request \in Commands!cmd_execute(args), request # <<>>
  PROVE  /\ request[1][1] \notin {"GLOBAL", "DM"}
         /\ request[1][1] \in {"LOGIN", "REGISTER"} /\ Len(request) = 3 =>
              /\ Len(args) = 3 /\ args[1] \in {<<"/login">>, <<"/register">>}
              /\ request[2] = args[2]
<1> DEFINE Goal == /\ request[1][1] \notin {"GLOBAL", "DM"}
                   /\ request[1][1] \in {"LOGIN", "REGISTER"} /\ Len(request) = 3 =>
                        /\ Len(args) = 3 /\ args[1] \in {<<"/login">>, <<"/register">>}
                        /\ request[2] = args[2]
<1>1. \A s, t : <<s>> = <<t>> => s = t
  OBVIOUS
<1>2. CASE args[1] = <<"/exit">>
  <2>1. request \in Commands!cmdc_exit(args)
    BY <1>1, <1>2 DEF Commands!cmd_execute
  <2> QED
    BY <2>1 DEF Commands!cmdc_exit, Commands!Only
<1>3. CASE args[1] = <<"/login">>
  <2>1. request \in Commands!cmdc_login(args)
    BY <1>1, <1>3 DEF Commands!cmd_execute
  <2> QED
    BY <1>3, <2>1 DEF Commands!cmdc_login, Commands!Only, Commands!Nothing
<1>4. CASE args[1] = <<"/logout">>
  <2>1. request \in Commands!cmdc_logout(args)
    BY <1>1, <1>4 DEF Commands!cmd_execute
  <2> QED
    BY <2>1 DEF Commands!cmdc_logout, Commands!Only
<1>5. CASE args[1] = <<"/register">>
  <2>1. request \in Commands!cmdc_register(args)
    BY <1>1, <1>5 DEF Commands!cmd_execute
  <2> QED
    BY <1>5, <2>1 DEF Commands!cmdc_register, Commands!Only, Commands!Nothing
<1>6. CASE args[1] = <<"/users">>
  <2>1. request \in Commands!cmdc_users(args)
    BY <1>1, <1>6 DEF Commands!cmd_execute
  <2> QED
    BY <2>1 DEF Commands!cmdc_users, Commands!Only
<1>7. CASE args[1] = <<"/help">>
  <2>1. request \in Commands!cmdc_help(args)
    BY <1>1, <1>7 DEF Commands!cmd_execute
  <2> QED
    BY <2>1 DEF Commands!cmdc_help, Commands!Nothing
<1>8. CASE args[1] = <<"/history">>
  <2>1. request \in Commands!cmdc_history(args)
    BY <1>1, <1>8 DEF Commands!cmd_execute
  <2> QED
    BY <2>1 DEF Commands!cmdc_history, Commands!Only, Commands!Nothing
<1>9. CASE args[1] = <<"/pmhistory">>
  <2>1. request \in Commands!cmdc_pm_history(args)
    BY <1>1, <1>9 DEF Commands!cmd_execute
  <2> QED
    BY <2>1 DEF Commands!cmdc_pm_history, Commands!Only, Commands!Nothing
<1> QED
  BY <1>2, <1>3, <1>4, <1>5, <1>6, <1>7, <1>8, <1>9 DEF Commands!ClientOnly

(* So a message is what was typed, and a login by the name that was.       *)
LEMMA LineSays ==
  ASSUME LinesAreWords, NEW text \in Phrases, NEW msg, IsWritten(msg, text)
  PROVE  /\ msg.route = "GLOBAL" => text = <<msg.word>> /\ Len(text) = 1
         /\ msg.route = "DM" => text = <<"@", msg.name, " ", msg.word>> /\ Len(text) = 4
         /\ msg.route \in {"LOGIN", "REGISTER"} /\ msg.argc = 3 =>
              Len(text) = 5 /\ text[3] = msg.name /\ text[1] \in {"/login", "/register"}
<1> DEFINE Goal == /\ msg.route = "GLOBAL" => text = <<msg.word>> /\ Len(text) = 1
                   /\ msg.route = "DM" => text = <<"@", msg.name, " ", msg.word>> /\ Len(text) = 4
                   /\ msg.route \in {"LOGIN", "REGISTER"} /\ msg.argc = 3 =>
                        Len(text) = 5 /\ text[3] = msg.name /\ text[1] \in {"/login", "/register"}
<1>1. PICK request \in Commands!RequestsOf(text) : request # <<>> /\ msg = MessageOf(request)
  BY DEF IsWritten
<1>2. /\ msg.route = request[1][1] /\ msg.argc = Len(request)
      /\ Len(request) = 3 => msg.name = request[2][1] /\ msg.word = request[3][1]
      /\ Len(request) = 2 => msg.word = request[2][1]
  BY <1>1 DEF MessageOf
<1>3. IsSequence(text) /\ text # <<>> /\ \A i \in 1 .. Len(text) : <<text[i]>> # NULL
  BY DEF LinesAreWords
<1>4. CASE text[1] = "@"
  <2>1. request \in Commands!cmdc_private_dm(text)
    BY <1>1, <1>3, <1>4, Zenon DEF Commands!RequestsOf
  <2>2. Len(text) = 4 /\ Commands!Spaces(text) = {3}
    BY <1>4 DEF LinesAreWords, IsNote
  <2>3. text[3] = " " /\ text = <<text[1], text[2], text[3], text[4]>>
    <3>1. 3 \in {i \in 1 .. Len(text) : text[i] = " "}
      BY <2>2, Zenon DEF Commands!Spaces, Commands!Space
    <3>2. text[3] = " "
      BY <3>1
    <3>3. PICK S : text \in Seq(S)
      BY <1>3 DEF IsSequence
    <3>4. text = <<text[1], text[2], text[3], text[4]>>
      BY <2>2, <3>3
    <3> QED
      BY <3>2, <3>4
  <2>4. Commands!FirstOf(Commands!Spaces(text) \cup {Len(text) + 1}, text) = 3
    <3>1. Commands!Spaces(text) \cup {Len(text) + 1} = {3, 5}
      BY <2>2
    <3>2. Commands!FirstOf({3, 5}, text) = 3
      BY DEF Commands!FirstOf
    <3> QED
      BY <3>1, <3>2, Zenon
  <2>5. request = << <<"DM">>, SubSeq(text, 2, 2), SubSeq(text, 4, 4) >>
    <3>1. {3} # {} /\ 3 - 1 = 2 /\ 3 + 1 = 4
      OBVIOUS
    <3>2. request \in {<< <<"DM">>, SubSeq(text, 2, 3 - 1), word >> : word \in {SubSeq(text, 3 + 1, Len(text))}}
      BY <2>1, <2>2, <2>4, <3>1, Zenon DEF Commands!cmdc_private_dm
    <3> QED
      BY <2>2, <3>1, <3>2, Zenon
  <2>6. SubSeq(text, 2, 2) = <<text[2]>> /\ SubSeq(text, 4, 4) = <<text[4]>>
    BY <1>3, <2>2, OneSymbol
  <2>7. /\ Len(request) = 3 /\ request[1][1] = "DM"
        /\ request[2][1] = text[2] /\ request[3][1] = text[4]
    BY <2>5, <2>6
  <2> QED
    BY <1>2, <1>4, <2>2, <2>3, <2>7
<1>5. CASE text[1] # "@" /\ Commands!cmd_has_command_prop(text)
  <2> DEFINE args == Commands!utils_str_to_args(text)
             filled == Commands!Filled(args)
  <2>1. request \in Commands!cmdc_execute_command(text)
    BY <1>1, <1>5, Zenon DEF Commands!RequestsOf
  <2>2. Alternates(text)
    BY <1>5 DEF LinesAreWords
  <2>3. args[1] = <<text[1]>> /\ Len(args) \in Nat /\ DOMAIN args = 1 .. Len(args) /\ 1 \in DOMAIN args
    BY <1>3, <2>2, FirstWord, Zenon
  <2>4. args[1] \in Commands!cmdc_commands /\ request \in Commands!cmd_execute(filled)
    BY <1>1, <2>1, Zenon DEF Commands!cmdc_execute_command, Commands!Nothing
  <2>5. <<text[1]>> # NULL
    <3>1. Len(text) \in Nat /\ Len(text) >= 1
      BY <1>3 DEF IsSequence
    <3> QED
      BY <1>3, <3>1
  <2> HIDE DEF args
  <2>6. /\ filled = [k \in DOMAIN args |-> IF args[k] = NULL THEN << Commands!Junk >> ELSE args[k]]
    BY DEF Commands!Filled
  <2> HIDE DEF filled
  <2>7. filled[1] = <<text[1]>> /\ Len(filled) = Len(args)
    BY <2>3, <2>5, <2>6
  <2>8. text[1] \in Commands!ClientOnly
    <3>1. text[1] \in Commands!ClientOnly \cup {"/"}
      BY <1>5 DEF Commands!cmd_has_command_prop
    <3>2. \A s, t : <<s>> = <<t>> => s = t
      OBVIOUS
    <3>3. \A s : <<s>> # <<>>
      OBVIOUS
    <3>4. text[1] \in Commands!ClientOnly \cup Commands!FromServer
      BY <2>3, <2>4, <3>2, <3>3, Zenon DEF Commands!cmdc_commands
    <3>5. "/" \notin Commands!ClientOnly \cup Commands!FromServer
      BY DEF Commands!ClientOnly, Commands!FromServer
    <3> QED
      BY <3>1, <3>4, <3>5
  <2>9. /\ request[1][1] \notin {"GLOBAL", "DM"}
        /\ request[1][1] \in {"LOGIN", "REGISTER"} /\ Len(request) = 3 =>
             /\ Len(filled) = 3 /\ filled[1] \in {<<"/login">>, <<"/register">>}
             /\ request[2] = filled[2]
    BY <1>1, <2>4, <2>7, <2>8, CommandWrites
  <2>10. CASE request[1][1] \in {"LOGIN", "REGISTER"} /\ Len(request) = 3
    <3>1. Len(args) = 3
      BY <2>7, <2>9, <2>10
    <3>2. Len(text) = 5 /\ args = << <<text[1]>>, <<text[3]>>, <<text[5]>> >>
      BY <1>3, <2>2, <3>1, ThreeWords, Zenon DEF args
    <3>3. args[2] = <<text[3]>> /\ args[2] # NULL /\ 2 \in DOMAIN args
      BY <1>3, <2>3, <3>1, <3>2
    <3>4. filled[2] = <<text[3]>>
      BY <2>6, <3>3
    <3>5. request[2][1] = text[3]
      BY <2>9, <2>10, <3>4
    <3>6. text[1] \in {"/login", "/register"}
      BY <2>7, <2>9, <2>10
    <3> QED
      BY <1>2, <2>9, <3>2, <3>5, <3>6
  <2> QED
    BY <1>2, <2>9, <2>10
<1>6. CASE text[1] # "@" /\ ~ Commands!cmd_has_command_prop(text)
  <2>1. request = << <<"GLOBAL">>, text >>
    BY <1>1, <1>6, Zenon DEF Commands!RequestsOf, Commands!Only
  <2>2. Len(text) = 1
    BY <1>6 DEF LinesAreWords
  <2>3. text = <<text[1]>>
    BY <1>3, <2>2 DEF IsSequence
  <2> QED
    BY <1>2, <2>1, <2>2, <2>3
<1> QED
  BY <1>4, <1>5, <1>6

-----------------------------------------------------------------------------
(* The lines that are typed.                                               *)

LinesWritten(c) == Len(said[c]) - (IF line[c] = NULL THEN 0 ELSE 1)

(* The line that waits is the last one.                                    *)
LineIsLast ==
  /\ said \in [Clients -> Seq(Phrases)]
  /\ \A c \in Clients :
       /\ place[c] = "input" => line[c] # NULL
       /\ line[c] # NULL => Len(said[c]) > 0 /\ said[c][Len(said[c])] = line[c]

SaidGrows ==
  \A c \in Clients : Extends(said[c], said'[c]) /\ LinesWritten(c) <= LinesWritten(c)'

(* Lines are only added, and a line is written once.                       *)
LEMMA LinesStep ==
  ASSUME ClientTypes, LineTypes, LineIsLast, ChatNext
  PROVE  LineIsLast' /\ SaidGrows
<1> DEFINE Goal == LineIsLast' /\ SaidGrows
<1>1. \A c \in Clients : said[c] \in Seq(Phrases) /\ Len(said[c]) \in Nat
  BY DEF LineIsLast
<1>2. ASSUME UNCHANGED <<place, line, said>> PROVE Goal
  BY <1>1, <1>2 DEF LineIsLast, SaidGrows, LinesWritten, Extends
<1>3. ASSUME NEW c \in Clients, NEW at, Goes(c, at), said' = said,
             line' = line \/ line' = [line EXCEPT ![c] = NULL],
             at = "input" => line'[c] # NULL
      PROVE  Goal
  <2>1. ASSUME NEW d \in Clients
        PROVE  /\ place'[d] = "input" => line'[d] # NULL
               /\ line'[d] # NULL => line'[d] = line[d]
               /\ line'[d] # NULL => line[d] # NULL
    BY <1>3 DEF Goes, LineIsLast, LineTypes, ClientTypes
  <2>2. SaidGrows
    BY <1>1, <1>3, <2>1 DEF SaidGrows, LinesWritten, Extends
  <2> QED
    BY <1>3, <2>1, <2>2 DEF LineIsLast
<1>4. ASSUME NEW c \in Clients, Closes(c) PROVE Goal
  BY <1>3, <1>4 DEF Closes
<1>5. ASSUME NEW c \in Clients, NEW request, Wrote(c, request) PROVE Goal
  BY <1>3, <1>5 DEF Wrote
<1>6. ASSUME NEW c \in Clients, takes_line(c) PROVE Goal
  BY <1>3, <1>6 DEF takes_line
<1>7. ASSUME NEW c \in Clients, cmdc_execute_server_command(c) PROVE Goal
  BY <1>3, <1>7 DEF cmdc_execute_server_command
<1>8. ASSUME NEW c \in Clients, NEW text \in Lines[c], user_types(c, text) PROVE Goal
  <2>1. /\ line[c] = NULL /\ place' = place /\ line' = [line EXCEPT ![c] = text]
        /\ said' = [said EXCEPT ![c] = Append(@, text)] /\ text \in Phrases
    BY <1>8 DEF user_types, Phrases
  <2>2. /\ Append(said[c], text) \in Seq(Phrases)
        /\ Len(Append(said[c], text)) = Len(said[c]) + 1
        /\ Append(said[c], text)[Len(said[c]) + 1] = text
        /\ \A i \in 1 .. Len(said[c]) : Append(said[c], text)[i] = said[c][i]
    BY <1>1, <2>1
  <2>3. \A d \in Clients : /\ said'[d] = IF d = c THEN Append(said[c], text) ELSE said[d]
                           /\ line'[d] = IF d = c THEN text ELSE line[d]
    BY <2>1 DEF LineIsLast, LineTypes
  <2>4. LineIsLast'
    <3>1. ASSUME NEW d \in Clients
          PROVE  /\ place'[d] = "input" => line'[d] # NULL
                 /\ line'[d] # NULL => Len(said'[d]) > 0 /\ said'[d][Len(said'[d])] = line'[d]
      <4>1. CASE d = c
        BY <1>1, <2>1, <2>2, <2>3, <4>1 DEF LineIsLast
      <4>2. CASE d # c
        BY <2>1, <2>3, <4>2 DEF LineIsLast
      <4> QED
        BY <4>1, <4>2
    <3>2. said' \in [Clients -> Seq(Phrases)]
      BY <2>1, <2>2 DEF LineIsLast
    <3> QED
      BY <3>1, <3>2 DEF LineIsLast
  <2>5. ASSUME NEW d \in Clients PROVE Extends(said[d], said'[d]) /\ LinesWritten(d) <= LinesWritten(d)'
    <3>1. CASE d = c
      <4>1. said'[d] = Append(said[c], text) /\ line[d] = NULL /\ Len(said[c]) \in Nat
        BY <1>1, <2>1, <2>3, <3>1
      <4>2. Extends(said[d], said'[d]) /\ Len(said'[d]) = Len(said[d]) + 1
        BY <2>2, <3>1, <4>1 DEF Extends
      <4> QED
        BY <3>1, <4>1, <4>2 DEF LinesWritten
    <3>2. CASE d # c
      <4>1. said'[d] = said[d] /\ line'[d] = line[d] /\ Len(said[d]) \in Nat
        BY <1>1, <2>3, <3>2
      <4> QED
        BY <4>1 DEF LinesWritten, Extends
    <3> QED
      BY <3>1, <3>2
  <2> QED
    BY <2>4, <2>5 DEF SaidGrows
<1>9. ASSUME NEW c \in Clients, ClientStep(c) PROVE Goal
  BY <1>3, <1>4, <1>5, <1>6, <1>7, <1>9 DEF ClientStep, WithoutServer, ssl_block_write_request,
     WritesInVain, cmdc_exit_close, LosesServer
<1>10. ASSUME NEW c \in Clients, UserStep(c) \/ ssl_block_connect(c) PROVE Goal
  BY <1>3, <1>4, <1>8, <1>10 DEF UserStep, WithoutServer, do_server_connection, ctrl_c_handler,
     ssl_block_connect
<1> QED
  BY <1>2, <1>9, <1>10 DEF ChatNext, ServerStep, RstStep, OperatorStep, client

(* All lines that are typed are written but the one that waits.            *)
LEMMA LinesWrittenFacts ==
  ASSUME LineIsLast, NEW c \in Clients
  PROVE  /\ Len(said[c]) \in Nat /\ LinesWritten(c) \in Nat /\ LinesWritten(c) <= Len(said[c])
         /\ line[c] = NULL => LinesWritten(c) = Len(said[c])
         /\ line[c] # NULL => LinesWritten(c) + 1 = Len(said[c])
<1>1. Len(said[c]) \in Nat /\ (line[c] # NULL => Len(said[c]) > 0)
  BY DEF LineIsLast
<1>2. CASE line[c] = NULL
  <2>1. LinesWritten(c) = Len(said[c]) - 0
    BY <1>2 DEF LinesWritten
  <2> QED
    BY <1>1, <1>2, <2>1
<1>3. CASE line[c] # NULL
  <2>1. LinesWritten(c) = Len(said[c]) - 1
    BY <1>3 DEF LinesWritten
  <2> QED
    BY <1>1, <1>3, <2>1
<1> QED
  BY <1>2, <1>3

-----------------------------------------------------------------------------
(* The client of each connection, also when it has left it.                *)

Owners(own) ==
  /\ own \in [Fds -> Clients]
  /\ \A c \in Clients : conn[c] # -1 => own[conn[c]] = c
  /\ \A fd, f \in Fds : sock[fd] # "free" /\ sock[f] # "free" /\ own[fd] = own[f] => fd = f
  /\ \A fd \in Fds : sock[fd] # "free" /\ place[own[fd]] \in {"off", "connecting"} => conn[own[fd]] = fd

(* A connection keeps its owner.                                           *)
LEMMA OwnersStep ==
  ASSUME IInv, OneHandshake, ConnInv, ConnInv', ClientTypes, PlacesMatch, ChatNext, NEW own, Owners(own)
  PROVE  \E later : Owners(later)' /\ \A fd \in Fds : sock[fd] # "free" => later[fd] = own[fd]
<1> DEFINE Goal == \E later : Owners(later)' /\ \A fd \in Fds : sock[fd] # "free" => later[fd] = own[fd]
<1>1. ASSUME \A fd \in Fds : sock'[fd] # "free" => sock[fd] # "free",
             \A c \in Clients : conn'[c] = conn[c] \/ conn'[c] = -1,
             \A c \in Clients : place'[c] \in {"off", "connecting"} => 
               /\ place[c] \in {"off", "connecting"}
               /\ conn[c] # -1 /\ sock'[conn[c]] # "free" => conn'[c] = conn[c]
      PROVE  Goal
  <2>1. \A c \in Clients : conn[c] # -1 => conn[c] \in Fds
    BY DEF ConnInv, ConnTypes
  <2>2. \A fd \in Fds : fd # -1
    BY FdFacts
  <2>3. Owners(own)'
    BY <1>1, <2>1, <2>2 DEF Owners
  <2> QED
    BY <2>3
<1>2. ASSUME NEW c \in Clients, NEW at, Goes(c, at), 
             at \in {"off", "connecting"} => place[c] \in {"off", "connecting"} /\ conn' = conn,
             \A fd \in Fds : sock'[fd] # "free" => sock[fd] # "free",
             conn' = conn \/ conn' = [conn EXCEPT ![c] = -1]
      PROVE  Goal
  <2>1. \A d \in Clients : place'[d] \in {"off", "connecting"} => 
               /\ place[d] \in {"off", "connecting"}
               /\ conn'[d] = conn[d]
    BY <1>2 DEF Goes, ClientTypes, ConnInv, ConnTypes
  <2>2. \A d \in Clients : conn'[d] = conn[d] \/ conn'[d] = -1
    BY <1>2 DEF ConnInv, ConnTypes
  <2> QED
    BY <1>1, <1>2, <2>1, <2>2
<1>3. CASE ServerStep
  <2>1. place' = place /\ Loop
    BY <1>3 DEF ServerStep
  <2>2. CASE pc = "accept" /\ pc' = "handshake"
    <3>1. PICK d \in Clients, fd \in Fds :
            Waiting(d) /\ sock[fd] = "free" /\ sock'[fd] # "free" /\ conn' = [conn EXCEPT ![d] = fd]
      BY <1>3, <2>2 DEF ServerStep, Assigns
    <3>2. sock' = [sock EXCEPT ![fd] = "connecting"]
      BY <2>1, <3>1, LoopSockets
    <3> DEFINE later == [own EXCEPT ![fd] = d]
    <3>3. \A f \in Fds : sock[f] # "free" => own[f] # d
      BY <3>1, FdFacts DEF Owners, Waiting
    <3>4. /\ later \in [Fds -> Clients]
          /\ \A f \in Fds : later[f] = IF f = fd THEN d ELSE own[f]
      BY DEF Owners
    <3>5. \A c \in Clients : conn'[c] = IF c = d THEN fd ELSE conn[c]
      BY <3>1 DEF ConnInv, ConnTypes
    <3>6. \A f \in Fds : sock'[f] = IF f = fd THEN "connecting" ELSE sock[f]
      BY <3>2 DEF IInv, TypeOK
    <3> HIDE DEF later
    <3>7. \A c \in Clients : conn'[c] # -1 => later[conn'[c]] = c
      <4>1. \A c \in Clients : conn[c] # -1 => conn[c] \in Fds /\ conn[c] # fd
        BY <3>1 DEF ConnInv, ConnTypes
      <4> QED
        BY <3>4, <3>5, <4>1 DEF Owners
    <3>8. \A g, f \in Fds : sock'[g] # "free" /\ sock'[f] # "free" /\ later[g] = later[f] => g = f
      BY <3>3, <3>4, <3>6 DEF Owners
    <3>9. \A f \in Fds : sock'[f] # "free" /\ place'[later[f]] \in {"off", "connecting"} => conn'[later[f]] = f
      BY <2>1, <3>1, <3>3, <3>4, <3>5, <3>6 DEF Owners
    <3>10. Owners(later)'
      BY <3>4, <3>7, <3>8, <3>9 DEF Owners
    <3> QED
      BY <3>1, <3>4, <3>10
  <2>3. CASE ~ (pc = "accept" /\ pc' = "handshake")
    <3>1. \A c \in Clients : conn'[c] = IF conn[c] # -1 /\ sock'[conn[c]] = "free" THEN -1 ELSE conn[c]
      BY <1>3, <2>3 DEF ServerStep, Assigns
    <3>2. \A fd \in Fds : sock[fd] = "free" => sock'[fd] = "free"
      BY <2>1, <2>3, LoopSockets
    <3> QED
      BY <1>1, <2>1, <3>1, <3>2
  <2> QED
    BY <2>2, <2>3
<1>4. ASSUME UNCHANGED <<place, conn>>, \A fd \in Fds : sock'[fd] # "free" => sock[fd] # "free" PROVE Goal
  BY <1>1, <1>4
<1>5. CASE RstStep \/ OperatorStep
  BY <1>4, <1>5 DEF RstStep, RstArrives, SocketBecomes, OperatorStep, OperatorQuits, SelectWith, client,
     network, IInv, TypeOK
<1>6. ASSUME NEW c \in Clients, Closes(c) PROVE Goal
  BY <1>2, <1>6 DEF Closes, PeerCloses, PeerAborts, SocketBecomes, vars, process, IInv, TypeOK
<1>7. ASSUME NEW c \in Clients, ssl_block_connect(c) PROVE Goal
  BY <1>2, <1>7 DEF ssl_block_connect, ssl_block_accept, IInv, TypeOK
<1>8. ASSUME NEW c \in Clients, ClientStep(c) PROVE Goal
  <2>1. CASE WithoutServer(takes_line(c)) \/ WithoutServer(cmdc_execute_server_command(c))
    BY <1>2, <2>1 DEF WithoutServer, takes_line, cmdc_execute_server_command, vars, process, network
  <2>2. CASE ssl_block_write_request(c)
    BY <1>2, <2>2 DEF ssl_block_write_request, Wrote, PeerSends, vars, process
  <2>3. CASE WritesInVain(c) \/ LosesServer(c)
    BY <1>2, <2>3 DEF WritesInVain, LosesServer, WithoutServer, Wrote, vars, process, network
  <2>4. CASE cmdc_exit_close(c)
    BY <1>6, <2>4 DEF cmdc_exit_close
  <2> QED
    BY <1>8, <2>1, <2>2, <2>3, <2>4 DEF ClientStep, WithoutServer
<1>9. ASSUME NEW c \in Clients, UserStep(c) PROVE Goal
  <2>1. CASE \E text \in Lines[c] : WithoutServer(user_types(c, text))
    BY <1>4, <2>1 DEF WithoutServer, user_types, vars, process, network
  <2>2. CASE do_server_connection(c)
    BY <1>2, <2>2 DEF do_server_connection, Connect, process, network
  <2>3. CASE ctrl_c_handler(c)
    BY <1>6, <2>3 DEF ctrl_c_handler
  <2> QED
    BY <1>9, <2>1, <2>2, <2>3 DEF UserStep
<1> QED
  BY <1>3, <1>5, <1>7, <1>8, <1>9 DEF ChatNext

-----------------------------------------------------------------------------
(* The requests that are on their way to the server.                       *)

(* They were written for lines that come after the one served last, in the *)
(* order of these lines.                                                   *)
UnderWay(lines, written, requests, places, last) ==
  /\ \A k \in 1 .. Len(requests) :
       /\ places[k] \in last + 1 .. written
       /\ requests[k] # <<>> /\ requests[k] \in Commands!RequestsOf(lines[places[k]])
  /\ \A j, k \in 1 .. Len(requests) : j < k => places[j] < places[k]

(* They stay so when more is typed and written.                            *)
LEMMA UnderWayKept ==
  ASSUME NEW lines, NEW longer, Extends(lines, longer), NEW written \in Nat, NEW more \in Nat,
         written <= Len(lines), written <= more, Len(lines) \in Nat,
         NEW last \in Nat, NEW requests, NEW places, UnderWay(lines, written, requests, places, last)
  PROVE  UnderWay(longer, more, requests, places, last)
<1>1. ASSUME NEW k \in 1 .. Len(requests)
      PROVE  /\ places[k] \in last + 1 .. more
             /\ requests[k] # <<>> /\ requests[k] \in Commands!RequestsOf(longer[places[k]])
  <2>1. /\ places[k] \in last + 1 .. written
        /\ requests[k] # <<>> /\ requests[k] \in Commands!RequestsOf(lines[places[k]])
    BY DEF UnderWay
  <2>2. places[k] \in last + 1 .. more /\ places[k] \in 1 .. Len(lines)
    BY <2>1
  <2>3. longer[places[k]] = lines[places[k]]
    BY <2>2 DEF Extends
  <2> QED
    BY <2>1, <2>2, <2>3
<1> QED
  BY <1>1 DEF UnderWay

(* The first one is read.                                                  *)
LEMMA UnderWayRead ==
  ASSUME NEW lines, NEW written \in Nat, NEW last \in Nat, NEW requests, IsSequence(requests),
         requests # <<>>, NEW places, UnderWay(lines, written, requests, places, last)
  PROVE  /\ places[1] \in last + 1 .. written
         /\ Head(requests) # <<>> /\ Head(requests) \in Commands!RequestsOf(lines[places[1]])
         /\ UnderWay(lines, written, Tail(requests), [k \in Nat |-> places[k + 1]], places[1])
<1> DEFINE rest == Tail(requests)
           later == [k \in Nat |-> places[k + 1]]
<1>1. /\ Len(requests) \in Nat /\ Len(requests) >= 1 /\ Len(rest) = Len(requests) - 1
      /\ \A k \in 1 .. Len(rest) : rest[k] = requests[k + 1]
      /\ Head(requests) = requests[1]
  BY DEF IsSequence
<1> HIDE DEF rest
<1>2. \A k \in 1 .. Len(rest) : later[k] = places[k + 1]
  BY <1>1
<1> HIDE DEF later
<1>3. 1 \in 1 .. Len(requests)
  BY <1>1
<1>4. places[1] \in last + 1 .. written
  BY <1>3 DEF UnderWay
<1>5. ASSUME NEW k \in 1 .. Len(rest)
      PROVE  /\ later[k] \in places[1] + 1 .. written
             /\ rest[k] # <<>> /\ rest[k] \in Commands!RequestsOf(lines[later[k]])
  <2>1. k + 1 \in 1 .. Len(requests) /\ 1 < k + 1
    BY <1>1
  <2>2. places[1] < places[k + 1] /\ places[k + 1] \in last + 1 .. written
    BY <1>3, <2>1 DEF UnderWay
  <2>3. requests[k + 1] # <<>> /\ requests[k + 1] \in Commands!RequestsOf(lines[places[k + 1]])
    BY <2>1 DEF UnderWay
  <2> QED
    BY <1>1, <1>2, <1>4, <2>2, <2>3
<1>6. ASSUME NEW j \in 1 .. Len(rest), NEW k \in 1 .. Len(rest), j < k PROVE later[j] < later[k]
  <2>1. j + 1 \in 1 .. Len(requests) /\ k + 1 \in 1 .. Len(requests) /\ j + 1 < k + 1
    BY <1>1, <1>6
  <2>2. places[j + 1] < places[k + 1]
    BY <2>1 DEF UnderWay
  <2> QED
    BY <1>2, <2>2
<1>7. UnderWay(lines, written, rest, later, places[1])
  BY <1>5, <1>6 DEF UnderWay
<1>8. Head(requests) # <<>> /\ Head(requests) \in Commands!RequestsOf(lines[places[1]])
  BY <1>1, <1>3 DEF UnderWay
<1> QED
  BY <1>4, <1>7, <1>8 DEF rest, later

(* One more is written, for the line after those that were.                *)
LEMMA UnderWayWritten ==
  ASSUME NEW lines, NEW written \in Nat, NEW last \in Nat, last <= written,
         NEW requests, IsSequence(requests), NEW places, UnderWay(lines, written, requests, places, last),
         NEW request, request # <<>>, request \in Commands!RequestsOf(lines[written + 1])
  PROVE  \E later : UnderWay(lines, written + 1, Append(requests, request), later, last)
<1> DEFINE more == Append(requests, request)
           n == Len(requests)
           later == [k \in Nat |-> IF k = n + 1 THEN written + 1 ELSE places[k]]
<1>1. /\ n \in Nat /\ Len(more) = n + 1
      /\ \A k \in 1 .. n : more[k] = requests[k]
      /\ more[n + 1] = request
  <2>1. PICK S : requests \in Seq(S)
    BY DEF IsSequence
  <2>2. requests \in Seq(S \cup {request})
    BY <2>1
  <2> QED
    BY <2>2
<1>2. \A k \in 1 .. n : later[k] = places[k]
  BY <1>1
<1>3. later[n + 1] = written + 1
  BY <1>1
<1>4. \A k \in 1 .. n : /\ places[k] \in last + 1 .. written
                        /\ requests[k] # <<>> /\ requests[k] \in Commands!RequestsOf(lines[places[k]])
  BY DEF UnderWay
<1>5. \A j, k \in 1 .. n : j < k => places[j] < places[k]
  BY DEF UnderWay
<1> HIDE DEF more, n, later
<1>6. ASSUME NEW k \in 1 .. Len(more)
      PROVE  /\ later[k] \in last + 1 .. written + 1
             /\ more[k] # <<>> /\ more[k] \in Commands!RequestsOf(lines[later[k]])
  <2>1. CASE k \in 1 .. n
    <3>1. \A i \in last + 1 .. written : i \in last + 1 .. written + 1
      OBVIOUS
    <3> QED
      BY <1>1, <1>2, <1>4, <2>1, <3>1
  <2>2. CASE k = n + 1
    <3>1. written + 1 \in last + 1 .. written + 1
      OBVIOUS
    <3> QED
      BY <1>1, <1>3, <2>2, <3>1
  <2> QED
    BY <1>1, <2>1, <2>2
<1>7. ASSUME NEW j \in 1 .. Len(more), NEW k \in 1 .. Len(more), j < k PROVE later[j] < later[k]
  <2>1. j \in 1 .. n
    BY <1>1, <1>7
  <2>2. CASE k \in 1 .. n
    BY <1>2, <1>5, <1>7, <2>1, <2>2
  <2>3. CASE k = n + 1
    BY <1>2, <1>3, <1>4, <2>1, <2>3
  <2> QED
    BY <1>1, <2>2, <2>3
<1>8. UnderWay(lines, written + 1, more, later, last)
  BY <1>6, <1>7 DEF UnderWay
<1> QED
  BY <1>8 DEF more

(* How far the lines of each client are served.                            *)
Served(spent) ==
  spent \in [Clients -> Nat] /\ \A c \in Clients : spent[c] <= LinesWritten(c)

Wires(own, spent) ==
  \A fd \in Fds : sock[fd] # "free" =>
    \E places : UnderWay(said[own[fd]], LinesWritten(own[fd]), wire[fd], places, spent[own[fd]])

SameOwners(own, later) == \A fd \in Fds : sock[fd] # "free" => later[fd] = own[fd]

(* The step reads the request of another line of its client, or none.      *)
Serves(own, spent, now) ==
  IF ReadsRecord
  THEN /\ cur_fd' \in Fds /\ sock[cur_fd'] # "free"
       /\ \A c \in Clients : c # own[cur_fd'] => now[c] = spent[c]
       /\ spent[own[cur_fd']] < now[own[cur_fd']]
       /\ now[own[cur_fd']] \in 1 .. Len(said[own[cur_fd']])
       /\ IsWritten(message', said[own[cur_fd']][now[own[cur_fd']]])
  ELSE now = spent

(* Only the server reads, and only it frees and takes sockets; only a      *)
(* client writes.                                                          *)
LEMMA OutsideWires ==
  ASSUME TypeOK, ChatNext, ~ ServerStep
  PROVE  /\ ~ ReadsRecord
         /\ \A fd \in Fds : sock'[fd] # "free" => sock[fd] # "free"
         /\ wire' = wire \/ \E c \in Clients : ssl_block_write_request(c)
<1> DEFINE Goal == /\ ~ ReadsRecord
                   /\ \A fd \in Fds : sock'[fd] # "free" => sock[fd] # "free"
                   /\ wire' = wire \/ \E c \in Clients : ssl_block_write_request(c)
<1>1. ASSUME NEW c \in Clients, Closes(c) PROVE Goal
  BY <1>1 DEF Closes, PeerCloses, PeerAborts, SocketBecomes, vars, process, ReadsRecord, TypeOK
<1>2. ASSUME NEW c \in Clients, ssl_block_write_request(c) PROVE Goal
  BY <1>2 DEF ssl_block_write_request, PeerSends, vars, process, ReadsRecord
<1>3. ASSUME NEW c \in Clients, ClientStep(c) PROVE Goal
  BY <1>1, <1>2, <1>3 DEF ClientStep, WithoutServer, WritesInVain, cmdc_exit_close, LosesServer, vars,
     process, network, ReadsRecord
<1>4. ASSUME NEW c \in Clients, UserStep(c) PROVE Goal
  BY <1>1, <1>4 DEF UserStep, WithoutServer, do_server_connection, ctrl_c_handler, Connect, vars,
     process, network, ReadsRecord
<1>5. ASSUME NEW c \in Clients, ssl_block_connect(c) PROVE Goal
  BY <1>5 DEF ssl_block_connect, ssl_block_accept, ReadsRecord, TypeOK
<1>6. CASE RstStep
  BY <1>6 DEF RstStep, RstArrives, SocketBecomes, network, ReadsRecord, TypeOK
<1>7. CASE OperatorStep
  BY <1>7 DEF OperatorStep, OperatorQuits, SelectWith, network, ReadsRecord
<1> QED
  BY <1>3, <1>4, <1>5, <1>6, <1>7 DEF ChatNext

(* What the server reads is the next request of a client, and the lines of *)
(* the client are served in order.                                         *)
LEMMA WiresRead ==
  ASSUME EofReads = {-1}, IInv, RecordsInv, ClientTypes, LineIsLast, NEW own, Owners(own),
         NEW later, Owners(later)', SameOwners(own, later), NEW spent, Served(spent), Wires(own, spent),
         ServerStep
  PROVE  \E now : Served(now)' /\ Wires(later, now)' /\ Serves(own, spent, now)
<1>1. /\ said' = said /\ line' = line /\ Loop
      /\ wire' = [fd \in Fds |-> IF sock'[fd] = "free" THEN <<>>
                                 ELSE IF ReadsRecord /\ fd = cur_fd' THEN Tail(wire[fd])
                                 ELSE wire[fd]]
      /\ ReadsRecord => message' = MessageOf(Head(wire[cur_fd']))
  BY DEF ServerStep, TakesRequest
<1>2. \A c \in Clients : said'[c] = said[c] /\ LinesWritten(c)' = LinesWritten(c)
  BY <1>1 DEF LinesWritten
<1>3. ASSUME NEW c \in Clients PROVE LinesWritten(c) \in Nat /\ LinesWritten(c) <= Len(said[c])
  BY LinesWrittenFacts
<1>4. ASSUME NEW fd \in Fds, sock[fd] = "free", NEW lines, NEW written, NEW places, NEW last
      PROVE  UnderWay(lines, written, wire[fd], places, last)
  <2>1. Len(wire[fd]) = 0
    BY <1>4 DEF RecordsInv
  <2>2. 1 .. Len(wire[fd]) = {}
    BY <2>1
  <2> QED
    BY <2>2 DEF UnderWay
<1>5. CASE ~ ReadsRecord
  <2>1. Served(spent)'
    BY <1>2 DEF Served
  <2>2. ASSUME NEW fd \in Fds, sock'[fd] # "free"
        PROVE  \E places : UnderWay(said'[later[fd]], LinesWritten(later[fd])', wire'[fd], places, spent[later[fd]])
    <3>1. wire'[fd] = wire[fd] /\ later[fd] \in Clients
      BY <1>1, <1>5, <2>2 DEF Owners
    <3>2. \E places : UnderWay(said[later[fd]], LinesWritten(later[fd]), wire[fd], places, spent[later[fd]])
      BY <1>4 DEF Wires, SameOwners
    <3> QED
      BY <1>2, <3>1, <3>2
  <2>3. Wires(later, spent)'
    BY <2>2 DEF Wires
  <2> QED
    BY <1>5, <2>1, <2>3 DEF Serves
<1>6. CASE ReadsRecord
  <2>1. PICK f \in Fds : Capture(f)
    BY <1>1, <1>6, ReadIsCapture
  <2>2. cur_fd' = f /\ sock' = sock /\ pending[f] > 0 /\ sock[f] # "free"
    <3>1. cur_fd' = f /\ sock' = sock /\ pending[f] > 0
      BY <2>1 DEF Capture
    <3>2. sock[f] # "free"
      BY <3>1 DEF RecordsInv
    <3> QED
      BY <3>1, <3>2
  <2>3. IsSequence(wire[f]) /\ wire[f] # <<>>
    <3>1. wire[f] \in Seq(Writable) /\ Len(wire[f]) # 0
      BY <2>2 DEF RecordsInv, IInv, TypeOK
    <3> QED
      BY <3>1 DEF IsSequence
  <2> DEFINE c == own[f]
  <2>4. c \in Clients /\ spent[c] \in Nat
    BY DEF Owners, Served
  <2>5. PICK places : UnderWay(said[c], LinesWritten(c), wire[f], places, spent[c])
    BY <2>2 DEF Wires
  <2>6. /\ places[1] \in spent[c] + 1 .. LinesWritten(c)
        /\ Head(wire[f]) # <<>> /\ Head(wire[f]) \in Commands!RequestsOf(said[c][places[1]])
        /\ UnderWay(said[c], LinesWritten(c), Tail(wire[f]), [k \in Nat |-> places[k + 1]], places[1])
    BY <1>3, <2>3, <2>4, <2>5, UnderWayRead
  <2> DEFINE now == [spent EXCEPT ![c] = places[1]]
  <2>7. /\ now[c] = places[1] /\ \A d \in Clients : d # c => now[d] = spent[d]
        /\ now[c] \in Nat /\ spent[c] < now[c] /\ now[c] <= LinesWritten(c)
        /\ now[c] \in 1 .. Len(said[c])
    <3>1. now[c] = places[1] /\ \A d \in Clients : d # c => now[d] = spent[d]
      BY <2>4 DEF Served
    <3>2. LinesWritten(c) \in Nat /\ LinesWritten(c) <= Len(said[c]) /\ Len(said[c]) \in Nat
      BY <2>4, LinesWrittenFacts
    <3>3. places[1] \in Nat /\ spent[c] < places[1] /\ places[1] <= LinesWritten(c)
      <4>1. places[1] \in spent[c] + 1 .. LinesWritten(c)
        BY <2>6
      <4>2. \A m, n \in Nat : \A i \in m + 1 .. n : i \in Nat /\ m < i /\ i <= n
        OBVIOUS
      <4> QED
        BY <2>4, <3>2, <4>1, <4>2, Zenon
    <3>4. places[1] \in 1 .. Len(said[c])
      BY <2>4, <3>2, <3>3
    <3> HIDE DEF now
    <3> QED
      BY <3>1, <3>3, <3>4
  <2>8. now \in [Clients -> Nat]
    BY <2>4, <2>7 DEF Served
  <2> HIDE DEF now
  <2>9. Served(now)'
    BY <1>2, <2>7, <2>8 DEF Served
  <2>10. Serves(own, spent, now)
    <3>1. IsWritten(message', said[c][now[c]])
      BY <1>1, <1>6, <2>2, <2>6, <2>7 DEF IsWritten
    <3> QED
      BY <1>6, <2>2, <2>7, <3>1 DEF Serves
  <2>11. ASSUME NEW fd \in Fds, sock'[fd] # "free"
         PROVE  \E p : UnderWay(said'[later[fd]], LinesWritten(later[fd])', wire'[fd], p, now[later[fd]])
    <3>1. sock[fd] # "free" /\ later[fd] = own[fd] /\ own[fd] \in Clients
      BY <2>2, <2>11 DEF SameOwners, Owners
    <3>2. CASE fd = f
      <4>1. wire'[fd] = Tail(wire[f])
        BY <1>1, <1>6, <2>2, <2>11, <3>2
      <4> QED
        BY <1>2, <2>6, <2>7, <3>1, <3>2, <4>1
    <3>3. CASE fd # f
      <4>1. wire'[fd] = wire[fd]
        BY <1>1, <2>2, <2>11, <3>3
      <4>2. own[fd] # c
        BY <2>2, <3>1, <3>3 DEF Owners
      <4>3. \E p : UnderWay(said[own[fd]], LinesWritten(own[fd]), wire[fd], p, spent[own[fd]])
        BY <3>1 DEF Wires
      <4> QED
        BY <1>2, <2>7, <3>1, <4>1, <4>2, <4>3
    <3> QED
      BY <3>2, <3>3
  <2>12. Wires(later, now)'
    BY <2>11 DEF Wires
  <2> QED
    BY <2>9, <2>10, <2>12
<1> QED
  BY <1>5, <1>6

(* What a client writes is for the line after those it has written for.    *)
LEMMA WiresWritten ==
  ASSUME IInv, ConnInv, RecordsInv, ClientTypes, LineIsLast, LineIsLast', SaidGrows,
         NEW own, Owners(own), NEW later, Owners(later)', SameOwners(own, later),
         NEW spent, Served(spent), Wires(own, spent), ChatNext, ~ ServerStep
  PROVE  Served(spent)' /\ Wires(later, spent)' /\ Serves(own, spent, spent)
<1>1. /\ ~ ReadsRecord
      /\ \A fd \in Fds : sock'[fd] # "free" => sock[fd] # "free"
      /\ wire' = wire \/ \E c \in Clients : ssl_block_write_request(c)
  BY OutsideWires DEF IInv
<1>2. \A c \in Clients : LinesWritten(c) \in Nat /\ LinesWritten(c) <= Len(said[c]) /\ Len(said[c]) \in Nat
  BY LinesWrittenFacts
<1>3. ASSUME NEW c \in Clients PROVE LinesWritten(c)' \in Nat
  <2>1. (LineIsLast /\ c \in Clients => LinesWritten(c) \in Nat)'
    BY LinesWrittenFacts, PTL
  <2> QED
    BY <2>1
<1>4. Served(spent)'
  <2>1. ASSUME NEW c \in Clients PROVE spent[c] <= LinesWritten(c)'
    <3>1. spent[c] \in Nat /\ spent[c] <= LinesWritten(c) /\ LinesWritten(c) <= LinesWritten(c)'
      BY DEF Served, SaidGrows
    <3> QED
      BY <1>2, <1>3, <3>1
  <2> QED
    BY <2>1 DEF Served
<1>5. ASSUME NEW fd \in Fds, sock[fd] # "free"
      PROVE  \E places : UnderWay(said'[own[fd]], LinesWritten(own[fd])', wire[fd], places, spent[own[fd]])
  <2> DEFINE c == own[fd]
  <2>1. c \in Clients /\ spent[c] \in Nat
    BY DEF Owners, Served
  <2>2. PICK places : UnderWay(said[c], LinesWritten(c), wire[fd], places, spent[c])
    BY <1>5 DEF Wires
  <2>3. Extends(said[c], said'[c]) /\ LinesWritten(c) <= LinesWritten(c)'
    BY <2>1 DEF SaidGrows
  <2>4. LinesWritten(c)' \in Nat
    BY <1>3, <2>1
  <2> HIDE DEF c
  <2>5. UnderWay(said'[c], LinesWritten(c)', wire[fd], places, spent[c])
    BY <1>2, <2>1, <2>2, <2>3, <2>4, UnderWayKept
  <2> QED
    BY <2>5 DEF c
<1>6. ASSUME NEW fd \in Fds, sock'[fd] # "free", wire'[fd] = wire[fd]
      PROVE  \E places : UnderWay(said'[later[fd]], LinesWritten(later[fd])', wire'[fd], places, spent[later[fd]])
  <2>1. sock[fd] # "free" /\ later[fd] = own[fd]
    BY <1>1, <1>6 DEF SameOwners
  <2> QED
    BY <1>5, <1>6, <2>1
<1>7. CASE wire' = wire
  <2>1. Wires(later, spent)'
    BY <1>6, <1>7 DEF Wires
  <2> QED
    BY <1>1, <1>4, <2>1 DEF Serves
<1>8. ASSUME NEW c \in Clients, ssl_block_write_request(c), wire' # wire PROVE Wires(later, spent)'
  <2>1. PICK f \in Fds : f = conn[c]
    BY <1>8 DEF ssl_block_write_request, ConnInv, ConnTypes
  <2>2. PICK request \in Commands!RequestsOf(line[c]) :
          /\ request # <<>> /\ place[c] = "input" /\ said' = said /\ line' = [line EXCEPT ![c] = NULL]
          /\ PeerSends(f) /\ wire' = [wire EXCEPT ![f] = Append(@, request)]
    BY <1>8, <2>1 DEF ssl_block_write_request, Wrote
  <2>3. /\ wire'[f] = Append(wire[f], request) /\ IsSequence(wire[f])
        /\ \A fd \in Fds : fd # f => wire'[fd] = wire[fd]
    BY <2>2 DEF RecordsInv, IsSequence
  <2>4. own[f] = c /\ sock[f] # "free"
    <3>1. f # -1
      BY FdFacts
    <3> QED
      BY <2>1, <3>1 DEF Owners, ConnInv
  <2>5. line[c] # NULL /\ said[c][Len(said[c])] = line[c] /\ LinesWritten(c) + 1 = Len(said[c])
    BY <2>2, LinesWrittenFacts DEF LineIsLast
  <2>6. LinesWritten(c)' = LinesWritten(c) + 1
    <3>1. line'[c] = NULL
      BY <2>2 DEF RecordsInv
    <3>2. LinesWritten(c)' = Len(said[c]) - 0
      BY <2>2, <3>1 DEF LinesWritten
    <3>3. Len(said[c]) \in Nat
      BY <1>2
    <3> QED
      BY <2>5, <3>2, <3>3
  <2>7. PICK places : UnderWay(said[c], LinesWritten(c), wire[f], places, spent[c])
    BY <2>4 DEF Wires
  <2>8. request \in Commands!RequestsOf(said[c][LinesWritten(c) + 1])
    BY <2>2, <2>5
  <2>9. spent[c] \in Nat /\ spent[c] <= LinesWritten(c)
    BY DEF Served
  <2>10. \E p : UnderWay(said[c], LinesWritten(c) + 1, Append(wire[f], request), p, spent[c])
    BY <1>2, <2>2, <2>3, <2>7, <2>8, <2>9, UnderWayWritten
  <2>11. later[f] = c
    BY <2>4 DEF SameOwners
  <2>12. \E p : UnderWay(said'[later[f]], LinesWritten(later[f])', wire'[f], p, spent[later[f]])
    BY <2>2, <2>3, <2>6, <2>10, <2>11
  <2>13. ASSUME NEW fd \in Fds, sock'[fd] # "free"
         PROVE  \E p : UnderWay(said'[later[fd]], LinesWritten(later[fd])', wire'[fd], p, spent[later[fd]])
    BY <1>6, <2>3, <2>12, <2>13
  <2> QED
    BY <2>13 DEF Wires
<1> QED
  BY <1>1, <1>4, <1>7, <1>8 DEF Serves

-----------------------------------------------------------------------------
(* The request that is served, and the sessions that came of those before. *)

(* It was written for the line of its client that is served last.          *)
InHand(own, spent) ==
  pc \in Serving /\ message # NULL =>
    /\ spent[own[cur_fd]] \in 1 .. Len(said[own[cur_fd]])
    /\ IsWritten(message, said[own[cur_fd]][spent[own[cur_fd]]])
    /\ pc = "chain" => message.route = "REGISTER"

(* The message in hand is of the line that was read last of its client.    *)
LEMMA InHandStep ==
  ASSUME EofReads = {-1}, IInv, [Next]_vars, LineIsLast, LineIsLast', SaidGrows,
         NEW own, Owners(own), NEW later, SameOwners(own, later),
         NEW spent, NEW now, Serves(own, spent, now), InHand(own, spent)
  PROVE  InHand(later, now)'
<1> SUFFICES ASSUME pc' \in Serving, message' # NULL
             PROVE  /\ now[later[cur_fd']] \in 1 .. Len(said'[later[cur_fd']])
                    /\ IsWritten(message', said'[later[cur_fd']][now[later[cur_fd']]])
                    /\ pc' = "chain" => message'.route = "REGISTER"
  BY DEF InHand
<1>1. ASSUME NEW c \in Clients, NEW i \in 1 .. Len(said[c])
      PROVE  i \in 1 .. Len(said'[c]) /\ said'[c][i] = said[c][i]
  <2>1. /\ Len(said[c]) \in Nat /\ Len(said'[c]) \in Nat
        /\ Len(said[c]) <= Len(said'[c]) /\ said'[c][i] = said[c][i]
    BY DEF SaidGrows, Extends, LineIsLast
  <2> QED
    BY <2>1
<1>2. CASE \E fd \in Fds : Capture(fd)
  <2>1. PICK fd \in Fds : Capture(fd)
    BY <1>2
  <2>2. ReadsRecord /\ pc' = "health" /\ cur_fd' = fd
    BY <2>1 DEF Capture, IsNext, ReadsRecord
  <2> DEFINE c == own[fd]
  <2>3. /\ sock[fd] # "free" /\ now[c] \in 1 .. Len(said[c]) /\ IsWritten(message', said[c][now[c]])
    BY <2>2 DEF Serves
  <2>4. c \in Clients /\ later[fd] = c
    BY <2>3 DEF Owners, SameOwners
  <2> HIDE DEF c
  <2> QED
    BY <1>1, <2>2, <2>3, <2>4
<1>3. CASE /\ pc \in Serving /\ message' = message /\ cur_fd' = cur_fd
           /\ pc' = "chain" => pc = "chain" \/ Executes("REGISTER")
  <2> DEFINE c == own[cur_fd]
  <2>1. now = spent
    BY <1>3 DEF Serves, ReadsRecord, Serving
  <2>2. cur_fd \in Fds /\ sock[cur_fd] # "free"
    BY <1>3, ServedLoc, FdFacts DEF IInv, TableMatchesSockets
  <2>3. c \in Clients /\ later[cur_fd] = c
    BY <2>2 DEF Owners, SameOwners
  <2>4. /\ spent[c] \in 1 .. Len(said[c]) /\ IsWritten(message, said[c][spent[c]])
        /\ pc = "chain" => message.route = "REGISTER"
    BY <1>3 DEF InHand
  <2> HIDE DEF c
  <2>5. pc' = "chain" => message'.route = "REGISTER"
    BY <1>3, <2>4 DEF Executes
  <2> QED
    BY <1>1, <1>3, <2>1, <2>3, <2>4, <2>5
<1>4. CASE UNCHANGED vars
  <2>1. pc \in Serving /\ UNCHANGED <<pc, message, cur_fd>>
    BY <1>4 DEF vars, process
  <2> QED
    BY <1>3, <2>1
<1> QED
  BY <1>2, <1>3, <1>4, HandChanges

(* Asking, of the lines of a client.                                       *)
AskingIn(lines, name) ==
  {i \in 1 .. Len(lines) :
     Len(lines[i]) = 5 /\ lines[i][3] = name /\ lines[i][1] \in {"/login", "/register"}}

(* What was asked for stays asked for.                                     *)
LEMMA AskingGrows ==
  ASSUME LineIsLast, LineIsLast', SaidGrows, NEW c \in Clients, NEW name,
         NEW j \in AskingIn(said[c], name)
  PROVE  j \in AskingIn(said'[c], name) /\ j \in 1 .. Len(said[c])
<1>1. j \in 1 .. Len(said[c]) /\ Len(said[c]) \in Nat /\ Len(said'[c]) \in Nat
  BY DEF AskingIn, LineIsLast
<1>2. j \in 1 .. Len(said'[c]) /\ said'[c][j] = said[c][j]
  <2>1. Len(said[c]) <= Len(said'[c]) /\ said'[c][j] = said[c][j]
    BY <1>1 DEF SaidGrows, Extends
  <2> QED
    BY <1>1, <2>1
<1> QED
  BY <1>1, <1>2 DEF AskingIn

(* Who has a session has asked for it in a line that is served.            *)
Askers(own, spent) ==
  \A fd \in Fds : sock[fd] # "free" /\ Session(fd) # NoUser =>
    \E j \in AskingIn(said[own[fd]], Session(fd)) : j <= spent[own[fd]]

(* The login is in the line that is being served.                          *)
LEMMA LoginIsAsked ==
  ASSUME LinesAreWords, IInv, LineIsLast, NEW own, Owners(own), NEW spent, InHand(own, spent),
         cmdh_login, NEW i \in Slots, child_fd[i] = cur_fd,
         active_users'[i] # active_users[i], active_users'[i] # NoUser
  PROVE  spent[own[cur_fd]] \in AskingIn(said[own[cur_fd]], message.name)
<1> DEFINE c == own[cur_fd]
<1>1. message.argc = 3
  <2>1. ASSUME NEW W, NEW frame, NEW at, Send(W, frame, active_users, at) PROVE FALSE
    BY <2>1 DEF Send, ProcessGone, NoSessions
  <2>2. ~ Silent /\ \A text : ~ Reply(text)
    BY <2>1 DEF Silent, Reply
  <2> QED
    BY <2>2 DEF cmdh_login
<1>2. /\ pc \in Serving /\ message # NULL
      /\ message.route = "LOGIN" \/ pc = "chain"
  BY DEF cmdh_login, Executes, Serving, IInv, PlaceKnows
<1>3. /\ spent[c] \in 1 .. Len(said[c]) /\ IsWritten(message, said[c][spent[c]])
      /\ message.route \in {"LOGIN", "REGISTER"}
  BY <1>2 DEF InHand
<1>4. said[c][spent[c]] \in Phrases
  <2>1. c \in Clients
    BY <1>2, ServedLoc DEF Owners
  <2>2. said[c] \in Seq(Phrases)
    BY <2>1 DEF LineIsLast
  <2> QED
    BY <1>3, <2>2
<1> HIDE DEF c
<1>5. /\ Len(said[c][spent[c]]) = 5 /\ said[c][spent[c]][3] = message.name
      /\ said[c][spent[c]][1] \in {"/login", "/register"}
  BY <1>1, <1>3, <1>4, LineSays
<1>6. spent[c] \in AskingIn(said[c], message.name)
  BY <1>3, <1>5 DEF AskingIn
<1> QED
  BY <1>6 DEF c

(* Who has a session in the next state has asked for it, too.              *)
LEMMA AskersStep ==
  ASSUME EofReads = {-1}, LinesAreWords, IInv, IInv', [Next]_vars, LineIsLast, LineIsLast', SaidGrows,
         NEW own, Owners(own), NEW later, SameOwners(own, later), NEW spent, Served(spent),
         NEW now, Served(now)', Serves(own, spent, now), InHand(own, spent), Askers(own, spent)
  PROVE  Askers(later, now)'
<1> SUFFICES ASSUME NEW fd \in Fds, sock'[fd] # "free", Session(fd)' # NoUser
             PROVE  \E j \in AskingIn(said'[later[fd]], Session(fd)') : j <= now[later[fd]]
  BY DEF Askers
<1>1. PICK i \in Slots : child_fd'[i] = fd /\ Session(fd)' = active_users'[i]
  BY SessionsMatchNext, FdFacts DEF SessionsMatch
<1>2. /\ child_fd[i] = fd
      /\ \/ active_users'[i] = active_users[i]
         \/ cmdh_login /\ fd = cur_fd /\ active_users'[i] = message.name
  <2>1. CASE Next
    BY <1>1, <2>1, SessionChanges
  <2>2. CASE UNCHANGED vars
    BY <1>1, <2>2 DEF vars, process
  <2> QED
    BY <2>1, <2>2
<1>3. sock[fd] # "free" /\ Session(fd) = active_users[i]
  BY <1>2, SessionsMatchInv, FdFacts DEF SessionsMatch
<1> DEFINE c == own[fd]
<1>4. c \in Clients /\ later[fd] = c /\ spent[c] \in Nat /\ now[c] \in Nat
  BY <1>3 DEF Owners, SameOwners, Served
<1>5. spent[c] <= now[c]
  BY <1>4 DEF Serves
<1>6. PICK name : name = Session(fd)'
  OBVIOUS
<1>7. PICK j \in AskingIn(said[c], name) : j <= spent[c]
  <2>1. CASE active_users'[i] = active_users[i]
    BY <1>1, <1>3, <1>6, <2>1 DEF Askers
  <2>2. CASE active_users'[i] # active_users[i]
    <3>1. spent[own[cur_fd]] \in AskingIn(said[own[cur_fd]], message.name)
      BY <1>1, <1>2, <2>2, LoginIsAsked
    <3>2. spent[c] \in AskingIn(said[c], name)
      BY <1>1, <1>2, <1>6, <2>2, <3>1
    <3> QED
      BY <1>4, <3>2
  <2> QED
    BY <2>1, <2>2
<1> HIDE DEF c
<1>8. j \in AskingIn(said'[c], name) /\ j \in 1 .. Len(said[c])
  BY <1>4, <1>7, AskingGrows
<1>9. Len(said[c]) \in Nat
  BY <1>4 DEF LineIsLast
<1>10. j \in Nat
  BY <1>8, <1>9
<1>11. j <= now[c]
  BY <1>4, <1>5, <1>7, <1>10
<1> QED
  BY <1>4, <1>6, <1>8, <1>11

-----------------------------------------------------------------------------
(* The whole trace of the lines that are typed.                            *)

Traced(own, spent) ==
  /\ Owners(own) /\ Served(spent) /\ Wires(own, spent) /\ InHand(own, spent) /\ Askers(own, spent)

(* It is kept: connections keep their owners, and what is served grows.    *)
LEMMA TraceStep ==
  ASSUME EofReads = {-1}, LinesAreWords, ServerInv, ServerInv', ConnInv, ConnInv', RecordsInv, ClientInv,
         [Next]_vars, ChatNext, LineIsLast, LineIsLast', SaidGrows,
         NEW own, NEW spent, Traced(own, spent)
  PROVE  \E later, now : /\ Traced(later, now)' /\ SameOwners(own, later) /\ Serves(own, spent, now)
                         /\ Owners(later)' /\ Served(now)'
<1>1. IInv /\ IInv' /\ OneHandshake /\ LineTypes /\ ClientTypes /\ PlacesMatch
  BY DEF ServerInv, ClientInv
<1>2. Owners(own) /\ Served(spent) /\ Wires(own, spent) /\ InHand(own, spent) /\ Askers(own, spent)
  BY DEF Traced
<1>3. PICK later : Owners(later)' /\ SameOwners(own, later)
  BY <1>1, <1>2, OwnersStep DEF SameOwners
<1>4. PICK now : Served(now)' /\ Wires(later, now)' /\ Serves(own, spent, now)
  <2>1. CASE ServerStep
    BY <1>1, <1>2, <1>3, <2>1, WiresRead
  <2>2. CASE ~ ServerStep
    BY <1>1, <1>2, <1>3, <2>2, WiresWritten
  <2> QED
    BY <2>1, <2>2
<1>5. InHand(later, now)'
  BY <1>1, <1>2, <1>3, <1>4, InHandStep
<1>6. Askers(later, now)'
  BY <1>1, <1>2, <1>3, <1>4, AskersStep
<1> QED
  BY <1>3, <1>4, <1>5, <1>6 DEF Traced

(* So it is where nothing changes.                                         *)
LEMMA TraceStutter ==
  ASSUME UNCHANGED all, NEW own, NEW spent, Traced(own, spent)
  PROVE  Traced(own, spent)'
<1>1. /\ place' = place /\ line' = line /\ said' = said /\ conn' = conn /\ wire' = wire /\ sock' = sock
      /\ pc' = pc /\ message' = message /\ cur_fd' = cur_fd
      /\ child_fd' = child_fd /\ active_users' = active_users
  BY DEF all, vars, process, client, network
<1>2. (\A c \in Clients : LinesWritten(c)' = LinesWritten(c)) /\ (\A fd \in Fds : Session(fd)' = Session(fd))
  BY <1>1 DEF LinesWritten, Session, ss_get_fd_loc, IsFirst
<1>3. Owners(own) /\ Served(spent) /\ Wires(own, spent) /\ InHand(own, spent) /\ Askers(own, spent)
  BY DEF Traced
<1>4. Owners(own)' /\ Served(spent)'
  BY <1>1, <1>2, <1>3 DEF Owners, Served
<1>5. Wires(own, spent)'
  <2> SUFFICES ASSUME NEW fd \in Fds, sock'[fd] # "free"
               PROVE  \E places : UnderWay(said'[own[fd]], LinesWritten(own[fd])', wire'[fd], places,
                                           spent[own[fd]])
    BY DEF Wires
  <2>1. LinesWritten(own[fd])' = LinesWritten(own[fd])
    BY <1>2, <1>3 DEF Owners
  <2> QED
    BY <1>1, <1>3, <2>1 DEF Wires
<1>6. InHand(own, spent)' /\ Askers(own, spent)'
  BY <1>1, <1>2, <1>3 DEF InHand, Askers
<1> QED
  BY <1>4, <1>5, <1>6 DEF Traced

(* There is one at first.                                                  *)
LEMMA TraceStarts ==
  ASSUME ChatInit, NEW e \in Clients
  PROVE  \E own, spent : Traced(own, spent)
<1>1. /\ place = [c \in Clients |-> "off"] /\ line = [c \in Clients |-> NULL]
      /\ said = [c \in Clients |-> <<>>] /\ conn = [c \in Clients |-> -1]
      /\ pc = "setup" /\ message = NULL
      /\ \A fd \in Fds : sock[fd] = "free"
  BY DEF ChatInit, Init, ClientInit, NoSockets
<1> DEFINE own == [fd \in Fds |-> e]
           spent == [c \in Clients |-> 0]
<1>2. Owners(own)
  BY <1>1 DEF Owners
<1>3. Served(spent)
  <2>1. \A c \in Clients : Len(said[c]) = 0 /\ line[c] = NULL
    BY <1>1
  <2>2. \A c \in Clients : LinesWritten(c) = 0
    BY <2>1 DEF LinesWritten
  <2> QED
    BY <2>2 DEF Served
<1>4. Wires(own, spent) /\ Askers(own, spent)
  BY <1>1 DEF Wires, Askers
<1>5. InHand(own, spent)
  BY <1>1 DEF InHand
<1> HIDE DEF own, spent
<1> QED
  BY <1>2, <1>3, <1>4, <1>5 DEF Traced

-----------------------------------------------------------------------------
(* The author of a message.                                                *)

(* A line that the message was typed as, after having asked to be its      *)
(* author.                                                                 *)
TypedBy(lines, at, row) ==
  /\ at \in Clients \X (1 .. MaxLines)
  /\ at[2] \in 1 .. Len(lines[at[1]]) /\ lines[at[1]][at[2]] = TypedAs(row)
  /\ \E j \in AskingIn(lines[at[1]], row.from) : j < at[2]

(* The message that is being delivered or saved.                           *)
Utters(row) ==
  /\ pc \in {"execute", "save"} /\ message # NULL /\ message.route \in {"GLOBAL", "DM"}
  /\ ss_get_username(cur_fd) \in Names
  /\ row = Row(ss_get_username(cur_fd), IF message.route = "DM" THEN message.name ELSE Everyone,
               message.word)

(* It is of the line that is being served, and its user has asked before.  *)
LEMMA UtteredIsTyped ==
  ASSUME LinesAreWords, IInv, ClientTypes, LineIsLast, NEW own, Owners(own), NEW spent, Served(spent),
         InHand(own, spent), Askers(own, spent), NEW row, Utters(row)
  PROVE  TypedBy(said, <<own[cur_fd], spent[own[cur_fd]]>>, row)
<1> DEFINE c == own[cur_fd]
           name == ss_get_username(cur_fd)
           typed == said[c][spent[c]]
<1>1. /\ pc \in Serving /\ message # NULL /\ message.route \in {"GLOBAL", "DM"} /\ name \in Names
      /\ row.from = name /\ row.text = message.word
      /\ row.to = IF message.route = "DM" THEN message.name ELSE Everyone
  BY DEF Utters, Serving, Row
<1>2. cur_fd \in Fds /\ sock[cur_fd] # "free"
  BY <1>1, ServedLoc, FdFacts DEF IInv, TableMatchesSockets
<1>3. c \in Clients
  BY <1>2 DEF Owners
<1>4. Session(cur_fd) = name /\ Session(cur_fd) # NoUser
  BY <1>1, <1>2, TypesAssumption DEF Session, ss_get_username
<1>5. PICK j \in AskingIn(said[c], name) : j <= spent[c]
  BY <1>2, <1>4 DEF Askers
<1>6. spent[c] \in 1 .. Len(said[c]) /\ IsWritten(message, typed)
  BY <1>1 DEF InHand
<1> HIDE DEF c, name
<1>7. said[c] \in Seq(Phrases) /\ Len(said[c]) \in Nat /\ Len(said[c]) <= MaxLines /\ MaxLines \in Nat
  BY <1>3, ClientAssumption DEF LineIsLast, ClientTypes
<1>8. typed = TypedAs(row) /\ Len(typed) # 5
  <2>1. typed \in Phrases
    BY <1>6, <1>7
  <2> HIDE DEF typed
  <2>2. /\ message.route = "GLOBAL" => typed = <<message.word>> /\ Len(typed) = 1
        /\ message.route = "DM" => typed = <<"@", message.name, " ", message.word>> /\ Len(typed) = 4
    BY <1>6, <2>1, LineSays
  <2>3. CASE message.route = "GLOBAL"
    <3>1. row.to = Everyone
      BY <1>1, <2>3
    <3>2. TypedAs(row) = <<message.word>>
      BY <1>1, <3>1 DEF TypedAs, IsDm
    <3> QED
      BY <2>2, <2>3, <3>2
  <2>4. CASE message.route = "DM"
    <3>1. row.to = message.name
      BY <1>1, <2>4
    <3>2. message.name # Everyone
      BY <1>1, MessageTypes, DbAssumption DEF IInv
    <3>3. TypedAs(row) = <<"@", row.to, " ", row.text>>
      BY <3>1, <3>2 DEF TypedAs, IsDm
    <3>4. row.text = message.word
      BY <1>1
    <3>5. typed = TypedAs(row)
      BY <2>2, <2>4, <3>1, <3>3, <3>4, Zenon
    <3>6. Len(typed) # 5
      <4>1. Len(typed) = 4
        BY <2>2, <2>4, Zenon
      <4> QED
        BY <4>1
    <3> QED
      BY <3>5, <3>6, Zenon
  <2> QED
    BY <1>1, <2>3, <2>4
<1>9. spent[c] \in 1 .. MaxLines
  BY <1>6, <1>7
<1>10. j \in 1 .. Len(said[c]) /\ Len(said[c][j]) = 5
  BY <1>5 DEF AskingIn
<1>11. j < spent[c]
  <2>1. j # spent[c]
    BY <1>8, <1>10
  <2> QED
    BY <1>5, <1>6, <1>7, <1>10, <2>1
<1>12. j \in AskingIn(said[c], row.from)
  BY <1>1, <1>5
<1>13. TypedBy(said, <<c, spent[c]>>, row)
  BY <1>3, <1>6, <1>8, <1>9, <1>11, <1>12 DEF TypedBy
<1> QED
  BY <1>13 DEF c

-----------------------------------------------------------------------------
(* The messages to all that were spoken, and the line that each is of.     *)

SayingIn(lines, text) == {i \in 1 .. Len(lines) : lines[i] = <<text>>}

(* Sources, in the lines of all.                                           *)
SourceOf(lines, at, row) ==
  /\ at \in Clients \X (1 .. MaxLines)
  /\ at[2] \in SayingIn(lines[at[1]], row.text)
  /\ \E j \in AskingIn(lines[at[1]], row.from) : j < at[2]

(* Each is of a line of its own, that is served.                           *)
Spoken(spent, spoken, src) ==
  /\ IsSequence(spoken)
  /\ \A k \in 1 .. Len(spoken) : SourceOf(said, src[k], spoken[k]) /\ src[k][2] <= spent[src[k][1]]
  /\ \A j, k \in 1 .. Len(spoken) : src[j] = src[k] => j = k

(* The line in hand has not been spoken.                                   *)
Unspoken(own, spent, spoken, src) ==
  pc \in {"health", "execute"} /\ message # NULL =>
    \A k \in 1 .. Len(spoken) : src[k] # <<own[cur_fd], spent[own[cur_fd]]>>

ShownIsSpoken(spoken) ==
  /\ DOMAIN shown = Clients
  /\ \A c \in Clients : IsSequence(shown[c]) /\ InLog(shown[c], inbox[c], spoken)

(* A source stays one.                                                     *)
LEMMA SourceKept ==
  ASSUME LineIsLast, LineIsLast', SaidGrows, NEW at, NEW row, SourceOf(said, at, row)
  PROVE  SourceOf(said', at, row)
<1> DEFINE c == at[1]
<1>1. c \in Clients /\ at \in Clients \X (1 .. MaxLines) /\ at[2] \in SayingIn(said[c], row.text)
  BY DEF SourceOf
<1>2. PICK j \in AskingIn(said[c], row.from) : j < at[2]
  BY DEF SourceOf
<1> HIDE DEF c
<1>3. j \in AskingIn(said'[c], row.from)
  BY <1>1, <1>2, AskingGrows
<1>4. at[2] \in SayingIn(said'[c], row.text)
  <2>1. at[2] \in 1 .. Len(said[c]) /\ said[c][at[2]] = <<row.text>>
    BY <1>1 DEF SayingIn
  <2>2. Len(said[c]) \in Nat /\ Len(said'[c]) \in Nat
    BY <1>1 DEF LineIsLast
  <2>3. Len(said[c]) <= Len(said'[c]) /\ said'[c][at[2]] = said[c][at[2]]
    BY <1>1, <2>1 DEF SaidGrows, Extends
  <2>4. at[2] \in 1 .. Len(said'[c])
    BY <2>1, <2>2, <2>3
  <2> QED
    BY <2>1, <2>3, <2>4 DEF SayingIn
<1> QED
  BY <1>1, <1>2, <1>3, <1>4 DEF SourceOf, c

(* What was spoken stays spoken.                                           *)
LEMMA SpokenKept ==
  ASSUME LineIsLast, LineIsLast', SaidGrows, NEW own, Owners(own),
         NEW spent, Served(spent), NEW now, Served(now)', Serves(own, spent, now),
         NEW spoken, NEW src, Spoken(spent, spoken, src)
  PROVE  Spoken(now, spoken, src)'
<1>1. \A c \in Clients : spent[c] \in Nat /\ now[c] \in Nat
  BY DEF Served
<1>2. \A c \in Clients : spent[c] <= now[c]
  BY <1>1 DEF Serves
<1>3. ASSUME NEW k \in 1 .. Len(spoken)
      PROVE  SourceOf(said', src[k], spoken[k]) /\ src[k][2] <= now[src[k][1]]
  <2>1. SourceOf(said, src[k], spoken[k]) /\ src[k][2] <= spent[src[k][1]]
    BY <1>3 DEF Spoken
  <2>2. SourceOf(said', src[k], spoken[k])
    BY <2>1, SourceKept
  <2>3. src[k][1] \in Clients /\ src[k][2] \in 1 .. MaxLines /\ MaxLines \in Nat
    BY <2>1, ClientAssumption DEF SourceOf
  <2>4. src[k][2] <= now[src[k][1]]
    BY <1>1, <1>2, <2>1, <2>3
  <2> QED
    BY <2>2, <2>4
<1> QED
  BY <1>3 DEF Spoken

(* No step but the reading of a line puts one in hand.                     *)
LEMMA HandIsKept ==
  ASSUME IInv, EofReads = {-1}, [Next]_vars, pc' \in {"health", "execute"}, message' # NULL
  PROVE  \/ \E fd \in Fds : Capture(fd)
         \/ pc \in {"health", "execute"} /\ message' = message /\ cur_fd' = cur_fd
<1>1. CASE Next
  <2>1. CASE pc \in {"chain", "save"}
    <3>1. ~ Execute
      BY ExecuteEnds
    <3>2. CASE \E fd \in Fds : Capture(fd) \/ CaptureEof(fd)
      BY <2>1, <3>2 DEF Capture, CaptureEof, IsNext
    <3>3. CASE Environment
      BY <2>1, <3>3 DEF Environment, OperatorQuits, SelectWith, Connect, Kill, Restart, Gone,
         ProcessGone, PeerSends, PeerCloses, PeerAborts, RstArrives, SocketBecomes, process
    <3>4. CASE sdb_setup \/ sdb_execute \/ Select \/ Accept \/ HealthCheck \/ EndPass \/ ss_free
               \/ ssl_block_accept
      BY <2>1, <3>4 DEF sdb_setup, sdb_execute, Select, SelectWith, Accept, HealthCheck, EndPass, ss_free,
         ssl_block_accept
    <3> QED
      BY <1>1, <3>1, <3>2, <3>3, <3>4 DEF Next, Loop
  <2> QED
    BY <1>1, <2>1, HandChanges DEF Serving
<1>2. CASE UNCHANGED vars
  BY <1>2 DEF vars, process
<1> QED
  BY <1>1, <1>2

(* A line is read once, and was not spoken before it was read.             *)
LEMMA UnspokenStep ==
  ASSUME EofReads = {-1}, IInv, [Next]_vars, NEW own, Owners(own), NEW later, SameOwners(own, later),
         NEW spent, Served(spent), NEW now, Served(now)', Serves(own, spent, now),
         NEW spoken, NEW src, Spoken(spent, spoken, src), Unspoken(own, spent, spoken, src)
  PROVE  Unspoken(later, now, spoken, src)'
<1> SUFFICES ASSUME pc' \in {"health", "execute"}, message' # NULL, NEW k \in 1 .. Len(spoken),
                    src[k] = <<later[cur_fd'], now[later[cur_fd']]>>
             PROVE  FALSE
  BY DEF Unspoken
<1>1. CASE \E fd \in Fds : Capture(fd)
  <2>1. ReadsRecord
    BY <1>1 DEF Capture, IsNext, ReadsRecord
  <2> DEFINE c == own[cur_fd']
  <2>2. cur_fd' \in Fds /\ sock[cur_fd'] # "free" /\ spent[c] < now[c]
    BY <2>1 DEF Serves
  <2>3. c \in Clients /\ later[cur_fd'] = c
    BY <2>2 DEF Owners, SameOwners
  <2>4. src[k][2] <= spent[src[k][1]]
    BY DEF Spoken
  <2>5. spent[c] \in Nat /\ now[c] \in Nat
    BY <2>3 DEF Served
  <2>6. now[c] <= spent[c]
    BY <2>3, <2>4
  <2> HIDE DEF c
  <2> QED
    BY <2>2, <2>5, <2>6
<1>2. CASE pc \in {"health", "execute"} /\ message' = message /\ cur_fd' = cur_fd
  <2>1. now = spent
    BY <1>2 DEF Serves, ReadsRecord
  <2>2. cur_fd \in Fds /\ sock[cur_fd] # "free"
    BY <1>2, ServedLoc, FdFacts DEF IInv, TableMatchesSockets, Serving
  <2>3. later[cur_fd] = own[cur_fd]
    BY <2>2 DEF SameOwners
  <2> QED
    BY <1>2, <2>1, <2>3 DEF Unspoken
<1> QED
  BY <1>1, <1>2, HandIsKept

(* Who speaks has typed it, after having asked for the session.            *)
LEMMA SpeakerIsAuthor ==
  ASSUME LinesAreWords, IInv, ClientTypes, LineIsLast, NEW own, Owners(own), NEW spent, Served(spent),
         InHand(own, spent), Askers(own, spent), Speaks
  PROVE  SourceOf(said, <<own[cur_fd], spent[own[cur_fd]]>>, TheRow)
<1> DEFINE at == <<own[cur_fd], spent[own[cur_fd]]>>
<1>1. /\ pc = "execute" /\ pc \in Serving /\ message # NULL /\ message.route = "GLOBAL"
      /\ ss_get_username(cur_fd) # NULL /\ ~ NotLoggedIn
  BY DEF Speaks, cmdh_msg_global, Executes, Serving
<1>2. ss_get_username(cur_fd) \in Names
  BY <1>1, NameOf
<1>3. Utters(TheRow)
  BY <1>1, <1>2 DEF Utters, TheRow
<1> HIDE DEF at
<1>4. TypedBy(said, at, TheRow)
  BY <1>3, UtteredIsTyped DEF at
<1>5. TypedAs(TheRow) = <<TheRow.text>>
  BY DEF TypedAs, IsDm, TheRow, Row
<1>6. SourceOf(said, at, TheRow)
  BY <1>4, <1>5 DEF TypedBy, SourceOf, SayingIn
<1> QED
  BY <1>6 DEF at

(* One more is spoken.                                                     *)
LEMMA SpokenMore ==
  ASSUME NEW own, NEW spent, NEW spoken, NEW src, Spoken(spent, spoken, src),
         Unspoken(own, spent, spoken, src), pc = "execute", message # NULL,
         Owners(own), Served(spent), NEW at, at = <<own[cur_fd], spent[own[cur_fd]]>>,
         NEW row, SourceOf(said, at, row)
  PROVE  \E more : Spoken(spent, spoken \o <<row>>, more)
<1> DEFINE longer == spoken \o <<row>>
           n == Len(spoken)
           more == [k \in 1 .. n + 1 |-> IF k = n + 1 THEN at ELSE src[k]]
<1>1. /\ IsSequence(longer) /\ Len(longer) = n + 1 /\ longer[n + 1] = row /\ n \in Nat
      /\ \A k \in 1 .. n : longer[k] = spoken[k]
  <2>1. IsSequence(spoken)
    BY DEF Spoken
  <2>2. n \in Nat
    BY <2>1 DEF IsSequence
  <2>3. IsSequence(longer) /\ Extends(spoken, longer) /\ Len(longer) = n + 1 /\ longer[n + 1] = row
    BY <2>1, LogGets
  <2> QED
    BY <2>2, <2>3 DEF Extends
<1>2. at[1] \in Clients /\ at[2] = spent[at[1]] /\ spent[at[1]] \in Nat
  <2>1. at[1] \in Clients
    BY DEF SourceOf
  <2>2. at[1] = own[cur_fd] /\ at[2] = spent[own[cur_fd]]
    OBVIOUS
  <2> QED
    BY <2>1, <2>2 DEF Served
<1>3. \A k \in 1 .. n : src[k] # at
  BY DEF Unspoken
<1>4. \A k \in 1 .. n : SourceOf(said, src[k], spoken[k]) /\ src[k][2] <= spent[src[k][1]]
  BY DEF Spoken
<1>5. \A j, k \in 1 .. n : src[j] = src[k] => j = k
  BY DEF Spoken
<1> HIDE DEF n, longer
<1>6. \A k \in 1 .. n + 1 : k = n + 1 \/ (k \in 1 .. n /\ k # n + 1)
  <2>1. \A m \in Nat : \A k \in 1 .. m + 1 : k = m + 1 \/ (k \in 1 .. m /\ k # m + 1)
    OBVIOUS
  <2> QED
    BY <1>1, <2>1, Zenon
<1>7. more[n + 1] = at /\ \A k \in 1 .. n : more[k] = src[k]
  <2>1. n + 1 \in 1 .. n + 1 /\ \A k \in 1 .. n : k \in 1 .. n + 1 /\ k # n + 1
    BY <1>1
  <2> QED
    BY <2>1
<1> HIDE DEF more
<1>8. ASSUME NEW k \in 1 .. n + 1
      PROVE  SourceOf(said, more[k], longer[k]) /\ more[k][2] <= spent[more[k][1]]
  <2>1. CASE k = n + 1
    <3>1. SourceOf(said, more[k], longer[k])
      BY <1>1, <1>7, <2>1
    <3>2. more[k][2] <= spent[more[k][1]]
      BY <1>2, <1>7, <2>1
    <3> QED
      BY <3>1, <3>2
  <2>2. CASE k \in 1 .. n
    BY <1>1, <1>4, <1>7, <2>2
  <2> QED
    BY <1>6, <1>8, <2>1, <2>2
<1>9. \A j, k \in 1 .. n + 1 : more[j] = more[k] => j = k
  BY <1>3, <1>5, <1>6, <1>7
<1>10. Spoken(spent, longer, more)
  BY <1>1, <1>8, <1>9 DEF Spoken
<1> QED
  BY <1>10 DEF longer

(* What is printed, and what is under way, is of the messages spoken.      *)
LEMMA ChronicleStep ==
  ASSUME EofReads = {-1}, NoHistory, LinesAreWords, IInv, NoSelfDm, ClientTypes,
         [Next]_vars, ChatNext, LineIsLast, LineIsLast', SaidGrows,
         NEW own, Owners(own), NEW later, SameOwners(own, later),
         NEW spent, Served(spent), NEW now, Served(now)', Serves(own, spent, now),
         InHand(own, spent), Askers(own, spent),
         NEW spoken, NEW src, Spoken(spent, spoken, src), Unspoken(own, spent, spoken, src),
         ShownIsSpoken(spoken)
  PROVE  \E longer, more :
           Spoken(now, longer, more)' /\ Unspoken(later, now, longer, more)' /\ ShownIsSpoken(longer)'
<1>1. IsSequence(spoken) /\ Len(spoken) \in Nat
  BY DEF Spoken, IsSequence
<1>2. ShownIsSpoken(spoken)' => 
        Spoken(now, spoken, src)' /\ Unspoken(later, now, spoken, src)' /\ ShownIsSpoken(spoken)'
  BY SpokenKept, UnspokenStep
<1>3. CASE ServerStep /\ Speaks
  <2> DEFINE at == <<own[cur_fd], spent[own[cur_fd]]>>
             longer == spoken \o <<TheRow>>
  <2>1. SourceOf(said, at, TheRow)
    BY <1>3, SpeakerIsAuthor
  <2>2. pc = "execute" /\ message # NULL /\ pc' \notin {"health", "execute"} /\ now = spent
    BY <1>3 DEF Speaks, cmdh_msg_global, Executes, Serves, ReadsRecord
  <2>3. PICK row : row = TheRow
    OBVIOUS
  <2>4. PICK more : Spoken(spent, spoken \o <<row>>, more)
    BY <2>1, <2>2, <2>3, SpokenMore
  <2>5. Spoken(now, spoken \o <<row>>, more)'
    BY <2>2, <2>4, SpokenKept
  <2>6. Unspoken(later, now, spoken \o <<row>>, more)'
    BY <2>2 DEF Unspoken
  <2>7. IsSequence(spoken \o <<row>>) /\ Extends(spoken, spoken \o <<row>>)
    BY <1>1, LogGets
  <2>8. shown' = shown
    BY <1>3 DEF ServerStep
  <2>9. ASSUME NEW c \in Clients PROVE InLog(shown[c], inbox'[c], spoken \o <<row>>)
    <3>1. InLog(shown[c], inbox[c], spoken)
      BY DEF ShownIsSpoken
    <3> QED
      BY <1>1, <1>3, <2>3, <2>7, <3>1, ServerRows
  <2>10. ShownIsSpoken(spoken \o <<row>>)'
    BY <2>8, <2>9 DEF ShownIsSpoken
  <2> QED
    BY <2>5, <2>6, <2>10
<1>4. CASE ServerStep /\ ~ Speaks
  <2>1. shown' = shown /\ Extends(spoken, spoken)
    BY <1>1, <1>4 DEF ServerStep, Extends
  <2>2. ASSUME NEW c \in Clients PROVE InLog(shown[c], inbox'[c], spoken)
    <3>1. InLog(shown[c], inbox[c], spoken)
      BY DEF ShownIsSpoken
    <3> QED
      BY <1>1, <1>4, <2>1, <3>1, ServerRows
  <2>3. ShownIsSpoken(spoken)'
    BY <2>1, <2>2 DEF ShownIsSpoken
  <2> QED
    BY <1>2, <2>3
<1>5. CASE ~ ServerStep
  <2>1. ShownIsSpoken(spoken)'
    BY <1>5, ClientRows DEF ShownIsSpoken
  <2> QED
    BY <1>2, <2>1
<1> QED
  BY <1>3, <1>4, <1>5

(* What is printed has sources: as many, as often as it is printed.        *)
LEMMA SpokenIsSigned ==
  ASSUME NEW spent, NEW spoken, NEW src, Spoken(spent, spoken, src), ShownIsSpoken(spoken)
  PROVE  SignedByItsAuthor
<1> SUFFICES ASSUME NEW c \in Clients, NEW k \in 1 .. Len(shown[c]), ~ IsDm(shown[c][k])
             PROVE  LET row == shown[c][k]
                        Sources == {at \in Clients \X (1 .. MaxLines) :
                                      /\ at[2] \in Saying(at[1], row.text)
                                      /\ \E j \in Asking(at[1], row.from) : j < at[2]}
                    IN  Cardinality({i \in 1 .. Len(shown[c]) : shown[c][i] = row}) <= Cardinality(Sources)
  BY DEF SignedByItsAuthor
<1> DEFINE row == shown[c][k]
           Sources == {at \in Clients \X (1 .. MaxLines) :
                         /\ at[2] \in Saying(at[1], row.text)
                         /\ \E j \in Asking(at[1], row.from) : j < at[2]}
           Printed == {i \in 1 .. Len(shown[c]) : shown[c][i] = row}
<1>1. PICK at, next : PlacedBy(at, next, shown[c], inbox[c], spoken)
  BY DEF ShownIsSpoken, InLog
<1>2. ASSUME NEW i \in Printed
      PROVE  i \in DOMAIN at /\ at[i] \in 1 .. Len(spoken) /\ src[at[i]] \in Sources
  <2>1. i \in Globals(shown[c])
    BY <1>2 DEF Globals
  <2>2. i \in DOMAIN at /\ at[i] \in 1 .. Len(spoken) /\ spoken[at[i]] = row
    BY <1>1, <1>2, <2>1 DEF PlacedBy, Globals
  <2>3. SourceOf(said, src[at[i]], row)
    BY <2>2 DEF Spoken
  <2>4. src[at[i]] \in Sources
    BY <2>3 DEF SourceOf, SayingIn, AskingIn, Saying, Asking
  <2> QED
    BY <2>2, <2>4
<1>3. ASSUME NEW i \in Printed, NEW j \in Printed, src[at[i]] = src[at[j]] PROVE i = j
  <2>1. at[i] = at[j]
    BY <1>2, <1>3 DEF Spoken
  <2>2. at[i] \in Int /\ i \in Int /\ j \in Int
    BY <1>2, <1>3
  <2>3. i < j => at[i] < at[j]
    BY <1>1, <1>2, <1>3 DEF PlacedBy, Rising
  <2>4. j < i => at[j] < at[i]
    BY <1>1, <1>2, <1>3 DEF PlacedBy, Rising
  <2> QED
    BY <2>1, <2>2, <2>3, <2>4
<1>4. IsFiniteSet(Sources)
  <2>1. IsFiniteSet(Clients) /\ MaxLines \in Int
    BY ClientAssumption
  <2>2. IsFiniteSet(1 .. MaxLines)
    BY <2>1, FS_Interval
  <2>3. IsFiniteSet(Clients \X (1 .. MaxLines))
    BY <2>1, <2>2, FS_Product
  <2>4. Sources \in SUBSET (Clients \X (1 .. MaxLines))
    OBVIOUS
  <2> QED
    BY <2>3, <2>4, FS_Subset
<1> HIDE DEF Sources, Printed
<1>5. [i \in Printed |-> src[at[i]]] \in Injection(Printed, Sources)
  BY <1>2, <1>3 DEF Injection, IsInjective
<1>6. Cardinality(Printed) <= Cardinality(Sources)
  BY <1>4, <1>5, FS_Injection
<1> QED
  BY <1>6 DEF Sources, Printed

-----------------------------------------------------------------------------
(* The invariant, and its steps.                                           *)

(* Where each message to all comes from, what is served of the lines of    *)
(* each client, and what is under way, if there is a client at all.        *)
AuthorInv ==
  /\ LineIsLast
  /\ Clients # {} =>
       \E own, spent, spoken, src :
         /\ Traced(own, spent)
         /\ Spoken(spent, spoken, src) /\ Unspoken(own, spent, spoken, src)
         /\ ShownIsSpoken(spoken)

(* No line waits or is typed at first.                                     *)
LEMMA LinesStart == ChatInit => LineIsLast
BY DEF ChatInit, ClientInit, LineIsLast

(* At first nothing is typed, written, read or printed.                    *)
LEMMA AuthorInit == ChatInit => AuthorInv
<1> SUFFICES ASSUME ChatInit PROVE AuthorInv
  OBVIOUS
<1>1. /\ shown = [c \in Clients |-> <<>>] /\ inbox = [c \in Clients |-> <<>>]
      /\ pc = "setup" /\ message = NULL
  BY DEF ChatInit, Init, ClientInit
<1>2. ASSUME NEW e \in Clients
      PROVE  \E own, spent, spoken, src :
               /\ Traced(own, spent)
               /\ Spoken(spent, spoken, src) /\ Unspoken(own, spent, spoken, src)
               /\ ShownIsSpoken(spoken)
  <2>1. PICK own, spent : Traced(own, spent)
    BY TraceStarts
  <2>2. IsSequence(<<>>) /\ 1 .. Len(<<>>) = {}
    <3>1. <<>> \in Seq({})
      OBVIOUS
    <3> QED
      BY <3>1 DEF IsSequence
  <2>3. Spoken(spent, <<>>, <<>>) /\ Unspoken(own, spent, <<>>, <<>>)
    BY <2>2 DEF Spoken, Unspoken
  <2>4. Globals(<<>>) = {} /\ Broadcasts(<<>>) = {}
    BY <2>2 DEF Globals, Broadcasts
  <2>5. PlacedBy([n \in {} |-> 0], [n \in {} |-> 0], <<>>, <<>>, <<>>)
    BY <2>4 DEF PlacedBy, Rising
  <2>6. InLog(<<>>, <<>>, <<>>)
    BY <2>2, <2>5 DEF InLog
  <2>7. ShownIsSpoken(<<>>)
    BY <1>1, <2>2, <2>6 DEF ShownIsSpoken
  <2> QED
    BY <2>1, <2>3, <2>7
<1> QED
  BY <1>2, LinesStart DEF AuthorInv

(* Lines that nobody touches stay.                                         *)
LEMMA LinesStutter == LineIsLast /\ UNCHANGED all => LineIsLast'
BY DEF all, client, LineIsLast

(* Where nothing changes, nothing has to.                                  *)
LEMMA AuthorStutter == AuthorInv /\ UNCHANGED all => AuthorInv'
<1> SUFFICES ASSUME AuthorInv, UNCHANGED all PROVE AuthorInv'
  OBVIOUS
<1>1. /\ inbox' = inbox /\ shown' = shown /\ said' = said
      /\ pc' = pc /\ message' = message /\ cur_fd' = cur_fd
  BY DEF all, vars, process, client
<1>2. CASE Clients # {}
  <2>1. PICK own, spent, spoken, src :
          /\ Traced(own, spent)
          /\ Spoken(spent, spoken, src) /\ Unspoken(own, spent, spoken, src)
          /\ ShownIsSpoken(spoken)
    BY <1>2 DEF AuthorInv
  <2>2. Traced(own, spent)'
    BY <2>1, TraceStutter
  <2>3. Spoken(spent, spoken, src)' /\ Unspoken(own, spent, spoken, src)' /\ ShownIsSpoken(spoken)'
    BY <1>1, <2>1 DEF Spoken, Unspoken, ShownIsSpoken
  <2> QED
    BY <2>2, <2>3, LinesStutter DEF AuthorInv
<1> QED
  BY <1>2, LinesStutter DEF AuthorInv

(* Every step keeps it.                                                    *)
LEMMA AuthorStep ==
  ASSUME EofReads = {-1}, NoHistory, LinesAreWords, ServerInv, ConnInv, ConnInv', RecordsInv, ClientInv,
         ServerInv', [Next]_vars, ChatNext, AuthorInv
  PROVE  AuthorInv'
<1>1. /\ IInv /\ IInv' /\ NoSelfDm /\ LineTypes /\ ClientTypes /\ LineIsLast
  BY DEF ServerInv, ClientInv, AuthorInv
<1>2. LineIsLast' /\ SaidGrows
  BY <1>1, LinesStep
<1>3. CASE Clients # {}
  <2>1. PICK own, spent, spoken, src :
          /\ Traced(own, spent)
          /\ Spoken(spent, spoken, src) /\ Unspoken(own, spent, spoken, src)
          /\ ShownIsSpoken(spoken)
    BY <1>3 DEF AuthorInv
  <2>2. PICK later, now : /\ Traced(later, now)' /\ SameOwners(own, later) /\ Serves(own, spent, now)
                          /\ Owners(later)' /\ Served(now)'
    BY <1>1, <1>2, <2>1, TraceStep
  <2>3. Owners(own) /\ Served(spent) /\ InHand(own, spent) /\ Askers(own, spent)
    BY <2>1 DEF Traced
  <2>4. PICK longer, more :
          Spoken(now, longer, more)' /\ Unspoken(later, now, longer, more)' /\ ShownIsSpoken(longer)'
    BY <1>1, <1>2, <2>1, <2>2, <2>3, ChronicleStep
  <2> QED
    BY <1>2, <2>2, <2>4 DEF AuthorInv
<1> QED
  BY <1>2, <1>3 DEF AuthorInv

(* What is printed as said by a user was typed into a client whose user    *)
(* had asked, before, to be him, and is not printed more often than it was *)
(* typed: whoever comes, goes and takes over a name or a descriptor of     *)
(* another, and whatever is under way when he does.  The assumptions are   *)
(* that an end of file is reported as -1, that nobody asks for the history *)
(* of all, and that users type words.                                      *)
THEOREM SpokenByItsAuthor ==
  ASSUME EofReads = {-1}, NoHistory, LinesAreWords PROVE ChatSpec => []SignedByItsAuthor
<1>1. ServerInv /\ ConnInv /\ RecordsInv /\ ClientInv /\ AuthorInv /\ [ChatNext]_all => AuthorInv'
  <2> SUFFICES ASSUME ServerInv, ConnInv, RecordsInv, ClientInv, AuthorInv, [ChatNext]_all
               PROVE  AuthorInv'
    OBVIOUS
  <2>1. ServerInv' /\ ConnInv' /\ [Next]_vars
    BY ChatInvStep
  <2> QED
    BY <2>1, AuthorStep, AuthorStutter
<1>2. AuthorInv => SignedByItsAuthor
  <2> SUFFICES ASSUME AuthorInv PROVE SignedByItsAuthor
    OBVIOUS
  <2>1. CASE Clients # {}
    <3>1. PICK own, spent, spoken, src : Spoken(spent, spoken, src) /\ ShownIsSpoken(spoken)
      BY <2>1 DEF AuthorInv
    <3> QED
      BY <3>1, SpokenIsSigned
  <2>2. CASE Clients = {}
    BY <2>2 DEF SignedByItsAuthor
  <2> QED
    BY <2>1, <2>2
<1> QED
  BY <1>1, <1>2, AuthorInit, ChatRunsServer, ConnectionsAreApart, RecordsAreRequests, ClientsAreInPlace,
     PTL DEF ChatSpec

-----------------------------------------------------------------------------
(* Everything that is printed, histories and private messages included.    *)

IsTyped(lines, row) == \E at : TypedBy(lines, at, row)

(* Of the lines of a client: its user has asked to be a party.             *)
IsParty(lines, row) == IsDm(row) => AskingIn(lines, row.from) \cup AskingIn(lines, row.to) # {}

Printable(lines, c, rows) ==
  /\ IsSequence(rows)
  /\ \A k \in 1 .. Len(rows) : IsTyped(lines, rows[k]) /\ IsParty(lines[c], rows[k])

(* What is printed, and what is under way.                                 *)
Readable(lines, c, rows, frames) ==
  Printable(lines, c, rows) /\ \A n \in 1 .. Len(frames) : Printable(lines, c, frames[n].rows)

(* What was typed stays typed.                                             *)
LEMMA TypedKept ==
  ASSUME LineIsLast, LineIsLast', SaidGrows, NEW row, IsTyped(said, row)
  PROVE  IsTyped(said', row)
<1>1. PICK at : TypedBy(said, at, row)
  BY DEF IsTyped
<1> DEFINE c == at[1]
<1>2. /\ c \in Clients /\ at \in Clients \X (1 .. MaxLines)
      /\ at[2] \in 1 .. Len(said[c]) /\ said[c][at[2]] = TypedAs(row)
  BY <1>1 DEF TypedBy
<1>3. PICK j \in AskingIn(said[c], row.from) : j < at[2]
  BY <1>1 DEF TypedBy
<1> HIDE DEF c
<1>4. j \in AskingIn(said'[c], row.from)
  BY <1>2, <1>3, AskingGrows
<1>5. Len(said[c]) \in Nat /\ Len(said'[c]) \in Nat
  BY <1>2 DEF LineIsLast
<1>6. Len(said[c]) <= Len(said'[c]) /\ said'[c][at[2]] = said[c][at[2]]
  BY <1>2 DEF SaidGrows, Extends
<1>7. at[2] \in 1 .. Len(said'[c])
  BY <1>2, <1>5, <1>6
<1>8. TypedBy(said', at, row)
  BY <1>2, <1>3, <1>4, <1>6, <1>7 DEF TypedBy, c
<1> QED
  BY <1>8 DEF IsTyped

(* Who is a party stays one.                                               *)
LEMMA PartyKept ==
  ASSUME LineIsLast, LineIsLast', SaidGrows, NEW c \in Clients, NEW row, IsParty(said[c], row)
  PROVE  IsParty(said'[c], row)
<1>1. \A name : \A j \in AskingIn(said[c], name) : j \in AskingIn(said'[c], name)
  BY AskingGrows
<1> QED
  BY <1>1 DEF IsParty

(* So what may be printed may be printed later.                            *)
LEMMA PrintableKept ==
  ASSUME LineIsLast, LineIsLast', SaidGrows, NEW c \in Clients, NEW rows, Printable(said, c, rows)
  PROVE  Printable(said', c, rows)
<1>1. ASSUME NEW k \in 1 .. Len(rows) PROVE IsTyped(said', rows[k]) /\ IsParty(said'[c], rows[k])
  <2>1. IsTyped(said, rows[k]) /\ IsParty(said[c], rows[k])
    BY DEF Printable
  <2> QED
    BY <2>1, TypedKept, PartyKept
<1> QED
  BY <1>1 DEF Printable

(* A client reads the first of its frames, or loses them all.              *)
LEMMA FrameIsRead ==
  ASSUME NEW c, NEW rows, NEW frames, IsSequence(frames), frames # <<>>, Readable(said, c, rows, frames)
  PROVE  Readable(said, c, rows \o Head(frames).rows, Tail(frames))
<1>1. /\ Len(frames) \in Nat /\ Len(frames) >= 1 /\ Len(Tail(frames)) = Len(frames) - 1
      /\ \A n \in 1 .. Len(Tail(frames)) : Tail(frames)[n] = frames[n + 1]
      /\ Head(frames) = frames[1]
  BY DEF IsSequence
<1>2. 1 \in 1 .. Len(frames) /\ \A n \in 1 .. Len(Tail(frames)) : n + 1 \in 1 .. Len(frames)
  BY <1>1
<1> DEFINE new == Head(frames).rows
<1>3. Printable(said, c, rows) /\ Printable(said, c, new)
  BY <1>1, <1>2 DEF Readable
<1>4. \A n \in 1 .. Len(Tail(frames)) : Printable(said, c, Tail(frames)[n].rows)
  BY <1>1, <1>2 DEF Readable
<1> HIDE DEF new
<1>5. Printable(said, c, rows \o new)
  <2>1. PICK S, T : rows \in Seq(S) /\ new \in Seq(T)
    BY <1>3 DEF Printable, IsSequence
  <2>2. rows \in Seq(S \cup T) /\ new \in Seq(S \cup T)
    BY <2>1
  <2>3. /\ rows \o new \in Seq(S \cup T) /\ Len(rows \o new) = Len(rows) + Len(new)
        /\ Len(rows) \in Nat /\ Len(new) \in Nat
        /\ \A k \in 1 .. Len(rows) : (rows \o new)[k] = rows[k]
        /\ \A k \in 1 .. Len(new) : (rows \o new)[Len(rows) + k] = new[k]
    BY <2>2
  <2>4. ASSUME NEW k \in 1 .. Len(rows \o new)
        PROVE  \/ k \in 1 .. Len(rows) /\ (rows \o new)[k] = rows[k]
               \/ k - Len(rows) \in 1 .. Len(new) /\ (rows \o new)[k] = new[k - Len(rows)]
    <3>1. CASE k <= Len(rows)
      BY <2>3, <3>1
    <3>2. CASE k > Len(rows)
      <4>1. k - Len(rows) \in 1 .. Len(new) /\ Len(rows) + (k - Len(rows)) = k
        BY <2>3, <3>2
      <4> QED
        BY <2>3, <4>1, Zenon
    <3> QED
      BY <2>3, <3>1, <3>2
  <2>5. ASSUME NEW k \in 1 .. Len(rows \o new)
        PROVE  IsTyped(said, (rows \o new)[k]) /\ IsParty(said[c], (rows \o new)[k])
    BY <1>3, <2>4, <2>5, Zenon DEF Printable
  <2>6. IsSequence(rows \o new)
    BY <2>3, Zenon DEF IsSequence
  <2> QED
    BY <2>5, <2>6, Zenon DEF Printable
<1> QED
  BY <1>4, <1>5 DEF Readable, new

(* What the clients and their connections make of it.                      *)
LEMMA ClientsRead ==
  ASSUME ClientTypes, DOMAIN shown = Clients, \A c \in Clients : Readable(said, c, shown[c], inbox[c]),
         ChatNext, ~ ServerStep, NEW d \in Clients
  PROVE  DOMAIN shown' = Clients /\ Readable(said, d, shown'[d], inbox'[d])
<1> DEFINE Goal == DOMAIN shown' = Clients /\ Readable(said, d, shown'[d], inbox'[d])
<1>1. DOMAIN inbox = Clients /\ IsSequence(inbox[d]) /\ Readable(said, d, shown[d], inbox[d])
  BY DEF ClientTypes
<1>2. ASSUME UNCHANGED <<shown, inbox>> PROVE Goal
  BY <1>1, <1>2
<1>3. ASSUME NEW c \in Clients, Closes(c) PROVE Goal
  <2>1. shown' = shown /\ inbox' = [inbox EXCEPT ![c] = <<>>]
    BY <1>3 DEF Closes
  <2>2. CASE d = c
    <3>1. Readable(said, d, shown[d], <<>>)
      BY <1>1 DEF Readable
    <3>2. inbox'[d] = <<>>
      BY <1>1, <2>1, <2>2
    <3> QED
      BY <2>1, <3>1, <3>2
  <2>3. CASE d # c
    BY <1>1, <2>1, <2>3
  <2> QED
    BY <2>2, <2>3
<1>4. ASSUME NEW c \in Clients, cmdc_execute_server_command(c) PROVE Goal
  <2>1. /\ inbox[c] # <<>> /\ inbox' = [inbox EXCEPT ![c] = Tail(@)]
        /\ shown' = [shown EXCEPT ![c] = @ \o Head(inbox[c]).rows]
    BY <1>4 DEF cmdc_execute_server_command
  <2>2. CASE d = c
    <3>1. Readable(said, d, shown[d] \o Head(inbox[d]).rows, Tail(inbox[d]))
      BY <1>1, <2>1, <2>2, FrameIsRead
    <3>2. shown'[d] = shown[d] \o Head(inbox[d]).rows /\ inbox'[d] = Tail(inbox[d])
      BY <1>1, <2>1, <2>2
    <3> QED
      BY <2>1, <3>1, <3>2
  <2>3. CASE d # c
    BY <1>1, <2>1, <2>3
  <2> QED
    BY <2>2, <2>3
<1>5. ASSUME NEW c \in Clients, ClientStep(c) PROVE Goal
  BY <1>2, <1>3, <1>4, <1>5 DEF ClientStep, WithoutServer, takes_line, ssl_block_write_request,
     WritesInVain, cmdc_exit_close, LosesServer, Wrote
<1>6. ASSUME NEW c \in Clients, UserStep(c) \/ ssl_block_connect(c) PROVE Goal
  BY <1>2, <1>3, <1>6 DEF UserStep, WithoutServer, user_types, do_server_connection, ctrl_c_handler,
     ssl_block_connect
<1>7. CASE RstStep \/ OperatorStep
  BY <1>2, <1>7 DEF RstStep, OperatorStep, client
<1> QED
  BY <1>5, <1>6, <1>7 DEF ChatNext

(* A row of the log, or the one that is being delivered or saved.          *)
IsSaved(row) == \E i \in 1 .. Len(messages) : row = messages[i]

(* The histories are made of the log.                                      *)
LEMMA HistoryIsSaved ==
  ASSUME messages \in Seq(Rows), NEW n \in Int
  PROVE  /\ \A k \in 1 .. Len(global_history(n)) : IsSaved(global_history(n)[k])
         /\ \A u, v : \A k \in 1 .. Len(pm_history(u, v, n)) : IsSaved(pm_history(u, v, n)[k])
<1>1. ASSUME NEW ids \in SUBSET (1 .. Len(messages)), NEW k \in 1 .. Len(RowsAt(LastOf(ids, n)))
      PROVE  IsSaved(RowsAt(LastOf(ids, n))[k])
  <2>1. \E i \in ids : RowsAt(LastOf(ids, n))[k] = messages[i]
    BY HistoryRows
  <2> QED
    BY <2>1 DEF IsSaved
<1>2. ASSUME NEW k \in 1 .. Len(global_history(n)) PROVE IsSaved(global_history(n)[k])
  <2> DEFINE ids == {i \in 1 .. Len(messages) : ~ IsDm(messages[i])}
  <2>1. ids \in SUBSET (1 .. Len(messages)) /\ global_history(n) = RowsAt(LastOf(ids, n))
    BY DEF global_history
  <2> HIDE DEF ids
  <2> QED
    BY <1>1, <2>1
<1>3. ASSUME NEW u, NEW v, NEW k \in 1 .. Len(pm_history(u, v, n)) PROVE IsSaved(pm_history(u, v, n)[k])
  <2> DEFINE ids == {i \in 1 .. Len(messages) : /\ IsDm(messages[i])
                                                /\ messages[i].from \in {u, v}
                                                /\ messages[i].to \in {u, v}}
  <2>1. ids \in SUBSET (1 .. Len(messages)) /\ pm_history(u, v, n) = RowsAt(LastOf(ids, n))
    BY DEF pm_history
  <2> HIDE DEF ids
  <2> QED
    BY <1>1, <2>1
<1> QED
  BY <1>2, <1>3

(* What a handler writes is of the log, or is being delivered.             *)
LEMMA HandlerQuotes ==
  ASSUME IInv, cmdh_execute_command, NEW o \in out', NEW k \in 1 .. Len(o.frame.rows)
  PROVE  IsSaved(o.frame.rows[k]) \/ Utters(o.frame.rows[k])
<1> DEFINE Goal == IsSaved(o.frame.rows[k]) \/ Utters(o.frame.rows[k])
<1>1. ASSUME NEW W, NEW kind, NEW rows, NEW sessions, NEW at, Send(W, Frame(kind, rows), sessions, at)
      PROVE  o.frame.rows = rows
  <2>1. o.frame = Frame(kind, rows)
    BY <1>1, FrameOf DEF Send
  <2> QED
    BY <2>1, NewsFacts
<1>2. ASSUME NEW W, NEW kind, NEW sessions, NEW at, Send(W, Frame(kind, <<>>), sessions, at) PROVE FALSE
  <2>1. o.frame.rows = <<>>
    BY <1>1, <1>2
  <2>2. 1 .. Len(<<>>) = {}
    OBVIOUS
  <2> QED
    BY <2>1, <2>2
<1>3. ~ Silent /\ \A text : ~ Reply(text)
  BY <1>2, Zenon DEF Silent, Reply
<1>4. ~ Segfault
  BY DEF Segfault
<1>5. ASSUME NEW W, NEW kind, NEW row, NEW sessions, NEW at, Send(W, Frame(kind, <<row>>), sessions, at)
      PROVE  o.frame.rows[k] = row
  <2>1. o.frame.rows = <<row>>
    BY <1>1, <1>5
  <2>2. \A i \in 1 .. Len(<<row>>) : <<row>>[i] = row
    OBVIOUS
  <2> QED
    BY <2>1, <2>2
<1>6. CASE cmdh_msg_global
  <2>1. /\ ~ NotLoggedIn /\ ss_get_username(cur_fd) # NULL
        /\ Send(sm_recipients(cur_fd), Frame("GLOBAL", <<TheRow>>), active_users, "save")
    BY <1>3, <1>4, <1>6, Zenon DEF cmdh_msg_global, TheRow
  <2>2. pc = "execute" /\ pc \in Serving /\ message # NULL /\ message.route = "GLOBAL"
    BY <1>6 DEF cmdh_msg_global, Executes, Serving
  <2>3. ss_get_username(cur_fd) \in Names
    BY <2>1, <2>2, NameOf
  <2>4. Utters(TheRow)
    BY <2>2, <2>3 DEF Utters, TheRow
  <2>5. o.frame.rows[k] = TheRow
    BY <1>5, <2>1
  <2> QED
    BY <2>4, <2>5
<1>7. CASE cmdh_msg_pm
  <2> DEFINE row == Row(ss_get_username(cur_fd), message.name, message.word)
  <2>1. /\ ~ NotLoggedIn /\ ss_get_username(cur_fd) # NULL
        /\ \E W : Send(W, Frame("DM", <<row>>), active_users, "save")
    BY <1>3, <1>4, <1>7, Zenon DEF cmdh_msg_pm
  <2>2. pc = "execute" /\ pc \in Serving /\ message # NULL /\ message.route = "DM"
    BY <1>7 DEF cmdh_msg_pm, Executes, Serving
  <2>3. ss_get_username(cur_fd) \in Names
    BY <2>1, <2>2, NameOf
  <2>4. Utters(row)
    BY <2>2, <2>3 DEF Utters
  <2> HIDE DEF row
  <2>5. o.frame.rows[k] = row
    BY <1>5, <2>1
  <2> QED
    BY <2>4, <2>5
<1>8. CASE cmdh_get_global_history
  <2>1. Send({cur_fd}, Frame("HISTORY", global_history(message.count)), active_users, "pass")
    BY <1>3, <1>4, <1>8, Zenon DEF cmdh_get_global_history
  <2>2. message.count \in Int /\ messages \in Seq(Rows)
    BY <1>8, MessageTypes DEF cmdh_get_global_history, Executes, IInv, TypeOK
  <2>3. o.frame.rows = global_history(message.count)
    BY <1>1, <2>1
  <2> QED
    BY <2>2, <2>3, HistoryIsSaved
<1>9. CASE cmdh_pm_history
  <2> DEFINE rows == pm_history(ss_get_username(cur_fd), message.name, message.count)
  <2>1. Send({cur_fd}, Frame("PMHISTORY", rows), active_users, "pass")
    BY <1>3, <1>4, <1>9, Zenon DEF cmdh_pm_history
  <2>2. message.count \in Int /\ messages \in Seq(Rows)
    BY <1>9, MessageTypes DEF cmdh_pm_history, Executes, IInv, TypeOK
  <2>3. \A i \in 1 .. Len(rows) : IsSaved(rows[i])
    BY <2>2, HistoryIsSaved
  <2> HIDE DEF rows
  <2>4. o.frame.rows = rows
    BY <1>1, <2>1
  <2> QED
    BY <2>3, <2>4
<1>10. CASE cmdh_register \/ cmdh_login \/ cmdh_logout
  BY <1>2, <1>3, <1>10, Zenon DEF cmdh_register, cmdh_login, cmdh_logout
<1>11. CASE cmdh_save \/ cmdh_close \/ cmdh_get_active_users
  BY <1>3, <1>11 DEF cmdh_save, cmdh_close, cmdh_get_active_users
<1>12. CASE cmdh_server_health_ping \/ UnnamedCommand \/ InvalidCommand
  BY <1>3, <1>4, <1>12, Zenon DEF cmdh_server_health_ping, UnnamedCommand, InvalidCommand
<1> QED
  BY <1>6, <1>7, <1>8, <1>9, <1>10, <1>11, <1>12 DEF cmdh_execute_command

(* So is what the loop writes.                                             *)
LEMMA LoopQuotes ==
  ASSUME IInv, Loop, NEW o \in out', NEW k \in 1 .. Len(o.frame.rows)
  PROVE  IsSaved(o.frame.rows[k]) \/ Utters(o.frame.rows[k])
<1>1. CASE ss_free
  <2>1. o.frame = Frame("SERVER_DISCONNECTED", <<>>)
    BY <1>1, FrameOf DEF ss_free
  <2>2. o.frame.rows = <<>> /\ 1 .. Len(<<>>) = {}
    BY <2>1, NewsFacts
  <2> QED
    BY <2>2
<1>2. CASE ~ ss_free
  <2>1. out' = {} \/ Execute
    BY <1>2 DEF Loop, sdb_setup, sdb_execute, SetUp, Select, SelectWith, Accept, HealthCheck, EndPass,
       Capture, CaptureEof
  <2> QED
    BY <2>1, HandlerQuotes DEF Execute
<1> QED
  BY <1>1, <1>2

(* So is what a connection gets.                                           *)
LEMMA FramesOf ==
  ASSUME NEW fd, NEW n \in 1 .. Len(FramesTo(fd))
  PROVE  \/ FramesTo(fd)[n].rows = <<>>
         \/ \E o \in out' : o.to = fd /\ FramesTo(fd)[n] = o.frame
<1>1. CASE PingsClient /\ fd = cur_fd
  <2>1. FramesTo(fd) = <<Frame("HEALTH", <<>>)>>
    BY <1>1 DEF FramesTo
  <2>2. \A f : \A i \in 1 .. Len(<<f>>) : <<f>>[i] = f
    OBVIOUS
  <2>3. FramesTo(fd)[n] = Frame("HEALTH", <<>>)
    BY <2>1, <2>2
  <2> QED
    BY <2>3, NewsFacts
<1>2. CASE ~ (PingsClient /\ fd = cur_fd) /\ \A o \in out' : o.to # fd
  <2>1. FramesTo(fd) = <<>> /\ 1 .. Len(<<>>) = {}
    BY <1>2 DEF FramesTo
  <2> QED
    BY <2>1
<1>3. CASE ~ (PingsClient /\ fd = cur_fd) /\ \E o \in out' : o.to = fd
  <2> DEFINE first == CHOOSE o \in out' : o.to = fd
  <2>1. first \in out' /\ first.to = fd
    BY <1>3
  <2>2. FramesTo(fd) = <<first.frame>>
    BY <1>3 DEF FramesTo
  <2> HIDE DEF first
  <2>3. \A f : \A i \in 1 .. Len(<<f>>) : <<f>>[i] = f
    OBVIOUS
  <2>4. FramesTo(fd)[n] = first.frame
    BY <2>2, <2>3
  <2> QED
    BY <2>1, <2>4
<1> QED
  BY <1>1, <1>2, <1>3

(* A handler that saves has delivered.                                     *)
SavesSaid == pc = "save" => message.route \in {"GLOBAL", "DM"}

LEMMA SavesSaidStep == SavesSaid /\ [Next]_vars => SavesSaid'
<1> SUFFICES ASSUME SavesSaid, [Next]_vars, pc' = "save" PROVE message'.route \in {"GLOBAL", "DM"}
  BY DEF SavesSaid
<1>1. CASE cmdh_msg_global \/ cmdh_msg_pm
  <2>1. ASSUME NEW W, NEW frame, NEW sessions, NEW at, Send(W, frame, sessions, at)
        PROVE  message' = message
    BY <2>1 DEF Send, Continue, ProcessGone
  <2>2. ~ Segfault
    BY DEF Segfault, ProcessGone
  <2>3. message' = message
    BY <1>1, <2>1, <2>2, Zenon DEF cmdh_msg_global, cmdh_msg_pm, Reply, Silent
  <2>4. message.route \in {"GLOBAL", "DM"}
    BY <1>1 DEF cmdh_msg_global, cmdh_msg_pm, Executes
  <2> QED
    BY <2>3, <2>4
<1>2. CASE pc = "save" /\ message' = message
  BY <1>2 DEF SavesSaid
<1>3. CASE UNCHANGED vars
  <2>1. pc = "save" /\ message' = message
    BY <1>3 DEF vars, process
  <2> QED
    BY <1>2, <2>1
<1> QED
  BY <1>1, <1>2, <1>3, HalfDone

(* What is in the log was there before, or is being saved.                 *)
LEMMA LogQuotes ==
  ASSUME IInv, SavesSaid, [Next]_vars, NEW k \in 1 .. Len(messages')
  PROVE  IsSaved(messages'[k]) \/ Utters(messages'[k])
<1>1. messages \in Seq(Rows)
  BY DEF IInv, TypeOK
<1>2. CASE messages' = messages
  BY <1>2 DEF IsSaved
<1>3. CASE cmdh_save
  <2> DEFINE row == Row(ss_get_username(cur_fd), IF message.route = "DM" THEN message.name ELSE Everyone,
                        message.word)
  <2>1. messages' = messages \/ messages' = Append(messages, row)
    BY <1>3 DEF cmdh_save, sm_save_message
  <2>2. Utters(row)
    BY <1>3 DEF Utters, cmdh_save, SavesSaid, IInv, PlaceKnows
  <2> HIDE DEF row
  <2>3. CASE messages' = Append(messages, row)
    <3>1. k \in 1 .. Len(messages) \/ k = Len(messages) + 1
      BY <1>1, <2>3
    <3>2. Append(messages, row)[Len(messages) + 1] = row
      BY <1>1
    <3>3. \A i \in 1 .. Len(messages) : Append(messages, row)[i] = messages[i]
      BY <1>1
    <3>4. IsSaved(messages'[k]) \/ messages'[k] = row
      BY <2>3, <3>1, <3>2, <3>3 DEF IsSaved
    <3> QED
      BY <2>2, <3>4
  <2> QED
    BY <1>2, <2>1, <2>3
<1>4. CASE UNCHANGED vars
  BY <1>2, <1>4 DEF vars, database
<1> QED
  BY <1>2, <1>3, <1>4, LogChanges

(* What a connection gets may be printed: it is typed, and a private       *)
(* message is for the user that the connection has.                        *)
LEMMA DeliveredIsPrintable ==
  ASSUME LinesAreWords, IInv, IInv', FramesFit', DmStaysPrivate', ConnInv, ClientTypes,
         LineIsLast, LineIsLast', SaidGrows, Loop,
         \A k \in 1 .. Len(messages) : IsTyped(said, messages[k]),
         NEW own, NEW spent, Traced(own, spent), NEW later, NEW now, Traced(later, now)',
         SameOwners(own, later), NEW c \in Clients, conn[c] # -1,
         NEW n \in 1 .. Len(FramesTo(conn[c]))
  PROVE  Printable(said', c, FramesTo(conn[c])[n].rows)
<1>1. PICK fd \in Fds : fd = conn[c] /\ sock[fd] # "free" /\ own[fd] = c /\ later[fd] = c
  BY DEF ConnInv, ConnTypes, Traced, Owners, SameOwners
<1>2. PICK rows : rows = FramesTo(conn[c])[n].rows
  OBVIOUS
<1>3. rows = <<>> \/ \E o \in out' : o.to = fd /\ rows = o.frame.rows
  BY <1>1, <1>2, FramesOf, Zenon
<1>4. ASSUME rows = <<>> PROVE Printable(said', c, rows)
  <2>1. 1 .. Len(<<>>) = {} /\ <<>> \in Seq({})
    OBVIOUS
  <2> QED
    BY <1>4, <2>1 DEF Printable, IsSequence
<1>5. ASSUME NEW o \in out', o.to = fd, rows = o.frame.rows
      PROVE  Printable(said', c, rows)
  <2>1. rows \in Seq(Rows)
    BY <1>5 DEF FramesFit
  <2>2. ASSUME NEW k \in 1 .. Len(rows) PROVE IsTyped(said', rows[k]) /\ IsParty(said'[c], rows[k])
    <3> DEFINE row == rows[k]
    <3>1. row \in Rows
      BY <2>1, <2>2
    <3>2. IsTyped(said, row)
      <4>1. IsSaved(row) \/ Utters(row)
        BY <1>5, <2>2, LoopQuotes
      <4>2. CASE IsSaved(row)
        BY <4>2 DEF IsSaved
      <4>3. CASE Utters(row)
        <5>1. \E at : TypedBy(said, at, row)
          BY <4>3, UtteredIsTyped, Zenon DEF Traced
        <5> QED
          BY <5>1 DEF IsTyped
      <4> QED
        BY <4>1, <4>2, <4>3
    <3>3. IsTyped(said', row)
      BY <3>2, TypedKept
    <3>4. ASSUME IsDm(row) PROVE AskingIn(said'[c], row.from) \cup AskingIn(said'[c], row.to) # {}
      <4>1. PICK i \in Slots : child_fd'[i] = fd /\ active_users'[i] \in {row.from, row.to}
        BY <1>5, <2>2, <3>4 DEF DmStaysPrivate
      <4>2. row.from \in Names /\ row.to \in Names
        BY <3>1, <3>4 DEF Rows, IsDm
      <4>3. active_users'[i] # NoUser
        BY <4>1, <4>2, TypesAssumption
      <4>4. child_fd'[i] # -1
        BY <1>1, <4>1, FdFacts
      <4>5. sock'[fd] # "free" /\ Session(fd)' = active_users'[i]
        BY <4>1, <4>4, SessionsMatchNext DEF SessionsMatch
      <4>6. \E j \in AskingIn(said'[later[fd]], Session(fd)') : j <= now[later[fd]]
        BY <1>1, <4>3, <4>5 DEF Traced, Askers
      <4> QED
        BY <1>1, <4>1, <4>5, <4>6
    <3>5. IsParty(said'[c], row)
      BY <3>4 DEF IsParty
    <3> QED
      BY <3>3, <3>5
  <2>3. IsSequence(rows)
    BY <2>1 DEF IsSequence
  <2> QED
    BY <2>2, <2>3 DEF Printable
<1>6. Printable(said', c, rows)
  BY <1>3, <1>4, <1>5
<1> QED
  BY <1>2, <1>6


(* What waits for a client is of a step before, or of this one.            *)
LEMMA ServerDeliversIt ==
  ASSUME ClientTypes, ServerStep, NEW c \in Clients, NEW n \in 1 .. Len(inbox'[c])
  PROVE  \/ n \in 1 .. Len(inbox[c]) /\ inbox'[c][n] = inbox[c][n]
         \/ /\ conn[c] # -1
            /\ \E m \in 1 .. Len(FramesTo(conn[c])) : inbox'[c][n] = FramesTo(conn[c])[m]
<1>1. PICK old, new : old = inbox[c] /\ new = Delivered(c)
  OBVIOUS
<1>2. IsSequence(old) /\ inbox'[c] = old \o new
  BY <1>1 DEF ServerStep, Delivers, ClientTypes
<1>3. new = <<>> \/ (conn[c] # -1 /\ new = FramesTo(conn[c]))
  BY <1>1, Zenon DEF Delivered
<1>4. IsSequence(new)
  <2>1. <<>> \in Seq({})
    OBVIOUS
  <2> QED
    BY <1>3, <2>1, FramesShape DEF IsSequence
<1>5. PICK S, T : old \in Seq(S) /\ new \in Seq(T)
  BY <1>2, <1>4 DEF IsSequence
<1>6. old \in Seq(S \cup T) /\ new \in Seq(S \cup T)
  BY <1>5
<1>7. /\ Len(old \o new) = Len(old) + Len(new) /\ Len(old) \in Nat /\ Len(new) \in Nat
      /\ \A i \in 1 .. Len(old) : (old \o new)[i] = old[i]
      /\ \A i \in 1 .. Len(new) : (old \o new)[Len(old) + i] = new[i]
  BY <1>6
<1>8. CASE n <= Len(old)
  <2>1. n \in 1 .. Len(old) /\ (old \o new)[n] = old[n]
    BY <1>2, <1>7, <1>8
  <2> QED
    BY <1>1, <1>2, <2>1
<1>9. CASE ~ (n <= Len(old))
  <2> DEFINE m == n - Len(old)
  <2>1. m \in 1 .. Len(new) /\ Len(old) + m = n
    BY <1>2, <1>7, <1>9
  <2>2. new[m] = (old \o new)[n]
    BY <1>7, <2>1
  <2> HIDE DEF m
  <2>3. new # <<>>
    BY <2>1
  <2> QED
    BY <1>2, <1>3, <2>1, <2>2, <2>3
<1> QED
  BY <1>8, <1>9

(* All that is saved, is under way to a client or is printed was typed.    *)
QuoteInv ==
  /\ LineIsLast /\ SavesSaid
  /\ DOMAIN shown = Clients /\ \A c \in Clients : Readable(said, c, shown[c], inbox[c])
  /\ Clients # {} =>
       /\ \A k \in 1 .. Len(messages) : IsTyped(said, messages[k])
       /\ \E own, spent : Traced(own, spent)

(* At first nothing is.                                                    *)
LEMMA QuoteInit == ChatInit => QuoteInv
<1> SUFFICES ASSUME ChatInit PROVE QuoteInv
  OBVIOUS
<1>1. /\ shown = [c \in Clients |-> <<>>] /\ inbox = [c \in Clients |-> <<>>]
      /\ pc = "setup" /\ messages = <<>>
  BY DEF ChatInit, Init, ClientInit
<1>2. 1 .. Len(<<>>) = {} /\ <<>> \in Seq({})
  OBVIOUS
<1>3. \A c \in Clients : Readable(said, c, <<>>, <<>>)
  BY <1>2 DEF Readable, Printable, IsSequence
<1>4. DOMAIN shown = Clients /\ \A c \in Clients : Readable(said, c, shown[c], inbox[c])
  BY <1>1, <1>3
<1>5. Clients # {} => \E own, spent : Traced(own, spent)
  BY TraceStarts
<1>6. \A k \in 1 .. Len(messages) : IsTyped(said, messages[k])
  BY <1>1, <1>2
<1>7. SavesSaid
  BY <1>1 DEF SavesSaid
<1> QED
  BY <1>4, <1>5, <1>6, <1>7, LinesStart DEF QuoteInv

(* Where nothing changes, it stays.                                        *)
LEMMA QuoteStutter == QuoteInv /\ UNCHANGED all => QuoteInv'
<1> SUFFICES ASSUME QuoteInv, UNCHANGED all PROVE QuoteInv'
  OBVIOUS
<1>1. /\ inbox' = inbox /\ shown' = shown /\ said' = said /\ messages' = messages
      /\ pc' = pc /\ message' = message
  BY DEF all, vars, process, database, client
<1>2. LineIsLast' /\ SavesSaid'
  BY <1>1, LinesStutter DEF QuoteInv, SavesSaid
<1>3. Clients # {} => \E own, spent : Traced(own, spent)'
  BY TraceStutter DEF QuoteInv
<1> QED
  BY <1>1, <1>2, <1>3 DEF QuoteInv

(* Every step keeps it.                                                    *)
LEMMA QuoteStep ==
  ASSUME EofReads = {-1}, LinesAreWords, ServerInv, ServerInv', ConnInv, ConnInv', RecordsInv, ClientInv,
         [Next]_vars, ChatNext, QuoteInv
  PROVE  QuoteInv'
<1>1. /\ IInv /\ IInv' /\ FramesFit' /\ DmStaysPrivate' /\ LineTypes /\ ClientTypes
      /\ LineIsLast /\ SavesSaid
  BY DEF ServerInv, ClientInv, QuoteInv
<1>2. LineIsLast' /\ SaidGrows /\ SavesSaid'
  BY <1>1, LinesStep, SavesSaidStep
<1>3. CASE Clients = {}
  <2>1. DOMAIN shown = Clients
    BY DEF QuoteInv
  <2>2. DOMAIN shown' = Clients
    <3>1. shown' = shown
      BY <1>3 DEF ChatNext, ServerStep, RstStep, OperatorStep, client
    <3> QED
      BY <2>1, <3>1
  <2> QED
    BY <1>2, <1>3, <2>2 DEF QuoteInv
<1>4. CASE Clients # {}
  <2>1. /\ \A k \in 1 .. Len(messages) : IsTyped(said, messages[k])
        /\ DOMAIN shown = Clients /\ \A c \in Clients : Readable(said, c, shown[c], inbox[c])
    BY <1>4 DEF QuoteInv
  <2>2. PICK own, spent : Traced(own, spent)
    BY <1>4 DEF QuoteInv
  <2>3. PICK later, now : Traced(later, now)' /\ SameOwners(own, later)
    BY <1>1, <1>2, <2>2, TraceStep
  <2>4. ASSUME NEW k \in 1 .. Len(messages') PROVE IsTyped(said', messages'[k])
    <3>1. CASE IsSaved(messages'[k])
      BY <1>1, <1>2, <2>1, <3>1, TypedKept DEF IsSaved
    <3>2. CASE Utters(messages'[k])
      <4>1. \E at : TypedBy(said, at, messages'[k])
        BY <1>1, <2>2, <3>2, UtteredIsTyped, Zenon DEF Traced
      <4>2. IsTyped(said, messages'[k])
        BY <4>1 DEF IsTyped
      <4> QED
        BY <1>1, <1>2, <4>2, TypedKept
    <3> QED
      BY <1>1, <3>1, <3>2, LogQuotes
  <2>5. CASE ServerStep
    <3>1. shown' = shown /\ Loop
      BY <2>5 DEF ServerStep
    <3>2. ASSUME NEW c \in Clients PROVE Readable(said', c, shown'[c], inbox'[c])
      <4>1. Printable(said', c, shown[c])
        <5>1. Printable(said, c, shown[c])
          BY <2>1 DEF Readable
        <5> QED
          BY <1>1, <1>2, <5>1, PrintableKept
      <4>2. ASSUME NEW n \in 1 .. Len(inbox'[c]) PROVE Printable(said', c, inbox'[c][n].rows)
        <5>1. CASE n \in 1 .. Len(inbox[c]) /\ inbox'[c][n] = inbox[c][n]
          <6>1. Printable(said, c, inbox[c][n].rows)
            BY <2>1, <5>1 DEF Readable
          <6> QED
            BY <1>1, <1>2, <5>1, <6>1, PrintableKept
        <5>2. ASSUME conn[c] # -1, NEW m \in 1 .. Len(FramesTo(conn[c])), inbox'[c][n] = FramesTo(conn[c])[m]
              PROVE  Printable(said', c, inbox'[c][n].rows)
          <6>1. Printable(said', c, FramesTo(conn[c])[m].rows)
            BY <1>1, <1>2, <2>1, <2>2, <2>3, <3>1, <5>2, DeliveredIsPrintable
          <6> QED
            BY <5>2, <6>1
        <5> QED
          BY <1>1, <2>5, <5>1, <5>2, ServerDeliversIt
      <4> QED
        BY <3>1, <4>1, <4>2 DEF Readable
    <3> QED
      BY <1>2, <2>1, <2>3, <2>4, <3>1, <3>2 DEF QuoteInv
  <2>6. CASE ~ ServerStep
    <3>1. ASSUME NEW c \in Clients PROVE DOMAIN shown' = Clients /\ Readable(said', c, shown'[c], inbox'[c])
      <4>1. DOMAIN shown' = Clients /\ Readable(said, c, shown'[c], inbox'[c])
        BY <1>1, <2>1, <2>6, ClientsRead
      <4>2. \A rows : Printable(said, c, rows) => Printable(said', c, rows)
        BY <1>1, <1>2, PrintableKept
      <4> QED
        BY <4>1, <4>2 DEF Readable
    <3> QED
      BY <1>2, <1>4, <2>3, <2>4, <3>1 DEF QuoteInv
  <2> QED
    BY <2>5, <2>6
<1> QED
  BY <1>3, <1>4

(* It is an invariant of the chat.                                         *)
LEMMA QuotesAreTyped ==
  ASSUME EofReads = {-1}, LinesAreWords PROVE ChatSpec => [](QuoteInv /\ ClientTypes)
<1>1. ServerInv /\ ConnInv /\ RecordsInv /\ ClientInv /\ QuoteInv /\ [ChatNext]_all => QuoteInv'
  <2> SUFFICES ASSUME ServerInv, ConnInv, RecordsInv, ClientInv, QuoteInv, [ChatNext]_all
               PROVE  QuoteInv'
    OBVIOUS
  <2>1. ServerInv' /\ ConnInv' /\ [Next]_vars
    BY ChatInvStep
  <2> QED
    BY <2>1, QuoteStep, QuoteStutter
<1>2. ClientInv => ClientTypes
  BY DEF ClientInv
<1> QED
  BY <1>1, <1>2, QuoteInit, ChatRunsServer, ConnectionsAreApart, RecordsAreRequests, ClientsAreInPlace,
     PTL DEF ChatSpec

(* Whatever is printed as said by a user, at once or from a history, to all*)
(* or to one, was typed like that into a client whose user had asked before*)
(* to be him.  The assumptions are that an end of file is reported as -1   *)
(* and that users type words; histories may be asked for.                  *)
THEOREM PrintedLinesWereTyped ==
  ASSUME EofReads = {-1}, LinesAreWords PROVE ChatSpec => []PrintedWasTyped
<1>1. QuoteInv /\ ClientTypes => PrintedWasTyped
  <2> SUFFICES ASSUME QuoteInv, ClientTypes, NEW c \in Clients, NEW k \in 1 .. Len(shown[c])
               PROVE  \E at \in LinesTyped : /\ said[at[1]][at[2]] = TypedAs(shown[c][k])
                                             /\ \E j \in Asking(at[1], shown[c][k].from) : j < at[2]
    BY DEF PrintedWasTyped
  <2>1. IsTyped(said, shown[c][k])
    BY DEF QuoteInv, Readable, Printable
  <2>2. PICK at : TypedBy(said, at, shown[c][k])
    BY <2>1 DEF IsTyped
  <2>3. /\ at \in Clients \X (1 .. MaxLines) /\ at[1] \in Clients /\ at[2] \in 1 .. Len(said[at[1]])
        /\ said[at[1]][at[2]] = TypedAs(shown[c][k])
    BY <2>2 DEF TypedBy
  <2>4. at \in LinesTyped
    <3>1. Len(said[at[1]]) \in Nat
      BY <2>3 DEF ClientTypes
    <3> QED
      BY <2>3, <3>1 DEF LinesTyped
  <2>5. \E j \in Asking(at[1], shown[c][k].from) : j < at[2]
    BY <2>2 DEF TypedBy, Asking, AskingIn
  <2> QED
    BY <2>3, <2>4, <2>5
<1> QED
  BY <1>1, QuotesAreTyped, PTL

(* A private message is only ever printed by a client whose user has asked *)
(* to be its author or its addressee, whenever users log out, leave and    *)
(* take over names, slots and descriptors, and also if it is printed from a*)
(* history.  The assumptions are those of PrintedLinesWereTyped.           *)
THEOREM DmsStayWithTheirParties ==
  ASSUME EofReads = {-1}, LinesAreWords PROVE ChatSpec => []DmsReachTheirParties
<1>1. QuoteInv => DmsReachTheirParties
  <2> SUFFICES ASSUME QuoteInv, NEW c \in Clients, NEW k \in 1 .. Len(shown[c]), IsDm(shown[c][k])
               PROVE  Asking(c, shown[c][k].from) \cup Asking(c, shown[c][k].to) # {}
    BY DEF DmsReachTheirParties
  <2>1. IsParty(said[c], shown[c][k])
    BY DEF QuoteInv, Readable, Printable
  <2>2. \A name : Asking(c, name) = AskingIn(said[c], name)
    BY DEF Asking, AskingIn
  <2> QED
    BY <2>1, <2>2 DEF IsParty
<1> QED
  BY <1>1, QuotesAreTyped, PTL
=============================================================================
