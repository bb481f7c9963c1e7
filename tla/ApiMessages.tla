---------------------------- MODULE ApiMessages ----------------------------
(***************************************************************************)
(* The format of the messages that clients and server exchange             *)
(* (api-messages.c), such as 29||LOGIN||someusername||123456.  A string is *)
(* a sequence of symbols: a symbol is one character, or a word that        *)
(* nothing here looks into.  Positions are counts of the symbols before.   *)
(***************************************************************************)
EXTENDS Integers, Sequences, SequencesExt

(* Whatever the memory holds where nothing was written.                    *)
Junk == "?"

Digits == <<"0", "1", "2", "3", "4", "5", "6", "7", "8", "9">>

DecimalOf[n \in Nat] ==
  IF n < 10 THEN <<Digits[n + 1]>> ELSE Append(DecimalOf[n \div 10], Digits[(n % 10) + 1])

ValueOf(digit) == CHOOSE d \in 0 .. 9 : Digits[d + 1] = digit

atoi(s) ==
  LET value[n \in 0 .. Len(s)] == IF n = 0 THEN 0 ELSE 10 * value[n - 1] + ValueOf(s[n])
  IN  value[Len(s)]

(* The smallest of a set of positions, or the end of the string.           *)
FirstOf(positions, s) ==
  IF positions = {} THEN Len(s) ELSE CHOOSE i \in positions : \A j \in positions : i <= j

(* The number of pipes in a row that end at each position.                 *)
PipesInRow(s) ==
  LET row[i \in 0 .. Len(s)] == IF i = 0 \/ s[i] # "|" THEN 0 ELSE row[i - 1] + 1 IN row

(* Where a separator ends: the count of pipes starts again after two.      *)
SeparatorEnds(s) ==
  LET row == PipesInRow(s) IN {i \in 1 .. Len(s) : row[i] > 0 /\ row[i] % 2 = 0}

-----------------------------------------------------------------------------
(* Mutant: the separator that precedes the argument is not counted.        *)
argc_to_pos_early(s, argc) ==
  FirstOf({i \in SeparatorEnds(s) : Cardinality({j \in SeparatorEnds(s) : j < i}) + 1 = argc}, s)

(* Where argument number argc, from 0, starts.                             *)
argc_to_pos(s, argc) ==
  FirstOf({i \in SeparatorEnds(s) : Cardinality({j \in SeparatorEnds(s) : j < i}) = argc}, s)

(* Mutant: the pipes of the next separator are left in the argument.       *)
apim_read_param_piped(s, argc) ==
  LET start == argc_to_pos(s, argc)
      end == FirstOf({i \in start + 2 .. Len(s) : s[i - 1] = "|" /\ s[i] = "|"}, s)
  IN  SubSeq(s, start + 1, end)

(* The argument ends before the next two pipes; but two pipes that end the *)
(* string are taken for a part of it.                                      *)
apim_read_param(s, argc) ==
  LET start == argc_to_pos(s, argc)
      end == FirstOf({i \in start + 2 .. Len(s) : s[i - 1] = "|" /\ s[i] = "|"}, s)
      pipe_account == IF end >= Len(s) THEN 0 ELSE 2
  IN  SubSeq(s, start + 1, end - pipe_account)

(* Here the count of pipes does not start again, and a row counts once.    *)
apim_count_args(s) == LET row == PipesInRow(s) IN Cardinality({i \in 1 .. Len(s) : row[i] = 2})

apim_parse_args(s) == [i \in 1 .. apim_count_args(s) |-> apim_read_param(s, i - 1)]

apim_add_param(s, param) == s \o <<"|", "|">> \o param

(* Mutant: the separator in front is not counted.                          *)
apim_finish_short(s) == DecimalOf[IF Len(s) > 2 THEN Len(s) - 2 ELSE 0] \o s

apim_finish(s) == DecimalOf[Len(s)] \o s

(* What a caller builds of its arguments and writes.                       *)
Encoded(args) ==
  LET text[n \in 0 .. Len(args)] == IF n = 0 THEN <<>> ELSE apim_add_param(text[n - 1], args[n])
  IN  apim_finish(text[Len(args)])

(* The messages that can be captured of a record that was read: as many    *)
(* characters as it says, whether they have arrived or not.                *)
apim_capture_socket_msg(record) ==
  LET NonDigits == {i \in 1 .. Len(record) : record[i] \notin ToSet(Digits)}
      end == IF NonDigits = {} THEN Len(record) ELSE FirstOf(NonDigits, record) - 1
      digits == IF end > 5 THEN 5 ELSE end
      length == atoi(SubSeq(record, 1, digits))
      rest == SubSeq(record, digits + 1, Len(record))
  IN  IF length <= Len(rest) THEN {SubSeq(rest, 1, length)}
      ELSE {rest \o [i \in 1 .. k |-> Junk] : k \in 0 .. length - Len(rest)}
=============================================================================
