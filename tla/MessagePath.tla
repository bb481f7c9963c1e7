---------------------------- MODULE MessagePath ----------------------------
(***************************************************************************)
(* The way of a line from the keyboard of a client to the arguments that   *)
(* the handler of the server is given: typed symbol by symbol, made into a *)
(* request, written as TLS records and read, a record at a time, by the    *)
(* server.                                                                 *)
(***************************************************************************)
EXTENDS ClientCommands

CONSTANTS Starts,      \* what a line may start with, besides a symbol
          Symbols,     \* what a line may consist of
          MaxLine,     \* bound: the symbols of a line
          RecordSize   \* the symbols of a TLS record (16384 bytes)

ASSUME PathAssumption ==
  /\ Starts \subseteq ClientOnly \cup {"/", "@"}
  /\ MaxLine \in Nat /\ RecordSize \in Nat \ {0} /\ RecordSize <= 99999

VARIABLES line,   \* what has been typed
          place,  \* "typing", "written" or "crashed"
          asked,  \* the arguments that the client has made of the line
          wire,   \* the records on their way
          got     \* the arguments of each command the server has executed

vars == <<line, place, asked, wire, got>>

Init == line = <<>> /\ place = "typing" /\ asked = <<>> /\ wire = <<>> /\ got = <<>>

(* utils_capture_n_string, up to the newline.                              *)
Type(symbol) ==
  /\ place = "typing" /\ Len(line) < MaxLine
  /\ symbol \in Starts => line = <<>>
  /\ line' = Append(line, symbol)
  /\ UNCHANGED <<place, asked, wire, got>>

(* Mutant: a last record is written that may be empty.                     *)
RecordsOf_empty(s) ==
  LET count == Len(s) \div RecordSize + 1
  IN  [k \in 1 .. count |->
         SubSeq(s, (k - 1) * RecordSize + 1, IF k = count THEN Len(s) ELSE k * RecordSize)]

(* OpenSSL cuts what it is given into records.                             *)
RecordsOf(s) ==
  LET count == (Len(s) + RecordSize - 1) \div RecordSize
  IN  [k \in 1 .. count |->
         SubSeq(s, (k - 1) * RecordSize + 1, IF k = count THEN Len(s) ELSE k * RecordSize)]

(* The newline.  With /exit the client ends, and another one starts.       *)
Enter ==
  /\ place = "typing"
  /\ \E request \in RequestsOf(line) :
       /\ asked' = request
       /\ wire' = IF request = <<>> THEN <<>> ELSE RecordsOf(Encoded(request))
  /\ place' = "written"
  /\ UNCHANGED <<line, got>>

Crash ==
  /\ place = "typing" /\ MayCrash(line)
  /\ place' = "crashed"
  /\ UNCHANGED <<line, asked, wire, got>>

(* What the loop of the server executes for a captured message; without an *)
(* argument it is not known what.                                          *)
CommandOf(message) ==
  IF message = <<>> THEN << <<"CLOSE">> >> ELSE apim_parse_args(message)

Capture ==
  /\ wire # <<>>
  /\ \E message \in apim_capture_socket_msg(Head(wire)) : got' = Append(got, CommandOf(message))
  /\ wire' = Tail(wire)
  /\ UNCHANGED <<line, place, asked>>

NextLine ==
  /\ place \in {"written", "crashed"} /\ wire = <<>>
  /\ line' = <<>> /\ place' = "typing" /\ asked' = <<>> /\ got' = <<>>
  /\ UNCHANGED wire

Next == Enter \/ Crash \/ Capture \/ NextLine \/ \E symbol \in Starts \cup Symbols : Type(symbol)

Spec == Init /\ [][Next]_vars

-----------------------------------------------------------------------------
(* What can be relied on, of lines that are not taken apart.               *)

(* Every variable has its type.                                            *)
PathTypeOK ==
  /\ line \in Seq(Starts \cup Symbols) /\ Len(line) <= MaxLine
  /\ place \in {"typing", "written", "crashed"}
  /\ \A k \in 1 .. Len(wire) : Len(wire[k]) \in 1 .. RecordSize
  /\ asked = <<>> => wire = <<>> /\ got = <<>>

Arrived == place = "written" /\ wire = <<>> /\ asked # <<>>

FitsRecord == Len(Encoded(asked)) <= RecordSize

IsClean(argument) == argument # <<>> /\ "|" \notin ToSet(argument)

(* What is free of pipes and nowhere empty arrives as it was sent: the     *)
(* length in front, the separators and the two counts of them, by          *)
(* apim_count_args and by argc_to_pos, fit together.                       *)
RoundTrip ==
  Arrived /\ FitsRecord /\ (\A k \in DOMAIN asked : IsClean(asked[k])) => got = <<asked>>

(* An argument that has pipes in it, or is empty, spoils no clean argument *)
(* before it, unless it is an empty one right behind it.                   *)
CleanArgumentsArrive ==
  Arrived /\ FitsRecord =>
    \A k \in DOMAIN asked :
      (\A j \in 1 .. k : IsClean(asked[j])) /\ (k < Len(asked) => asked[k + 1] # <<>>) =>
        SubSeq(got[1], 1, k) = SubSeq(asked, 1, k)

(* Nothing that is typed as a name or a text makes the server execute      *)
(* another command than the one that the client chose.                     *)
NoOtherCommand ==
  Arrived /\ FitsRecord =>
    Len(got) = 1 /\ got[1] # <<>> /\ got[1][1] \in {asked[1], asked[1] \o <<"|", "|">>}

Joined(args) ==
  LET text[n \in 1 .. Len(args)] == IF n = 1 THEN args[1] ELSE text[n - 1] \o <<Space>> \o args[n]
  IN  text[Len(args)]

(* The arguments of a command are the line cut at every space, nothing     *)
(* lost and nothing added, and only behind a space at the end of the line  *)
(* is one left out (utils_str_to_args): elsewhere no handler of the client *)
(* works with memory that nobody filled.                                   *)
ArgumentsAreTheLine ==
  line # <<>> =>
    LET args == utils_str_to_args(line)
    IN  /\ \A k \in DOMAIN args : args[k] = NULL => k = Len(args) /\ line[Len(line)] = Space
        /\ Joined([k \in DOMAIN args |-> IF args[k] = NULL THEN <<>> ELSE args[k]]) = line

(* What a client sends to everybody was not meant as a command or for one  *)
(* user, and a private text is what follows the first space.               *)
LinesAreUnderstood ==
  asked # <<>> =>
    /\ asked[1] = <<"GLOBAL">> => asked[2] = line /\ (line = <<>> \/ line[1] \notin Starts)
    /\ asked[1] = <<"DM">> /\ IsClean(asked[3]) /\ Junk \notin ToSet(asked[3]) =>
         line = <<"@">> \o asked[2] \o <<Space>> \o asked[3] /\ Space \notin ToSet(asked[2])
=============================================================================
