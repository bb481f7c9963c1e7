--------------------------- MODULE MCMessagePath ---------------------------
(***************************************************************************)
(* An instance of the way of a line for TLC.  A symbol of the text may be  *)
(* a letter, a digit, a pipe, a space or the name of a command of the      *)
(* server; a hash is one symbol.                                           *)
(***************************************************************************)
EXTENDS MessagePath

Hash(password) == <<"hash">>

LineStarts == {"/", "@"} \cup ClientOnly

LineSymbols == {"|", " ", "a", "7", "CLOSE"}
=============================================================================
