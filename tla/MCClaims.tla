------------------------------ MODULE MCClaims ------------------------------
(***************************************************************************)
(* Instances of the server with the history of who asked to be whom.       *)
(***************************************************************************)
EXTENDS ServerClaims, MCServer
=============================================================================
