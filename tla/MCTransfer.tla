----------------------------- MODULE MCTransfer -----------------------------
(***************************************************************************)
(* TLC instances of Transfer.                                              *)
(***************************************************************************)
EXTENDS Transfer

CONSTANTS d1, d2

\* A file of three cells in one directory, none in the other.
MCRemote == (d1 :> 3) @@ (d2 :> Nothing)
=============================================================================
