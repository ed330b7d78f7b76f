------------------------------ MODULE MCServer ------------------------------
(***************************************************************************)
(* Server processes on one file, for TLC.                                  *)
(***************************************************************************)
EXTENDS Server
=============================================================================
