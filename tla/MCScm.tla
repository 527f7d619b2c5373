------------------------------- MODULE MCScm -------------------------------
(***************************************************************************)
(* Instances of Scm for TLC.                                               *)
(***************************************************************************)
EXTENDS Scm
=============================================================================
