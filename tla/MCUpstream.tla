----------------------------- MODULE MCUpstream -----------------------------
(***************************************************************************)
(* Instances of Upstream for TLC, with the timeouts of the code.           *)
(***************************************************************************)
EXTENDS Upstream
=============================================================================
