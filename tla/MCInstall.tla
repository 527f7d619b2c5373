----------------------------- MODULE MCInstall -----------------------------
(***************************************************************************)
(* Instances of Install for TLC.                                           *)
(***************************************************************************)
EXTENDS Install

\* Any step may fail.
AllFaults == Steps
=============================================================================
