---------------------------- MODULE MCOsConfig ----------------------------
(***************************************************************************)
(* Instances of OsConfig for TLC.                                          *)
(***************************************************************************)
EXTENDS OsConfig, TLC

AllOses == {"linux", "macos", "windows", "other"}
AllPriors == {"fresh", "legacy", "user", "othertld"}

\* Addresses are only compared with each other.
Symmetric == Permutations(Ips)
=============================================================================
