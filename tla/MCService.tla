---------------------------- MODULE MCService ----------------------------
(***************************************************************************)
(* Two runs of dig-dns on one machine, in the ways they meet: a service    *)
(* beside a foreground `serve`, or a service and its own next start.       *)
(***************************************************************************)
EXTENDS Service

P1 == "service"
P2 == "second"
MCProcs == {P1, P2}
=============================================================================
