------------------------------ MODULE Registry ------------------------------
(***************************************************************************)
(* What `dig-dns install` promises of the service registration, whatever   *)
(* the service manager (service.rs, reinstall): a registration is never    *)
(* reconfigured in place, so a plan is registered only when none is; and   *)
(* an install reports success only while its own plan is registered.       *)
(***************************************************************************)
CONSTANTS
  Plan,     \* the plans of all invocations
  Absent    \* no registration, no report; not one of the plans

VARIABLES
  held,     \* the registered plan
  report    \* the plan whose install has reported success, until the next command

Register(p) ==
  /\ held = Absent
  /\ held' = p
  /\ UNCHANGED report

Unregister ==
  /\ held' = Absent
  /\ UNCHANGED report

Report(p) ==
  /\ held = p
  /\ report' = p
  /\ UNCHANGED held

NextCommand ==
  /\ report' = Absent
  /\ UNCHANGED held

Init == held = Absent /\ report = Absent

Next ==
  \/ \E p \in Plan : Register(p) \/ Report(p)
  \/ Unregister
  \/ NextCommand

Spec == Init /\ [][Next]_<<held, report>>
=============================================================================
