----------------------------- MODULE ScmProofs -----------------------------
(***************************************************************************)
(* Proofs about Scm, for every number of invocations, of faults and of     *)
(* removal polls.                                                          *)
(***************************************************************************)
EXTENDS Scm, TLAPS

\* What ties the process, the mark and the command's place to the registration: a process
\* and a mark belong to a service that is there, and between create and start an install
\* has its own plan registered, unmarked.
Ties ==
  /\ proc # None => db # None
  /\ marked => db # None
  /\ pc # "idle" => run \in Plans
  /\ pc \in {"is_installed", "wait", "create"} => cmd = "install"
  /\ pc = "stop" => cmd # "start"
  /\ pc = "delete" => cmd \in {"install", "uninstall"}
  /\ pc = "start" => cmd \in {"install", "start"}
  /\ pc = "start" /\ cmd = "install" => db = run /\ ~marked

(* The conjuncts of the type invariant, by kind: no prover has arithmetic and truth     *)
(* values in one step.                                                                  *)
Numbers == run \in 0..MaxRuns /\ poll \in 0..REMOVAL_POLL_ATTEMPTS /\ faults \in 0..MaxFaults
Words ==
  /\ cmd \in Commands /\ pc \in Phases
  /\ result \in {"none", "ok", "err", "denied", "killed"}
Flags == misled \in BOOLEAN /\ marked \in BOOLEAN /\ stopping \in BOOLEAN /\ handle \in BOOLEAN
Holders == db \in Plans \cup {None} /\ proc \in Plans \cup {None}

\* The inductive invariant.
ScmInv == TypeOK /\ Ties /\ CreateFindsNone /\ UninstalledForGood

-----------------------------------------------------------------------------
LEMMA InitInv == Init => ScmInv
<1> SUFFICES ASSUME Init PROVE ScmInv
  OBVIOUS
<1>1. Numbers /\ Words
  BY PollAssumption, BoundAssumption DEF Init, Numbers, Words, Commands, Phases
<1>2. Flags /\ Holders
  BY Zenon DEF Init, Flags, Holders
<1>3. Ties /\ CreateFindsNone /\ UninstalledForGood
  BY DEF Init, Ties, CreateFindsNone, UninstalledForGood, Succeeded
<1>4. QED BY <1>1, <1>2, <1>3
       DEF ScmInv, TypeOK, Numbers, Words, Flags, Holders

LEMMA InvokeInv ==
  ASSUME ScmInv, NEW c \in Commands, NEW elevated \in BOOLEAN, Invoke(c, elevated)
  PROVE  ScmInv'
<1>1. Numbers'
  BY BoundAssumption, PollAssumption DEF ScmInv, TypeOK, Numbers, Invoke
<1>2. Words'
  BY DEF Words, Commands, Phases, Invoke
<1>3. Flags' /\ Holders'
  BY Zenon DEF ScmInv, TypeOK, Flags, Holders, Invoke, scm
<1>4. Ties'
  BY BoundAssumption DEF ScmInv, TypeOK, Ties, Invoke, Commands, Plans, scm
<1>5. CreateFindsNone' /\ UninstalledForGood'
  BY DEF Invoke, Commands, CreateFindsNone, UninstalledForGood, Succeeded
<1>6. QED BY <1>1, <1>2, <1>3, <1>4, <1>5
       DEF ScmInv, TypeOK, Numbers, Words, Flags, Holders

LEMMA StepInv ==
  ASSUME ScmInv, Step
  PROVE  ScmInv'
<1>1. ASSUME NEW found \in BOOLEAN, IsInstalled(found)
      PROVE  ScmInv'
  <2>1. Numbers'
    BY <1>1, BoundAssumption, PollAssumption
       DEF ScmInv, TypeOK, Numbers, IsInstalled, query_installed, Goes, Faulty, scm, cli
  <2>2. Words'
    BY <1>1
       DEF ScmInv, TypeOK, Words, Commands, Phases, IsInstalled,
           query_installed, Goes, Faulty, scm, cli
  <2>3. Flags'
    BY <1>1, Zenon DEF ScmInv, TypeOK, Flags, IsInstalled, query_installed, Goes, Faulty, scm
  <2>4. Holders'
    BY <1>1 DEF ScmInv, TypeOK, Ties, Holders, IsInstalled, query_installed, Goes, Faulty, scm, cli
  <2>5. Ties'
    BY <1>1, NoneAssumption
       DEF ScmInv, TypeOK, Ties, CreateFindsNone, IsInstalled,
           query_installed, Goes, Faulty, scm, cli
  <2>6. CreateFindsNone'
    BY <1>1
       DEF ScmInv, TypeOK, Ties, CreateFindsNone, IsInstalled, query_installed, Goes, Faulty, scm
  <2>7. UninstalledForGood'
    BY <1>1
       DEF ScmInv, TypeOK, Ties, UninstalledForGood, Succeeded, IsInstalled,
           query_installed, Goes, Faulty, scm, cli
  <2>8. QED BY <2>1, <2>2, <2>3, <2>4, <2>5, <2>6, <2>7
       DEF ScmInv, TypeOK, Numbers, Words, Flags, Holders
<1>2. ASSUME NEW found \in BOOLEAN, WaitForRemoval(found)
      PROVE  ScmInv'
  <2>1. Numbers'
    BY <1>2, BoundAssumption, PollAssumption
       DEF ScmInv, TypeOK, Numbers, WaitForRemoval, query_installed,
           Goes, Returns, Faulty, scm, cli
  <2>2. Words'
    BY <1>2
       DEF ScmInv, TypeOK, Words, Commands, Phases, WaitForRemoval,
           query_installed, Goes, Returns, Faulty, scm, cli
  <2>3. Flags'
    BY <1>2, Zenon
       DEF ScmInv, TypeOK, Flags, WaitForRemoval, query_installed, Goes, Returns, Faulty, scm
  <2>4. Holders'
    BY <1>2
       DEF ScmInv, TypeOK, Ties, Holders, WaitForRemoval, query_installed,
           Goes, Returns, Faulty, scm, cli
  <2>5. Ties'
    BY <1>2, NoneAssumption
       DEF ScmInv, TypeOK, Ties, CreateFindsNone, WaitForRemoval, query_installed,
           Goes, Returns, Faulty, scm, cli
  <2>6. CreateFindsNone'
    BY <1>2
       DEF ScmInv, TypeOK, Ties, CreateFindsNone, WaitForRemoval,
           query_installed, Goes, Returns, Faulty, scm
  <2>7. UninstalledForGood'
    BY <1>2
       DEF ScmInv, TypeOK, Ties, UninstalledForGood, Succeeded, WaitForRemoval,
           query_installed, Goes, Returns, Faulty, scm, cli
  <2>8. QED BY <2>1, <2>2, <2>3, <2>4, <2>5, <2>6, <2>7
       DEF ScmInv, TypeOK, Numbers, Words, Flags, Holders
<1>3. CASE Stop
  <2>1. Numbers'
    BY <1>3, BoundAssumption, PollAssumption
       DEF ScmInv, TypeOK, Numbers, Stop, Goes, Returns, Faulty, cli
  <2>2. Words'
    BY <1>3 DEF ScmInv, TypeOK, Words, Commands, Phases, Stop, Goes, Returns, Faulty, cli
  <2>3. Flags'
    BY <1>3, Zenon DEF ScmInv, TypeOK, Flags, Stop, Goes, Returns, Faulty
  <2>4. Holders'
    BY <1>3 DEF ScmInv, TypeOK, Ties, Holders, Stop, Goes, Returns, Faulty, cli
  <2>5. Ties'
    BY <1>3, NoneAssumption
       DEF ScmInv, TypeOK, Commands, Ties, CreateFindsNone, Stop, Goes, Returns, Faulty, cli
  <2>6. CreateFindsNone'
    BY <1>3 DEF ScmInv, TypeOK, Ties, CreateFindsNone, Stop, Goes, Returns, Faulty
  <2>7. UninstalledForGood'
    BY <1>3
       DEF ScmInv, TypeOK, Ties, UninstalledForGood, Succeeded, Stop, Goes, Returns, Faulty, cli
  <2>8. QED BY <2>1, <2>2, <2>3, <2>4, <2>5, <2>6, <2>7
       DEF ScmInv, TypeOK, Numbers, Words, Flags, Holders
<1>4. CASE Delete
  <2>1. Numbers'
    BY <1>4, BoundAssumption, PollAssumption
       DEF ScmInv, TypeOK, Numbers, Delete, Goes, Returns, Faulty, cli
  <2>2. Words'
    BY <1>4 DEF ScmInv, TypeOK, Words, Commands, Phases, Delete, Goes, Returns, Faulty, cli
  <2>3. Flags'
    BY <1>4, Zenon DEF ScmInv, TypeOK, Flags, Delete, Goes, Returns, Faulty
  <2>4. Holders'
    BY <1>4 DEF ScmInv, TypeOK, Ties, Holders, Delete, Goes, Returns, Faulty, cli
  <2>5. Ties'
    BY <1>4, NoneAssumption
       DEF ScmInv, TypeOK, Ties, CreateFindsNone, Delete, Goes, Returns, Faulty, cli
  <2>6. CreateFindsNone'
    BY <1>4 DEF ScmInv, TypeOK, Ties, CreateFindsNone, Delete, Goes, Returns, Faulty
  <2>7. UninstalledForGood'
    BY <1>4
       DEF ScmInv, TypeOK, Ties, UninstalledForGood, Succeeded, Delete, Goes, Returns, Faulty, cli
  <2>8. QED BY <2>1, <2>2, <2>3, <2>4, <2>5, <2>6, <2>7
       DEF ScmInv, TypeOK, Numbers, Words, Flags, Holders
<1>5. CASE Create
  <2>1. Numbers'
    BY <1>5, BoundAssumption, PollAssumption
       DEF ScmInv, TypeOK, Numbers, Create, Goes, Returns, Faulty, cli
  <2>2. Words'
    BY <1>5 DEF ScmInv, TypeOK, Words, Commands, Phases, Create, Goes, Returns, Faulty, cli
  <2>3. Flags'
    BY <1>5, Zenon DEF ScmInv, TypeOK, Flags, Create, Goes, Returns, Faulty
  <2>4. Holders'
    BY <1>5 DEF ScmInv, TypeOK, Ties, Holders, Create, Goes, Returns, Faulty, cli
  <2>5. Ties'
    BY <1>5, NoneAssumption
       DEF ScmInv, TypeOK, Ties, CreateFindsNone, Create, Goes, Returns, Faulty, cli
  <2>6. CreateFindsNone'
    BY <1>5 DEF ScmInv, TypeOK, Ties, CreateFindsNone, Create, Goes, Returns, Faulty
  <2>7. UninstalledForGood'
    BY <1>5
       DEF ScmInv, TypeOK, Ties, UninstalledForGood, Succeeded, Create, Goes, Returns, Faulty, cli
  <2>8. QED BY <2>1, <2>2, <2>3, <2>4, <2>5, <2>6, <2>7
       DEF ScmInv, TypeOK, Numbers, Words, Flags, Holders
<1>6. CASE Start
  <2>1. Numbers'
    BY <1>6, BoundAssumption, PollAssumption
       DEF ScmInv, TypeOK, Numbers, Start, Goes, Returns, Faulty, cli
  <2>2. Words'
    BY <1>6 DEF ScmInv, TypeOK, Words, Commands, Phases, Start, Goes, Returns, Faulty, cli
  <2>3. Flags'
    BY <1>6, Zenon DEF ScmInv, TypeOK, Flags, Start, Goes, Returns, Faulty
  <2>4. Holders'
    BY <1>6 DEF ScmInv, TypeOK, Ties, Holders, Start, Goes, Returns, Faulty, cli
  <2>5. Ties'
    BY <1>6, NoneAssumption
       DEF ScmInv, TypeOK, Ties, CreateFindsNone, Start, Goes, Returns, Faulty, cli
  <2>6. CreateFindsNone'
    BY <1>6 DEF ScmInv, TypeOK, Ties, CreateFindsNone, Start, Goes, Returns, Faulty
  <2>7. UninstalledForGood'
    BY <1>6
       DEF ScmInv, TypeOK, Ties, UninstalledForGood, Succeeded, Start, Goes, Returns, Faulty, cli
  <2>8. QED BY <2>1, <2>2, <2>3, <2>4, <2>5, <2>6, <2>7
       DEF ScmInv, TypeOK, Numbers, Words, Flags, Holders
<1>7. QED BY <1>1, <1>2, <1>3, <1>4, <1>5, <1>6 DEF Step

LEMMA EnvironmentInv ==
  ASSUME ScmInv,
         Killed \/ Reboot \/ Vanishes \/ ProcessEnds \/ ConsoleOpens \/ ConsoleCloses
  PROVE  ScmInv'
<1>1. CASE Killed
  <2>1. Numbers'
    BY <1>1, BoundAssumption, PollAssumption
       DEF ScmInv, TypeOK, Numbers, Killed, Returns, Faulty, scm, cli
  <2>2. Words'
    BY <1>1 DEF ScmInv, TypeOK, Words, Commands, Phases, Killed, Returns, Faulty, scm, cli
  <2>3. Flags'
    BY <1>1, Zenon DEF ScmInv, TypeOK, Flags, Killed, Returns, Faulty, scm
  <2>4. Holders'
    BY <1>1 DEF ScmInv, TypeOK, Ties, Holders, Killed, Returns, Faulty, scm, cli
  <2>5. Ties'
    BY <1>1, NoneAssumption
       DEF ScmInv, TypeOK, Ties, CreateFindsNone, Killed, Returns, Faulty, scm, cli
  <2>6. CreateFindsNone'
    BY <1>1 DEF ScmInv, TypeOK, Ties, CreateFindsNone, Killed, Returns, Faulty, scm
  <2>7. UninstalledForGood'
    BY <1>1
       DEF ScmInv, TypeOK, Ties, UninstalledForGood, Succeeded, Killed, Returns, Faulty, scm, cli
  <2>8. QED BY <2>1, <2>2, <2>3, <2>4, <2>5, <2>6, <2>7
       DEF ScmInv, TypeOK, Numbers, Words, Flags, Holders
<1>2. CASE Reboot
  <2>1. Numbers'
    BY <1>2, BoundAssumption, PollAssumption DEF ScmInv, TypeOK, Numbers, Reboot, cli
  <2>2. Words'
    BY <1>2 DEF ScmInv, TypeOK, Words, Commands, Phases, Reboot, cli
  <2>3. Flags'
    BY <1>2, Zenon DEF ScmInv, TypeOK, Flags, Reboot
  <2>4. Holders'
    BY <1>2 DEF ScmInv, TypeOK, Ties, Holders, Reboot, cli
  <2>5. Ties'
    BY <1>2, NoneAssumption DEF ScmInv, TypeOK, Ties, CreateFindsNone, Reboot, cli
  <2>6. CreateFindsNone'
    BY <1>2 DEF ScmInv, TypeOK, Ties, CreateFindsNone, Reboot
  <2>7. UninstalledForGood'
    BY <1>2 DEF ScmInv, TypeOK, Ties, UninstalledForGood, Succeeded, Reboot, cli
  <2>8. QED BY <2>1, <2>2, <2>3, <2>4, <2>5, <2>6, <2>7
       DEF ScmInv, TypeOK, Numbers, Words, Flags, Holders
<1>3. CASE Vanishes
  <2>1. Numbers'
    BY <1>3, BoundAssumption, PollAssumption DEF ScmInv, TypeOK, Numbers, Vanishes, cli
  <2>2. Words'
    BY <1>3 DEF ScmInv, TypeOK, Words, Commands, Phases, Vanishes, cli
  <2>3. Flags'
    BY <1>3, Zenon DEF ScmInv, TypeOK, Flags, Vanishes
  <2>4. Holders'
    BY <1>3 DEF ScmInv, TypeOK, Ties, Holders, Vanishes, cli
  <2>5. Ties'
    BY <1>3, NoneAssumption DEF ScmInv, TypeOK, Ties, CreateFindsNone, Vanishes, cli
  <2>6. CreateFindsNone'
    BY <1>3 DEF ScmInv, TypeOK, Ties, CreateFindsNone, Vanishes
  <2>7. UninstalledForGood'
    BY <1>3 DEF ScmInv, TypeOK, Ties, UninstalledForGood, Succeeded, Vanishes, cli
  <2>8. QED BY <2>1, <2>2, <2>3, <2>4, <2>5, <2>6, <2>7
       DEF ScmInv, TypeOK, Numbers, Words, Flags, Holders
<1>4. CASE ProcessEnds
  <2>1. Numbers'
    BY <1>4, BoundAssumption, PollAssumption DEF ScmInv, TypeOK, Numbers, ProcessEnds, cli
  <2>2. Words'
    BY <1>4 DEF ScmInv, TypeOK, Words, Commands, Phases, ProcessEnds, cli
  <2>3. Flags'
    BY <1>4, Zenon DEF ScmInv, TypeOK, Flags, ProcessEnds
  <2>4. Holders'
    BY <1>4 DEF ScmInv, TypeOK, Ties, Holders, ProcessEnds, cli
  <2>5. Ties'
    BY <1>4, NoneAssumption DEF ScmInv, TypeOK, Ties, CreateFindsNone, ProcessEnds, cli
  <2>6. CreateFindsNone'
    BY <1>4 DEF ScmInv, TypeOK, Ties, CreateFindsNone, ProcessEnds
  <2>7. UninstalledForGood'
    BY <1>4 DEF ScmInv, TypeOK, Ties, UninstalledForGood, Succeeded, ProcessEnds, cli
  <2>8. QED BY <2>1, <2>2, <2>3, <2>4, <2>5, <2>6, <2>7
       DEF ScmInv, TypeOK, Numbers, Words, Flags, Holders
<1>5. CASE ConsoleOpens
  <2>1. Numbers'
    BY <1>5, BoundAssumption, PollAssumption DEF ScmInv, TypeOK, Numbers, ConsoleOpens, Faulty, cli
  <2>2. Words'
    BY <1>5 DEF ScmInv, TypeOK, Words, Commands, Phases, ConsoleOpens, Faulty, cli
  <2>3. Flags'
    BY <1>5, Zenon DEF ScmInv, TypeOK, Flags, ConsoleOpens, Faulty
  <2>4. Holders'
    BY <1>5 DEF ScmInv, TypeOK, Ties, Holders, ConsoleOpens, Faulty, cli
  <2>5. Ties'
    BY <1>5, NoneAssumption DEF ScmInv, TypeOK, Ties, CreateFindsNone, ConsoleOpens, Faulty, cli
  <2>6. CreateFindsNone'
    BY <1>5 DEF ScmInv, TypeOK, Ties, CreateFindsNone, ConsoleOpens, Faulty
  <2>7. UninstalledForGood'
    BY <1>5 DEF ScmInv, TypeOK, Ties, UninstalledForGood, Succeeded, ConsoleOpens, Faulty, cli
  <2>8. QED BY <2>1, <2>2, <2>3, <2>4, <2>5, <2>6, <2>7
       DEF ScmInv, TypeOK, Numbers, Words, Flags, Holders
<1>6. CASE ConsoleCloses
  <2>1. Numbers'
    BY <1>6, BoundAssumption, PollAssumption DEF ScmInv, TypeOK, Numbers, ConsoleCloses, cli
  <2>2. Words'
    BY <1>6 DEF ScmInv, TypeOK, Words, Commands, Phases, ConsoleCloses, cli
  <2>3. Flags'
    BY <1>6, Zenon DEF ScmInv, TypeOK, Flags, ConsoleCloses
  <2>4. Holders'
    BY <1>6 DEF ScmInv, TypeOK, Ties, Holders, ConsoleCloses, cli
  <2>5. Ties'
    BY <1>6, NoneAssumption DEF ScmInv, TypeOK, Ties, CreateFindsNone, ConsoleCloses, cli
  <2>6. CreateFindsNone'
    BY <1>6 DEF ScmInv, TypeOK, Ties, CreateFindsNone, ConsoleCloses
  <2>7. UninstalledForGood'
    BY <1>6 DEF ScmInv, TypeOK, Ties, UninstalledForGood, Succeeded, ConsoleCloses, cli
  <2>8. QED BY <2>1, <2>2, <2>3, <2>4, <2>5, <2>6, <2>7
       DEF ScmInv, TypeOK, Numbers, Words, Flags, Holders
<1>7. QED BY <1>1, <1>2, <1>3, <1>4, <1>5, <1>6

LEMMA NextInv == ScmInv /\ [Next]_vars => ScmInv'
<1> SUFFICES ASSUME ScmInv, [Next]_vars PROVE ScmInv'
  OBVIOUS
<1>1. CASE UNCHANGED vars
  BY <1>1 DEF ScmInv, TypeOK, Ties, CreateFindsNone, UninstalledForGood, Succeeded, vars, cli, scm
<1>2. CASE Next
  BY <1>2, InvokeInv, StepInv, EnvironmentInv DEF Next
<1>3. QED BY <1>1, <1>2

\* The inductive invariant holds of every behaviour of the commands and the service
\* control manager.
THEOREM ScmInvariant == Spec => []ScmInv
<1>1. QED BY InitInv, NextInv, PTL DEF Spec

\* Type correctness of the Windows installation.  (service.rs, reinstall over the SCM)
THEOREM ScmTypes == Spec => []TypeOK
<1>1. ScmInv => TypeOK
  BY DEF ScmInv
<1>2. QED BY <1>1, ScmInvariant, PTL

\* reinstall never creates onto a service that is still there, however long its removal
\* takes and whoever holds it open, unless a probe could not run.  (wait_for_removal)
THEOREM CreateSafe == Spec => []CreateFindsNone
<1>1. ScmInv => CreateFindsNone
  BY DEF ScmInv
<1>2. QED BY <1>1, ScmInvariant, PTL

\* An uninstall that said Ok leaves no service, or one that can never run again.
\* (uninstall)
THEOREM UninstallHolds == Spec => []UninstalledForGood
<1>1. ScmInv => UninstalledForGood
  BY DEF ScmInv
<1>2. QED BY <1>1, ScmInvariant, PTL

-----------------------------------------------------------------------------
(* The refinement. *)

ReportOf == IF Succeeded("install") THEN run ELSE None

LEMMA RefineInit == Init => Contract!Init
  BY DEF Init, Contract!Init, Succeeded

LEMMA RefineStep == ScmInv /\ [Next]_vars => [Contract!Next]_<<db, ReportOf>>
<1> SUFFICES ASSUME ScmInv, [Next]_vars PROVE [Contract!Next]_<<db, ReportOf>>
  OBVIOUS
<1> USE BoundAssumption, NoneAssumption
<1>1. ASSUME NEW c \in Commands, NEW elevated \in BOOLEAN, Invoke(c, elevated)
      PROVE  Contract!NextCommand
  BY <1>1 DEF Invoke, Commands, Contract!NextCommand, Succeeded, scm
<1>2. ASSUME NEW found \in BOOLEAN, IsInstalled(found) \/ WaitForRemoval(found)
      PROVE  UNCHANGED <<db, ReportOf>>
  BY <1>2 DEF IsInstalled, WaitForRemoval, Goes, Returns, Succeeded, ReportOf, scm
<1>3. CASE Stop \/ Delete
  <2>1. UNCHANGED db
    BY <1>3 DEF Stop, Delete
  <2>2. UNCHANGED ReportOf
    BY <1>3 DEF ScmInv, TypeOK, Stop, Delete, Goes, Returns, Succeeded, ReportOf, cli
  <2>3. QED BY <2>1, <2>2
<1>4. CASE Create
  <2>1. UNCHANGED ReportOf
    BY <1>4 DEF Create, Goes, Returns, Succeeded, ReportOf
  <2>2. CASE db = None /\ db' = run
    BY <1>4, <2>1, <2>2 DEF ScmInv, Ties, Create, Contract!Next, Contract!Register, ReportOf
  <2>3. CASE UNCHANGED db
    BY <2>1, <2>3
  <2>4. QED BY <1>4, <2>2, <2>3 DEF Create
<1>5. CASE Start
  <2>1. UNCHANGED db
    BY <1>5 DEF Start
  <2>2. CASE Succeeded("install")'
    <3>1. db = run /\ run' = run /\ run \in Plans
      BY <1>5, <2>2 DEF Start, Returns, Succeeded, ScmInv, Ties, cli
    <3>2. Contract!Report(run)
      BY <2>1, <2>2, <3>1 DEF Contract!Report
    <3>3. QED BY <3>1, <3>2 DEF Contract!Next
  <2>3. CASE ~Succeeded("install")'
    BY <1>5, <2>1, <2>3 DEF Start, Succeeded, ReportOf
  <2>4. QED BY <2>2, <2>3
<1>6. CASE Killed
  BY <1>6 DEF Killed, Returns, Succeeded, ReportOf, scm
<1>7. CASE Reboot \/ Vanishes
  <2>1. UNCHANGED ReportOf
    BY <1>7 DEF Reboot, Vanishes, Succeeded, ReportOf, cli
  <2>2. db' = db \/ db' = None
    BY <1>7 DEF Reboot, Vanishes
  <2>3. QED BY <2>1, <2>2 DEF Contract!Next, Contract!Unregister, ReportOf
<1>8. CASE ProcessEnds \/ ConsoleOpens \/ ConsoleCloses
  BY <1>8 DEF ProcessEnds, ConsoleOpens, ConsoleCloses, Succeeded, ReportOf, cli
<1>9. CASE UNCHANGED vars
  BY <1>9 DEF vars, cli, scm, Succeeded, ReportOf
<1>10. QED
  BY <1>1, <1>2, <1>3, <1>4, <1>5, <1>6, <1>7, <1>8, <1>9 DEF Next, Step, Contract!Next

\* The Windows installation implements Registry: a plan is registered only when none is,
\* and success is reported only of the plan that is registered, for every number of
\* commands, faults and polls.  (reinstall over SystemServiceBackend)
THEOREM ScmRefines == Spec => ContractSpec
<1>1. QED
  BY RefineInit, RefineStep, ScmInvariant, PTL DEF Spec, ContractSpec, Contract!Spec, ReportOf

-----------------------------------------------------------------------------
\* The steps a command can still take.
Left ==
  LET polls == REMOVAL_POLL_ATTEMPTS - poll
  IN  CASE pc = "is_installed" -> polls + 6
        [] pc = "stop" -> polls + 5
        [] pc = "delete" -> polls + 4
        [] pc = "wait" -> polls + 3
        [] pc = "create" -> 2
        [] pc = "start" -> 1
        [] pc \in {"idle", "done"} -> 0

\* What a command has left is bounded by the number of polls.
LeftInv == Left \in 0..REMOVAL_POLL_ATTEMPTS + 6

\* A step of the command leaves it less to do, and nothing that happens around it gives it
\* more: only another command does.
Descends ==
  /\ Step => Left' < Left
  /\ pc \notin {"idle", "done"} => Left' <= Left

LEMMA LeftIs ==
  ASSUME TypeOK
  PROVE  /\ pc = "is_installed" => Left = REMOVAL_POLL_ATTEMPTS - poll + 6
         /\ pc = "stop" => Left = REMOVAL_POLL_ATTEMPTS - poll + 5
         /\ pc = "delete" => Left = REMOVAL_POLL_ATTEMPTS - poll + 4
         /\ pc = "wait" => Left = REMOVAL_POLL_ATTEMPTS - poll + 3
         /\ pc = "create" => Left = 2
         /\ pc = "start" => Left = 1
         /\ pc \in {"idle", "done"} => Left = 0
         /\ pc \in Phases /\ poll \in 0..REMOVAL_POLL_ATTEMPTS
         /\ LeftInv
<1>1. pc \in Phases /\ poll \in 0..REMOVAL_POLL_ATTEMPTS /\ REMOVAL_POLL_ATTEMPTS \in Nat
  BY PollAssumption DEF TypeOK
<1>2. QED BY <1>1 DEF Left, LeftInv, Phases

LEMMA LeftStep ==
  ASSUME TypeOK, TypeOK', [Next]_vars
  PROVE  Descends
<1>1. REMOVAL_POLL_ATTEMPTS \in Nat
  BY PollAssumption
<1>2. ASSUME pc' = pc, poll' = poll
      PROVE  Left' = Left
  BY <1>2 DEF Left
<1>3. ASSUME pc' = "done" PROVE Left' = 0
  BY <1>3 DEF Left
<1>4. CASE Step
  <2>1. \/ pc = "is_installed" /\ pc' \in {"stop", "create"} /\ poll' = poll
        \/ pc = "stop" /\ pc' \in {"delete", "done"} /\ poll' = poll
        \/ pc = "delete" /\ pc' \in {"wait", "done"} /\ poll' = poll
        \/ pc = "wait" /\ pc' = "wait" /\ poll' = poll + 1
        \/ pc = "wait" /\ pc' \in {"create", "done"} /\ poll' = poll
        \/ pc = "create" /\ pc' \in {"start", "done"} /\ poll' = poll
        \/ pc = "start" /\ pc' = "done" /\ poll' = poll
    BY <1>4 DEF Step, IsInstalled, WaitForRemoval, Stop, Delete, Create, Start, Goes, Returns
  <2>2. Left' < Left
    <3>1. /\ pc' = "stop" => Left' = REMOVAL_POLL_ATTEMPTS - poll' + 5
          /\ pc' = "delete" => Left' = REMOVAL_POLL_ATTEMPTS - poll' + 4
          /\ pc' = "wait" => Left' = REMOVAL_POLL_ATTEMPTS - poll' + 3
          /\ pc' = "create" => Left' = 2
          /\ pc' = "start" => Left' = 1
          /\ pc' = "done" => Left' = 0
          /\ poll' \in 0..REMOVAL_POLL_ATTEMPTS
      BY PollAssumption DEF TypeOK, Left
    <3>2. QED BY <1>1, <2>1, <3>1, LeftIs
  <2>3. Left \in Int /\ Left' \in Int
    <3>1. Left \in 0..REMOVAL_POLL_ATTEMPTS + 6
      BY LeftIs DEF LeftInv
    <3>2. Left' \in Int
      BY <1>1 DEF TypeOK, Left, Phases
    <3>3. QED BY <3>1, <3>2, <1>1
  <2>4. QED BY <2>2, <2>3 DEF Descends
<1>5. CASE Killed
  <2>1. ~Step => Descends
    BY <1>3, <1>5, <1>1, LeftIs DEF Killed, Returns, Descends, LeftInv
  <2>2. QED BY <1>4, <2>1
<1>6. CASE \E c \in Commands, elevated \in BOOLEAN : Invoke(c, elevated)
  BY <1>6 DEF Invoke, Descends, Step, IsInstalled, WaitForRemoval, Stop, Delete, Create, Start
<1>7. CASE \/ Reboot \/ Vanishes \/ ProcessEnds \/ ConsoleOpens \/ ConsoleCloses
           \/ UNCHANGED vars
  <2>1. pc' = pc /\ poll' = poll
    BY <1>7 DEF Reboot, Vanishes, ProcessEnds, ConsoleOpens, ConsoleCloses, vars
  <2>2. ~Step => Descends
    BY <1>1, <1>2, <2>1, LeftIs DEF Descends, LeftInv
  <2>3. QED BY <1>4, <2>2
<1>8. QED BY <1>4, <1>5, <1>6, <1>7 DEF Next

\* Each step of a command uses up one of at most REMOVAL_POLL_ATTEMPTS + 6, whatever the
\* service manager, the service and the holders of handles do meanwhile; EveryCommandEnds
\* rests on this.  (reinstall, wait_for_removal)
THEOREM CommandsDescend == Spec => []LeftInv /\ [][Descends]_vars
<1>1. TypeOK => LeftInv
  BY LeftIs
<1>2. TypeOK /\ TypeOK' /\ [Next]_vars => [Descends]_vars
  BY LeftStep
<1>3. QED BY <1>1, <1>2, ScmTypes, PTL DEF Spec
=============================================================================
