--------------------------- MODULE InstallProofs ---------------------------
(***************************************************************************)
(* What an install or an uninstall that returned Ok has achieved, proved   *)
(* for any number of commands, any of whose steps may fail or be the last. *)
(***************************************************************************)
EXTENDS Install, TLAPS

\* Which commands reach which steps.
PhaseInv ==
  /\ pc \in {"prefix", "remove_dest", "copy", "is_installed", "wait", "write", "reload",
             "enable"} => cmd = "install"
  /\ pc \in {"disable", "remove_unit", "forget"} => cmd \in {"install", "uninstall"}
  /\ pc = "stop" => cmd # "start"
  /\ pc = "start" => cmd \in {"install", "start"}
  /\ pc # "idle" => run \in Plans

\* The program is in place from its copy to the end of the command.
StagedInv ==
  cmd = "install" /\ pc \in {"is_installed", "stop", "disable", "remove_unit", "forget",
                             "wait", "write", "reload", "enable", "start"}
    => staged = run

\* What create has done by each of its steps, and that delete has removed the unit.
WrittenInv ==
  /\ pc \in {"forget", "wait", "write"} => reg = None
  /\ pc \in {"reload", "enable", "start"} /\ cmd = "install" => reg = run
  /\ pc \in {"enable", "start"} /\ cmd = "install" => loaded = run
  /\ pc = "start" /\ cmd = "install" => enabled

\* Between the stop and the start nothing runs and nothing is about to, unless it was
\* carried over.
StoppedInv ==
  (/\ pc \in {"disable", "remove_unit", "forget", "wait", "write", "reload", "enable", "start"}
   /\ cmd \in {"install", "uninstall"}
   /\ ~carried)
    => proc = None /\ ~restart

InstalledInv ==
  Succeeded("install") =>
    /\ reg = run /\ loaded = run /\ staged = run /\ enabled
    /\ ~carried => proc \in {None, run}

\* After an uninstall neither what runs nor what systemd would restart is ours.
UninstalledInv ==
  Succeeded("uninstall") =>
    /\ reg = None
    /\ ~carried => /\ proc \notin Plans
                   /\ proc # None \/ restart => loaded \notin Plans

InstallInv ==
  /\ TypeOK /\ PhaseInv /\ StagedInv /\ WrittenInv /\ StoppedInv
  /\ InstalledInv /\ UninstalledInv

-----------------------------------------------------------------------------
\* The unit file systemd finds is a unit or none, and ours when there is one of ours.
LEMMA OnDiskType ==
  ASSUME TypeOK
  PROVE  /\ OnDisk \in Units \cup {None}
         /\ reg # None => OnDisk = reg
         /\ reg = None => OnDisk \notin Plans
  BY RunsAssumption, NamesAssumption DEF TypeOK, OnDisk, Units, Plans, Deb

\* A launch starts the unit it is given, or nothing.
LEMMA LaunchType ==
  ASSUME NEW u \in Units \cup {None}, Launch(u)
  PROVE  /\ proc' \in {u, None} /\ proc' \in Units \cup {None}
         /\ restart' \in BOOLEAN /\ (restart' => u # None)
  BY DEF Launch, CanExec

\* systemctl start starts what systemd has loaded.
LEMMA ToStartType ==
  ASSUME TypeOK
  PROVE  ToStart \in Units \cup {None} /\ (loaded # None => ToStart = loaded)
  BY OnDiskType DEF ToStart, TypeOK

\* None is no unit.
LEMMA RunIsNotNone ==
  /\ \A u \in Units : u # None
  /\ Plans \subseteq Units /\ None \notin Plans
  BY RunsAssumption, NamesAssumption DEF Units, Plans, Deb

\* Every step of the command, of systemd and of the machine keeps the types.
LEMMA TypeStep == TypeOK /\ PhaseInv /\ [Next]_vars => TypeOK'
<1> SUFFICES ASSUME TypeOK, PhaseInv, [Next]_vars PROVE TypeOK'
  OBVIOUS
<1>1. CASE \E c \in Commands, f \in Sources, elevated \in BOOLEAN : Invoke(c, f, elevated)
  <2>1. PICK c \in Commands, f \in Sources, elevated \in BOOLEAN : Invoke(c, f, elevated)
    BY <1>1
  <2>2. run' \in 0..MaxRuns
    BY <2>1, RunsAssumption DEF Invoke, TypeOK
  <2>3. pc' \in Phases
    BY <2>1 DEF Invoke, Phases, Commands
  <2>4. f \in {"elsewhere", "staged"}
    BY ChoicesAssumption
  <2> QED
    BY <2>1, <2>2, <2>3, <2>4 DEF Invoke, TypeOK, diskVars, systemdVars
<1>2. CASE Step
  <2> USE DEF Goes, Returns, cli, diskVars, systemdVars
  <2>1. CASE EnsurePrefix
    BY <2>1 DEF EnsurePrefix, TypeOK, Phases
  <2>2. CASE RemoveDest
    BY <2>2 DEF RemoveDest, TypeOK, Phases
  <2>3. CASE CopyProgram
    BY <2>3 DEF CopyProgram, PhaseInv, TypeOK, Phases
  <2>4. CASE IsInstalled
    <3>1. carried' \in BOOLEAN
      BY <2>4, Zenon DEF IsInstalled, ProcessLeft, TypeOK
    <3> QED
      BY <2>4, <3>1 DEF IsInstalled, TypeOK, Phases
  <2>5. CASE Stop
    BY <2>5 DEF Stop, TypeOK, Phases
  <2>6. CASE Disable
    <3>1. enabled' \in BOOLEAN
      BY <2>6, Zenon DEF Disable, TypeOK
    <3> QED
      BY <2>6, <3>1 DEF Disable, TypeOK, Phases
  <2>7. CASE RemoveUnit
    BY <2>7 DEF RemoveUnit, TypeOK, Phases
  <2>8. CASE Forget
    BY <2>8, OnDiskType DEF Forget, TypeOK, Phases
  <2>9. CASE WaitForRemoval
    BY <2>9 DEF WaitForRemoval, TypeOK, Phases
  <2>10. CASE WriteUnit
    BY <2>10 DEF WriteUnit, PhaseInv, TypeOK, Phases
  <2>11. CASE Reload
    BY <2>11, OnDiskType DEF Reload, TypeOK, Phases
  <2>12. CASE Enable
    <3>1. enabled' \in BOOLEAN
      BY <2>12, Zenon DEF Enable, TypeOK
    <3> QED
      BY <2>12, <3>1 DEF Enable, TypeOK, Phases
  <2>13. CASE Start
    <3>1. /\ loaded' \in Units \cup {None} /\ proc' \in Units \cup {None}
          /\ restart' \in BOOLEAN
      BY <2>13, ToStartType, LaunchType DEF Start, SystemctlStart, TypeOK
    <3> QED
      BY <2>13, <3>1 DEF Start, TypeOK, Phases
  <2> QED
    BY <1>2, <2>1, <2>2, <2>3, <2>4, <2>5, <2>6, <2>7, <2>8, <2>9, <2>10, <2>11, <2>12,
       <2>13 DEF Step
<1>3. CASE Killed
  BY <1>3 DEF Killed, Returns, cli, diskVars, systemdVars, TypeOK, Phases
<1>4. CASE Reboot
  <2>1. /\ loaded' \in Units \cup {None} /\ proc' \in Units \cup {None}
        /\ restart' \in BOOLEAN
    BY <1>4, OnDiskType, LaunchType DEF Reboot
  <2> QED
    BY <1>4, <2>1 DEF Reboot, Returns, cli, diskVars, TypeOK, Phases
<1>5. CASE ServiceExits
  BY <1>5 DEF ServiceExits, cli, diskVars, TypeOK
<1>6. CASE Restarts
  <2>1. proc' \in Units \cup {None} /\ restart' \in BOOLEAN
    BY <1>6, LaunchType DEF Restarts, TypeOK
  <2> QED
    BY <1>6, <2>1 DEF Restarts, cli, diskVars, TypeOK
<1>7. CASE UNCHANGED vars
  BY <1>7 DEF vars, cli, diskVars, systemdVars, TypeOK
<1> QED
  BY <1>1, <1>2, <1>3, <1>4, <1>5, <1>6, <1>7 DEF Next

-----------------------------------------------------------------------------
Parts == PhaseInv /\ StagedInv /\ WrittenInv /\ StoppedInv /\ InstalledInv /\ UninstalledInv

\* A new command starts with nothing staged, written or stopped to its name.
LEMMA InvokeStep ==
  ASSUME TypeOK, Parts, NEW c \in Commands, NEW f \in Sources, NEW e \in BOOLEAN,
         Invoke(c, f, e)
  PROVE  Parts'
<1>1. run' \in Plans
  BY RunsAssumption DEF Invoke, TypeOK, Plans
<1>2. /\ cmd' = c
      /\ \/ pc' = "done" /\ result' = "denied"
         \/ pc' = "prefix" /\ c = "install" /\ result' = "none"
         \/ pc' = "stop" /\ c \in {"uninstall", "stop"} /\ result' = "none"
         \/ pc' = "start" /\ c = "start" /\ result' = "none"
  BY DEF Invoke, Commands
<1> QED
  BY <1>1, <1>2 DEF Parts, PhaseInv, StagedInv, WrittenInv, StoppedInv, InstalledInv,
     UninstalledInv, Succeeded

\* The steps of a command.
LEMMA CommandStep ==
  ASSUME TypeOK, Parts, Step
  PROVE  Parts'
<1> USE DEF Goes, Returns, cli, diskVars, systemdVars
<1>1. CASE EnsurePrefix
  BY <1>1 DEF EnsurePrefix, Parts, PhaseInv, StagedInv, WrittenInv, StoppedInv,
     InstalledInv, UninstalledInv, Succeeded
<1>2. CASE RemoveDest
  BY <1>2 DEF RemoveDest, Parts, PhaseInv, StagedInv, WrittenInv, StoppedInv,
     InstalledInv, UninstalledInv, Succeeded
<1>3. CASE CopyProgram
  BY <1>3 DEF CopyProgram, Parts, PhaseInv, StagedInv, WrittenInv, StoppedInv,
     InstalledInv, UninstalledInv, Succeeded
<1>4. CASE IsInstalled
  BY <1>4 DEF IsInstalled, is_installed, ProcessLeft, Parts, PhaseInv, StagedInv,
     WrittenInv, StoppedInv, InstalledInv, UninstalledInv, Succeeded
<1>5. CASE Stop
  <2>1. PhaseInv'
    <3>1. /\ run' = run /\ cmd' = cmd /\ pc # "idle" /\ cmd # "start"
          /\ pc' = "done" \/ (pc' = "disable" /\ cmd # "stop")
      BY <1>5 DEF Stop, Parts, PhaseInv
    <3>2. cmd \in {"install", "uninstall", "start", "stop"}
      BY DEF TypeOK, Commands
    <3> QED
      BY <3>1, <3>2 DEF Parts, PhaseInv
  <2>2. StagedInv'
    BY <1>5 DEF Stop, Parts, StagedInv, PhaseInv
  <2>3. WrittenInv'
    BY <1>5 DEF Stop, Parts, WrittenInv, PhaseInv
  <2>4. StoppedInv'
    BY <1>5 DEF Stop, Parts, StoppedInv
  <2>5. InstalledInv'
    BY <1>5 DEF Stop, Parts, InstalledInv, StagedInv, WrittenInv, StoppedInv, PhaseInv,
       Succeeded
  <2>6. UninstalledInv'
    BY <1>5 DEF Stop, Parts, UninstalledInv, StoppedInv, WrittenInv, PhaseInv, Succeeded
  <2> QED
    BY <2>1, <2>2, <2>3, <2>4, <2>5, <2>6 DEF Parts
<1>6. CASE Disable
  BY <1>6 DEF Disable, Parts, PhaseInv, StagedInv, WrittenInv, StoppedInv, InstalledInv,
     UninstalledInv, Succeeded
<1>7. CASE RemoveUnit
  <2>1. PhaseInv'
    BY <1>7 DEF RemoveUnit, Parts, PhaseInv
  <2>2. StagedInv'
    BY <1>7 DEF RemoveUnit, Parts, StagedInv, PhaseInv
  <2>3. WrittenInv'
    BY <1>7 DEF RemoveUnit, Parts, WrittenInv, PhaseInv
  <2>4. StoppedInv'
    BY <1>7 DEF RemoveUnit, Parts, StoppedInv
  <2>5. InstalledInv'
    BY <1>7 DEF RemoveUnit, Parts, InstalledInv, StagedInv, WrittenInv, StoppedInv,
       PhaseInv, Succeeded
  <2>6. UninstalledInv'
    BY <1>7 DEF RemoveUnit, Parts, UninstalledInv, StoppedInv, WrittenInv, PhaseInv,
       Succeeded
  <2> QED
    BY <2>1, <2>2, <2>3, <2>4, <2>5, <2>6 DEF Parts
<1>8. CASE Forget
  <2>1. PhaseInv'
    BY <1>8, OnDiskType DEF Forget, Parts, PhaseInv
  <2>2. StagedInv'
    BY <1>8, OnDiskType DEF Forget, Parts, StagedInv, PhaseInv
  <2>3. WrittenInv'
    BY <1>8, OnDiskType DEF Forget, Parts, WrittenInv, PhaseInv
  <2>4. StoppedInv'
    BY <1>8, OnDiskType DEF Forget, Parts, StoppedInv
  <2>5. InstalledInv'
    BY <1>8, OnDiskType DEF Forget, Parts, InstalledInv, StagedInv, WrittenInv,
       StoppedInv, PhaseInv, Succeeded
  <2>6. UninstalledInv'
    BY <1>8, RunIsNotNone DEF Forget, Parts, UninstalledInv, StoppedInv, WrittenInv,
       PhaseInv, Succeeded
  <2> QED
    BY <2>1, <2>2, <2>3, <2>4, <2>5, <2>6 DEF Parts
<1>9. CASE WaitForRemoval
  BY <1>9 DEF WaitForRemoval, Parts, PhaseInv, StagedInv, WrittenInv, StoppedInv,
     InstalledInv, UninstalledInv, Succeeded
<1>10. CASE WriteUnit
  <2>1. PhaseInv'
    BY <1>10 DEF WriteUnit, Parts, PhaseInv
  <2>2. StagedInv'
    BY <1>10 DEF WriteUnit, Parts, StagedInv, PhaseInv
  <2>3. WrittenInv'
    BY <1>10 DEF WriteUnit, Parts, WrittenInv, PhaseInv
  <2>4. StoppedInv'
    BY <1>10 DEF WriteUnit, Parts, StoppedInv
  <2>5. InstalledInv'
    BY <1>10 DEF WriteUnit, Parts, InstalledInv, StagedInv, WrittenInv, StoppedInv,
       PhaseInv, Succeeded
  <2>6. UninstalledInv'
    BY <1>10 DEF WriteUnit, Parts, UninstalledInv, StoppedInv, WrittenInv, PhaseInv,
       Succeeded
  <2> QED
    BY <2>1, <2>2, <2>3, <2>4, <2>5, <2>6 DEF Parts
<1>11. CASE Reload
  <2>1. PhaseInv'
    BY <1>11, OnDiskType, RunIsNotNone DEF Reload, Parts, PhaseInv
  <2>2. StagedInv'
    BY <1>11, OnDiskType, RunIsNotNone DEF Reload, Parts, StagedInv, PhaseInv
  <2>3. WrittenInv'
    <3>1. reg = run /\ run # None /\ cmd = "install"
      BY <1>11, RunIsNotNone DEF Reload, Parts, WrittenInv, PhaseInv
    <3>2. OnDisk = run
      BY <3>1, OnDiskType
    <3> QED
      BY <1>11, <3>1, <3>2 DEF Reload, WrittenInv
  <2>4. StoppedInv'
    BY <1>11, OnDiskType, RunIsNotNone DEF Reload, Parts, StoppedInv
  <2>5. InstalledInv'
    BY <1>11, OnDiskType, RunIsNotNone DEF Reload, Parts, InstalledInv, StagedInv,
       WrittenInv, StoppedInv, PhaseInv, Succeeded
  <2>6. UninstalledInv'
    BY <1>11, OnDiskType, RunIsNotNone DEF Reload, Parts, UninstalledInv, StoppedInv,
       WrittenInv, PhaseInv, Succeeded
  <2> QED
    BY <2>1, <2>2, <2>3, <2>4, <2>5, <2>6 DEF Parts
<1>12. CASE Enable
  <2>1. PhaseInv'
    BY <1>12 DEF Enable, Parts, PhaseInv
  <2>2. StagedInv'
    BY <1>12 DEF Enable, Parts, StagedInv, PhaseInv
  <2>3. WrittenInv'
    BY <1>12 DEF Enable, Parts, WrittenInv, PhaseInv
  <2>4. StoppedInv'
    BY <1>12 DEF Enable, Parts, StoppedInv
  <2>5. InstalledInv'
    BY <1>12 DEF Enable, Parts, InstalledInv, StagedInv, WrittenInv, StoppedInv,
       PhaseInv, Succeeded
  <2>6. UninstalledInv'
    BY <1>12 DEF Enable, Parts, UninstalledInv, StoppedInv, WrittenInv, PhaseInv, Succeeded
  <2> QED
    BY <2>1, <2>2, <2>3, <2>4, <2>5, <2>6 DEF Parts
<1>13. CASE Start
  <2>1. cmd = "install" \/ cmd = "start"
    BY <1>13 DEF Start, Parts, PhaseInv
  <2>2. cmd = "install" => ToStart = run /\ run \in Units \cup {None}
    BY <1>13, ToStartType, RunIsNotNone DEF Start, Parts, PhaseInv, WrittenInv, Units
  <2>3. ASSUME cmd = "install", result' = "ok"
        PROVE  loaded' = run /\ (~carried => proc' \in {None, run})
    BY <1>13, <2>2, <2>3, LaunchType DEF Start, SystemctlStart, Parts, StoppedInv
  <2> QED
    BY <1>13, <2>1, <2>3 DEF Start, Parts, PhaseInv, StagedInv, WrittenInv, StoppedInv,
       InstalledInv, UninstalledInv, Succeeded
<1> QED
  BY <1>1, <1>2, <1>3, <1>4, <1>5, <1>6, <1>7, <1>8, <1>9, <1>10, <1>11, <1>12, <1>13 DEF
     Step

\* A reboot, a kill, an exit of the service and its restart by systemd.
LEMMA WorldStep ==
  ASSUME TypeOK, Parts, Killed \/ Reboot \/ ServiceExits \/ Restarts \/ UNCHANGED vars
  PROVE  Parts'
<1> USE DEF Returns, cli, diskVars, systemdVars
<1>1. CASE Killed
  <2>1. PhaseInv'
    BY <1>1 DEF Killed, Parts, PhaseInv
  <2>2. StagedInv'
    BY <1>1 DEF Killed, Parts, StagedInv, PhaseInv
  <2>3. WrittenInv'
    BY <1>1 DEF Killed, Parts, WrittenInv, PhaseInv
  <2>4. StoppedInv'
    BY <1>1 DEF Killed, Parts, StoppedInv
  <2>5. InstalledInv'
    BY <1>1 DEF Killed, Parts, InstalledInv, StagedInv, WrittenInv, StoppedInv,
       PhaseInv, Succeeded
  <2>6. UninstalledInv'
    BY <1>1 DEF Killed, Parts, UninstalledInv, StoppedInv, WrittenInv, PhaseInv, Succeeded
  <2> QED
    BY <2>1, <2>2, <2>3, <2>4, <2>5, <2>6 DEF Parts
<1>2. CASE Reboot
  <2>1. /\ loaded' = OnDisk /\ proc' \in {OnDisk, None}
        /\ restart' => OnDisk # None
    BY <1>2, OnDiskType, LaunchType DEF Reboot
  <2>2. CASE pc \in {"idle", "done"}
    BY <1>2, <2>1, <2>2, OnDiskType, RunIsNotNone
    DEF Reboot, Parts, Units, PhaseInv, StagedInv, WrittenInv, StoppedInv, InstalledInv, UninstalledInv, Succeeded
  <2>3. CASE pc \notin {"idle", "done"}
    BY <1>2, <2>3 DEF Reboot, Parts, PhaseInv, StagedInv, WrittenInv, StoppedInv,
       InstalledInv, UninstalledInv, Succeeded
  <2> QED
    BY <2>2, <2>3
<1>3. CASE ServiceExits
  <2>1. PhaseInv'
    BY <1>3, RunIsNotNone DEF ServiceExits, Parts, PhaseInv
  <2>2. StagedInv'
    BY <1>3, RunIsNotNone DEF ServiceExits, Parts, StagedInv, PhaseInv
  <2>3. WrittenInv'
    BY <1>3, RunIsNotNone DEF ServiceExits, Parts, WrittenInv, PhaseInv
  <2>4. StoppedInv'
    BY <1>3, RunIsNotNone DEF ServiceExits, Parts, StoppedInv
  <2>5. InstalledInv'
    BY <1>3, RunIsNotNone DEF ServiceExits, Parts, InstalledInv, StagedInv, WrittenInv,
       StoppedInv, PhaseInv, Succeeded
  <2>6. UninstalledInv'
    BY <1>3, RunIsNotNone DEF ServiceExits, Parts, UninstalledInv, StoppedInv,
       WrittenInv, PhaseInv, Succeeded
  <2> QED
    BY <2>1, <2>2, <2>3, <2>4, <2>5, <2>6 DEF Parts
<1>4. CASE Restarts
  <2>1. proc' \in {loaded, None}
    BY <1>4, LaunchType DEF Restarts, TypeOK
  <2>2. PhaseInv'
    BY <1>4, <2>1, RunIsNotNone DEF Restarts, Parts, PhaseInv
  <2>3. StagedInv'
    BY <1>4, <2>1, RunIsNotNone DEF Restarts, Parts, StagedInv, PhaseInv
  <2>4. WrittenInv'
    BY <1>4, <2>1, RunIsNotNone DEF Restarts, Parts, WrittenInv, PhaseInv
  <2>5. StoppedInv'
    BY <1>4, <2>1, RunIsNotNone DEF Restarts, Parts, StoppedInv
  <2>6. InstalledInv'
    BY <1>4, <2>1, RunIsNotNone DEF Restarts, Parts, InstalledInv, StagedInv,
       WrittenInv, StoppedInv, PhaseInv, Succeeded
  <2>7. UninstalledInv'
    BY <1>4, <2>1, RunIsNotNone DEF Restarts, Parts, UninstalledInv, StoppedInv,
       WrittenInv, PhaseInv, Succeeded
  <2> QED
    BY <2>2, <2>3, <2>4, <2>5, <2>6, <2>7 DEF Parts
<1>5. CASE UNCHANGED vars
  BY <1>5 DEF vars, Parts, PhaseInv, StagedInv, WrittenInv, StoppedInv, InstalledInv,
     UninstalledInv, Succeeded
<1> QED
  BY <1>1, <1>2, <1>3, <1>4, <1>5

-----------------------------------------------------------------------------
\* The inductive invariant: what has been done by each step of a command, and what a
\* finished one leaves.
THEOREM InstallInvariant == Spec => []InstallInv
<1>1. Init => InstallInv
  <2> SUFFICES ASSUME Init PROVE InstallInv
    OBVIOUS
  <2>1. vendor \in BOOLEAN /\ OnDisk \in {Deb, None}
    BY ChoicesAssumption DEF Init, OnDisk
  <2>2. TypeOK
    <3>1. enabled \in BOOLEAN /\ carried \in BOOLEAN /\ restart \in BOOLEAN
      BY <2>1, Zenon DEF Init
    <3> QED
      BY <2>1, <3>1, RunsAssumption DEF Init, TypeOK, Phases, Commands, Units
  <2>3. Parts
    BY DEF Init, Parts, PhaseInv, StagedInv, WrittenInv, StoppedInv, InstalledInv,
       UninstalledInv, Succeeded
  <2> QED
    BY <2>2, <2>3 DEF InstallInv, Parts
<1>2. InstallInv /\ [Next]_vars => InstallInv'
  <2> SUFFICES ASSUME TypeOK, Parts, [Next]_vars PROVE TypeOK' /\ Parts'
    BY DEF InstallInv, Parts
  <2>1. TypeOK'
    BY TypeStep DEF Parts
  <2>2. Parts'
    BY InvokeStep, CommandStep, WorldStep DEF Next
  <2> QED
    BY <2>1, <2>2
<1> QED
  BY <1>1, <1>2, PTL DEF Spec

\* The type invariant of Install.
THEOREM InstallTypes == Spec => []TypeOK
<1>1. InstallInv => TypeOK
  BY DEF InstallInv
<1> QED
  BY <1>1, InstallInvariant, PTL

\* An install that returned Ok has put its plan in force: unit file, what systemd has read
\* of it, program and enablement, whatever failed or was killed before it.
THEOREM InstallTakesEffect == Spec => []OkIsInForce
<1>1. InstallInv => OkIsInForce
  BY DEF InstallInv, InstalledInv, OkIsInForce
<1> QED
  BY <1>1, InstallInvariant, PTL

\* What runs after a successful install is its plan, or a process that outlived the stop.
THEOREM OnlyACarriedProcessIsOld == Spec => []OldProcessWasCarried
<1>1. InstallInv => OldProcessWasCarried
  BY DEF InstallInv, InstalledInv, OldProcessWasCarried
<1> QED
  BY <1>1, InstallInvariant, PTL

\* After a successful uninstall nothing of ours is registered or comes back by itself.
THEOREM UninstallIsFinal == Spec => []GoneAfterUninstall
<1>1. InstallInv => GoneAfterUninstall
  BY DEF InstallInv, UninstalledInv, GoneAfterUninstall
<1> QED
  BY <1>1, InstallInvariant, PTL

-----------------------------------------------------------------------------
(* The refinement. *)

ReportOf == IF Succeeded("install") THEN run ELSE None

\* Every step registers on an empty registry, unregisters, reports what is registered,
\* begins the next command, or is not seen.
LEMMA RefineStep == InstallInv /\ [Next]_vars => [Contract!Next]_<<reg, ReportOf>>
<1> SUFFICES ASSUME InstallInv, [Next]_vars PROVE [Contract!Next]_<<reg, ReportOf>>
  OBVIOUS
<1> USE DEF cli, diskVars, systemdVars
<1>1. ASSUME NEW c \in Commands, NEW f \in Sources, NEW e \in BOOLEAN, Invoke(c, f, e)
      PROVE  Contract!NextCommand
  BY <1>1 DEF Invoke, Commands, Contract!NextCommand, Succeeded
<1>2. CASE EnsurePrefix \/ RemoveDest \/ CopyProgram \/ IsInstalled \/ Disable \/ WaitForRemoval
  BY <1>2 DEF EnsurePrefix, RemoveDest, CopyProgram, IsInstalled, Disable, WaitForRemoval, Goes,
              Returns, Succeeded, ReportOf
<1>3. CASE Stop \/ Forget \/ Reload \/ Enable
  <2>1. UNCHANGED reg
    BY <1>3 DEF Stop, Forget, Reload, Enable
  <2>2. ~Succeeded("install") /\ ~Succeeded("install")'
    <3>1. CASE Stop
      BY <3>1 DEF InstallInv, PhaseInv, Stop, Goes, Returns, Succeeded
    <3>2. CASE Forget
      BY <3>2 DEF Forget, Goes, Returns, Succeeded
    <3>3. CASE Reload \/ Enable
      BY <3>3 DEF Reload, Enable, Goes, Returns, Succeeded
    <3> QED
      BY <1>3, <3>1, <3>2, <3>3
  <2> QED
    BY <2>1, <2>2 DEF ReportOf
<1>4. CASE RemoveUnit
  <2>1. UNCHANGED ReportOf
    BY <1>4 DEF RemoveUnit, Goes, Returns, Succeeded, ReportOf
  <2>2. reg' = None \/ reg' = reg
    BY <1>4 DEF RemoveUnit
  <2> QED
    BY <2>1, <2>2 DEF Contract!Next, Contract!Unregister, ReportOf
<1>5. CASE WriteUnit
  <2>1. UNCHANGED ReportOf
    BY <1>5 DEF WriteUnit, Goes, Returns, Succeeded, ReportOf
  <2>2. reg = None /\ run \in Plans
    BY <1>5 DEF InstallInv, WrittenInv, PhaseInv, WriteUnit
  <2>3. reg' = run \/ reg' = reg
    BY <1>5 DEF WriteUnit
  <2> QED
    BY <2>1, <2>2, <2>3 DEF Contract!Next, Contract!Register, ReportOf
<1>6. CASE Start
  <2>1. UNCHANGED reg
    BY <1>6 DEF Start
  <2>2. CASE Succeeded("install")'
    <3>1. reg = run /\ run' = run /\ run \in Plans
      BY <1>6, <2>2 DEF Start, Returns, Succeeded, InstallInv, WrittenInv, PhaseInv
    <3>2. Contract!Report(run)
      BY <2>1, <2>2, <3>1 DEF Contract!Report
    <3> QED
      BY <3>1, <3>2 DEF Contract!Next
  <2>3. CASE ~Succeeded("install")'
    BY <1>6, <2>1, <2>3 DEF Start, Succeeded, ReportOf
  <2> QED
    BY <2>2, <2>3
<1>7. CASE Killed \/ Reboot
  BY <1>7 DEF Killed, Reboot, Returns, Succeeded, ReportOf
<1>8. CASE ServiceExits \/ Restarts
  BY <1>8 DEF ServiceExits, Restarts, Succeeded, ReportOf
<1>9. CASE UNCHANGED vars
  BY <1>9 DEF vars, Succeeded, ReportOf
<1> QED
  BY <1>1, <1>2, <1>3, <1>4, <1>5, <1>6, <1>7, <1>8, <1>9 DEF Next, Step, Contract!Next

\* The systemd installation implements Registry, for every number of commands and
\* whichever steps fail: a unit file is written only where none is, and an install says Ok
\* only while its own plan is the unit file.  (reinstall over the systemd backend)
THEOREM InstallRefines == Spec => ContractSpec
<1>1. Init => Contract!Init
  BY DEF Init, Contract!Init, Succeeded
<1> QED
  BY <1>1, RefineStep, InstallInvariant, PTL DEF Spec, ContractSpec, Contract!Spec, ReportOf
=============================================================================
