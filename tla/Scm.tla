-------------------------------- MODULE Scm --------------------------------
(***************************************************************************)
(* dig-dns install, uninstall, start and stop on Windows (service.rs):     *)
(* reinstall over SystemServiceBackend, against the service control        *)
(* manager.  Stopping and deleting are asynchronous there: sc stop returns *)
(* before the process is gone, and a deleted service stays, marked, until  *)
(* its process has ended and the last handle to it is closed.  reinstall   *)
(* polls for that, a bounded number of times.                              *)
(***************************************************************************)
EXTENDS Integers

CONSTANTS
  None,       \* no service, no process
  REMOVAL_POLL_ATTEMPTS,
  MaxRuns,    \* bound: invocations of the command line
  MaxFaults   \* bound: failed steps, kills, and handles opened by others

ASSUME PollAssumption == REMOVAL_POLL_ATTEMPTS \in Nat \ {0}
ASSUME BoundAssumption == MaxRuns \in Nat /\ MaxFaults \in Nat
ASSUME NoneAssumption == None \notin Int

Plans == 1..MaxRuns
Commands == {"install", "uninstall", "start", "stop"}

VARIABLES
  run, cmd,  \* the number of the current (or last) invocation, and its subcommand
  pc,        \* its next step; "idle" before the first, "done" after the last
  poll,      \* the removal polls it has made
  result,    \* what it returned: "none" yet, "ok", "err", "denied", "killed"
  misled,    \* history: a probe of this command could not run and said "not there"
  db,        \* the plan registered under the service's name
  marked,    \* it is marked for deletion
  proc,      \* the plan the service process was started from
  stopping,  \* the process has been told to stop
  handle,    \* somebody else, the Services console, holds the service open
  faults

cli == <<run, cmd>>
scm == <<db, marked, proc, stopping, handle>>
vars == <<cli, pc, poll, result, misled, scm, faults>>

Phases == {"idle", "done", "is_installed", "stop", "delete", "wait", "create", "start"}

TypeOK ==
  /\ run \in 0..MaxRuns /\ cmd \in Commands
  /\ pc \in Phases
  /\ poll \in 0..REMOVAL_POLL_ATTEMPTS
  /\ result \in {"none", "ok", "err", "denied", "killed"}
  /\ misled \in BOOLEAN
  /\ db \in Plans \cup {None} /\ marked \in BOOLEAN
  /\ proc \in Plans \cup {None} /\ stopping \in BOOLEAN
  /\ handle \in BOOLEAN
  /\ faults \in 0..MaxFaults

-----------------------------------------------------------------------------
(* The service control manager, as sc.exe and its callers use it. *)

\* The service goes once it is marked, its process has ended and nobody holds it open.
Vanishes ==
  /\ marked /\ proc = None /\ ~handle
  /\ db' = None /\ marked' = FALSE
  /\ UNCHANGED <<cli, pc, poll, result, misled, proc, stopping, handle, faults>>

\* The process ends: told to, or by itself.
ProcessEnds ==
  /\ proc # None
  /\ proc' = None /\ stopping' = FALSE
  /\ UNCHANGED <<cli, pc, poll, result, misled, db, marked, handle, faults>>

Faulty == faults < MaxFaults /\ faults' = faults + 1

ConsoleOpens ==
  /\ db # None /\ ~handle /\ Faulty
  /\ handle' = TRUE
  /\ UNCHANGED <<cli, pc, poll, result, misled, db, marked, proc, stopping>>

ConsoleCloses ==
  /\ handle
  /\ handle' = FALSE
  /\ UNCHANGED <<cli, pc, poll, result, misled, db, marked, proc, stopping, faults>>

-----------------------------------------------------------------------------
(* The command. *)

Goes(step) == pc' = step /\ UNCHANGED <<cli, result>>
Returns(r) == pc' = "done" /\ result' = r /\ UNCHANGED cli

Invoke(c, elevated) ==
  /\ pc \in {"idle", "done"} /\ run < MaxRuns
  /\ run' = run + 1 /\ cmd' = c
  /\ poll' = 0 /\ misled' = FALSE
  /\ IF c \in {"install", "uninstall"} /\ ~elevated
     THEN pc' = "done" /\ result' = "denied"
     ELSE /\ pc' = CASE c = "install" -> "is_installed"
                     [] c = "uninstall" -> "stop"
                     [] OTHER -> c
          /\ result' = "none"
  /\ UNCHANGED <<scm, faults>>

\* query_installed: sc query succeeds while the service is there, marked or not; a probe
\* that cannot run says it is not.
query_installed(found) ==
  \/ found = (db # None) /\ UNCHANGED <<misled, faults>>
  \/ db # None /\ ~found /\ Faulty /\ misled' = TRUE

IsInstalled(found) ==
  /\ pc = "is_installed"
  /\ query_installed(found)
  /\ Goes(IF found THEN "stop" ELSE "create")
  /\ UNCHANGED <<poll, scm>>

\* sc stop: accepted by a running service.  Its failure is ignored unless the command is
\* stop itself.
Stop ==
  /\ pc = "stop"
  /\ LET next(r) == IF cmd = "stop" THEN Returns(r) ELSE Goes("delete")
     IN  \/ proc # None /\ ~stopping /\ stopping' = TRUE /\ next("ok") /\ UNCHANGED faults
         \/ /\ proc = None \/ stopping
            /\ next("err") /\ UNCHANGED <<stopping, faults>>
         \/ proc # None /\ Faulty /\ next("err") /\ UNCHANGED stopping
  /\ UNCHANGED <<poll, misled, db, marked, proc, handle>>

\* Variant: uninstall does not look at the result of the deletion.
DeleteBestEffort ==
  /\ pc = "delete"
  /\ LET next == IF cmd = "uninstall" THEN Returns("ok") ELSE Goes("wait")
     IN  \/ db # None /\ ~marked /\ marked' = TRUE /\ next /\ UNCHANGED faults
         \/ (db = None \/ marked) /\ next /\ UNCHANGED <<marked, faults>>
         \/ Faulty /\ next /\ UNCHANGED marked
  /\ UNCHANGED <<poll, misled, db, proc, stopping, handle>>

\* sc delete marks the service; one that is marked already, or is not there, is an error.
Delete ==
  /\ pc = "delete"
  /\ \/ /\ db # None /\ ~marked /\ marked' = TRUE
        /\ IF cmd = "uninstall" THEN Returns("ok") ELSE Goes("wait")
        /\ UNCHANGED faults
     \/ (db = None \/ marked) /\ Returns("err") /\ UNCHANGED <<marked, faults>>
     \/ Faulty /\ Returns("err") /\ UNCHANGED marked
  /\ UNCHANGED <<poll, misled, db, proc, stopping, handle>>

\* Variant: a removal that takes too long is taken for done.
WaitForRemovalOptimistic(found) ==
  /\ pc = "wait"
  /\ IF poll < REMOVAL_POLL_ATTEMPTS
     THEN /\ query_installed(found)
          /\ IF found THEN Goes("wait") /\ poll' = poll + 1
             ELSE Goes("create") /\ UNCHANGED poll
     ELSE ~found /\ Goes("create") /\ UNCHANGED <<poll, misled, faults>>
  /\ UNCHANGED scm

\* Variant: one poll too many.
WaitForRemovalOnceMore(found) ==
  /\ pc = "wait"
  /\ IF poll <= REMOVAL_POLL_ATTEMPTS
     THEN /\ query_installed(found)
          /\ IF found THEN Goes("wait") /\ poll' = poll + 1
             ELSE Goes("create") /\ UNCHANGED poll
     ELSE ~found /\ Returns("err") /\ UNCHANGED <<poll, misled, faults>>
  /\ UNCHANGED scm

\* Variant: the polls are not counted.
WaitForRemovalForever(found) ==
  /\ pc = "wait"
  /\ query_installed(found)
  /\ Goes(IF found THEN "wait" ELSE "create")
  /\ UNCHANGED <<poll, scm>>

\* wait_for_removal: one poll, or TimedOut after the last.
WaitForRemoval(found) ==
  /\ pc = "wait"
  /\ IF poll < REMOVAL_POLL_ATTEMPTS
     THEN /\ query_installed(found)
          /\ IF found THEN Goes("wait") /\ poll' = poll + 1
             ELSE Goes("create") /\ UNCHANGED poll
     ELSE ~found /\ Returns("err") /\ UNCHANGED <<poll, misled, faults>>
  /\ UNCHANGED scm

\* Variant: an existing service is given the new plan instead of an error.
CreateInPlace ==
  /\ pc = "create"
  /\ \/ ~marked /\ db' = run /\ Goes("start") /\ UNCHANGED faults
     \/ marked /\ Returns("err") /\ UNCHANGED <<db, faults>>
     \/ Faulty /\ Returns("err") /\ UNCHANGED db
  /\ UNCHANGED <<poll, misled, marked, proc, stopping, handle>>

\* sc create: 1073 when the service exists, 1072 when it is marked.  The display name is
\* set afterwards, best effort.
Create ==
  /\ pc = "create"
  /\ \/ db = None /\ db' = run /\ Goes("start") /\ UNCHANGED faults
     \/ db # None /\ Returns("err") /\ UNCHANGED <<db, faults>>
     \/ Faulty /\ Returns("err") /\ UNCHANGED db
  /\ UNCHANGED <<poll, misled, marked, proc, stopping, handle>>

\* sc start: an error for a service that runs, is marked, or is not there.
Start ==
  /\ pc = "start"
  /\ \/ /\ db # None /\ ~marked /\ proc = None
        /\ proc' = db /\ stopping' = FALSE
        /\ Returns("ok") /\ UNCHANGED faults
     \/ /\ db = None \/ marked \/ proc # None
        /\ Returns("err") /\ UNCHANGED <<proc, stopping, faults>>
     \/ Faulty /\ Returns("err") /\ UNCHANGED <<proc, stopping>>
  /\ UNCHANGED <<poll, misled, db, marked, handle>>

-----------------------------------------------------------------------------
Killed ==
  /\ pc \notin {"idle", "done"} /\ Faulty
  /\ Returns("killed")
  /\ UNCHANGED <<poll, misled, scm>>

\* A marked service is not there after a reboot; a registered one is started (autostart).
Reboot ==
  /\ pc \in {"idle", "done"}
  /\ db' = IF marked THEN None ELSE db
  /\ proc' = db'
  /\ marked' = FALSE /\ stopping' = FALSE /\ handle' = FALSE
  /\ UNCHANGED <<cli, pc, poll, result, misled, faults>>

Init ==
  /\ run = 0 /\ cmd = "install" /\ pc = "idle" /\ poll = 0 /\ result = "none"
  /\ misled = FALSE
  /\ db = None /\ marked = FALSE /\ proc = None /\ stopping = FALSE /\ handle = FALSE
  /\ faults = 0

Step ==
  \/ \E found \in BOOLEAN : IsInstalled(found) \/ WaitForRemoval(found)
  \/ Stop \/ Delete \/ Create \/ Start

Next ==
  \/ \E c \in Commands, elevated \in BOOLEAN : Invoke(c, elevated)
  \/ Step
  \/ Killed \/ Reboot
  \/ Vanishes \/ ProcessEnds \/ ConsoleOpens \/ ConsoleCloses

Spec == Init /\ [][Next]_vars

\* The command is a running program: its steps are taken.  Nothing is assumed of the
\* service control manager, of the service process or of whoever holds a handle.
FairSpec == Spec /\ WF_vars(Step)
-----------------------------------------------------------------------------
Succeeded(c) == pc = "done" /\ result = "ok" /\ cmd = c

\* reinstall never creates onto a service that is still there, marked or not, unless the
\* probe could not run: either the old one has really vanished, its process with it, or
\* the command has given up.  ("so a caller never blindly recreates onto a still-existing service (1073)")
CreateFindsNone ==
  pc = "create" /\ ~misled => db = None /\ proc = None

\* After an uninstall that returned Ok the service is gone or can never run again: its
\* process, if stopping it failed, is the last.
UninstalledForGood ==
  Succeeded("uninstall") => db = None \/ marked

\* Every command ends, though the service may refuse to stop and a handle may be held
\* open for ever: the polls are counted.  (wait_for_removal)
EveryCommandEnds ==
  (pc \notin {"idle", "done"}) ~> (pc = "done")

\* The registration and the report as Registry sees them.
Contract ==
  INSTANCE Registry WITH Plan <- Plans, Absent <- None, held <- db,
                         report <- IF Succeeded("install") THEN run ELSE None

\* The Windows backend keeps the promise of Registry, though a deletion takes effect long
\* after it was asked for: a plan is registered only when the old one has vanished, and Ok
\* is said only while the plan it was said of is registered.  (reinstall over the SCM)
ContractSpec == Contract!Spec
=============================================================================
