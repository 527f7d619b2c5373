------------------------------ MODULE Install ------------------------------
(***************************************************************************)
(* dig-dns install, uninstall, start and stop on Linux (service.rs): one   *)
(* command at a time, run as the sequence of file and systemctl steps its  *)
(* code takes, against systemd and the service process it supervises.  The *)
(* command may be killed between any two steps, a step may fail, the       *)
(* service may exit, and the machine may reboot.                           *)
(*                                                                         *)
(* A registration is named by the invocation that wrote it (its plan:      *)
(* program, arguments and baked environment); Deb is the one the .deb put  *)
(* in /lib/systemd/system, with its own program /usr/bin/dig-dns.          *)
(***************************************************************************)
EXTENDS Integers

CONSTANTS
  None,        \* no registration, no program, no process
  Junk,        \* a staged program that cannot be run: its copy was cut short
  MaxRuns,     \* bound: invocations of the command line
  VendorUnit,  \* the values of "the .deb is installed" to start from
  Sources,     \* where the invoked binary lives: "elsewhere" or "staged"
  Faults,      \* the steps that may fail
  MayDie       \* whether a command may be killed and the machine reboot

Deb == 0
Plans == 1..MaxRuns
Units == {Deb} \cup Plans
Steps == {"stage", "stop", "disable", "unlink", "reload", "write", "enable", "start"}
Commands == {"install", "uninstall", "start", "stop"}

ASSUME RunsAssumption == MaxRuns \in Nat \ {0}
ASSUME NamesAssumption == None \notin Int /\ Junk \notin Int /\ None # Junk
ASSUME ChoicesAssumption ==
  /\ VendorUnit \subseteq BOOLEAN
  /\ Sources \subseteq {"elsewhere", "staged"}
  /\ Faults \subseteq Steps
  /\ MayDie \in BOOLEAN

VARIABLES
  run,       \* the number of the current (or last) invocation
  pc,        \* its next step; "idle" before the first one, "done" after the last
  cmd,       \* the subcommand
  from,      \* where current_exe() is
  result,    \* what it returned: "none" yet, "ok", "err", "denied", or "killed"
  carried,   \* history: a process outlived the point where this command stops it
  reg,       \* the unit file /etc/systemd/system/net.dignetwork.dig-dns.service
  vendor,    \* the .deb's unit file exists in /lib/systemd/system
  staged,    \* the program at /usr/local/lib/dig-dns/dig-dns
  loaded,    \* the definition systemd holds in memory
  enabled,   \* the unit is wanted at boot
  proc,      \* the definition the running service process was started from
  restart    \* systemd is about to restart the service (Restart=on-failure)

cli == <<run, cmd, from>>
diskVars == <<reg, vendor, staged>>
systemdVars == <<loaded, enabled, proc, restart>>
vars == <<cli, pc, result, carried, diskVars, systemdVars>>

Phases == {"idle", "done", "prefix", "remove_dest", "copy", "is_installed", "stop", "disable",
           "remove_unit", "forget", "wait", "write", "reload", "enable", "start"}

TypeOK ==
  /\ run \in 0..MaxRuns
  /\ pc \in Phases
  /\ cmd \in Commands
  /\ from \in {"elsewhere", "staged"}
  /\ result \in {"none", "ok", "err", "denied", "killed"}
  /\ carried \in BOOLEAN
  /\ reg \in Plans \cup {None}
  /\ vendor \in BOOLEAN
  /\ staged \in Plans \cup {None, Junk}
  /\ loaded \in Units \cup {None}
  /\ enabled \in BOOLEAN
  /\ proc \in Units \cup {None}
  /\ restart \in BOOLEAN

-----------------------------------------------------------------------------
(* systemd, as the commands and the unit's own lines use it. *)

\* The unit file systemd finds for the name: /etc comes before /lib.
OnDisk == IF reg # None THEN reg ELSE IF vendor THEN Deb ELSE None

\* The program a definition names is there and whole.
CanExec(unit) == unit = Deb \/ (unit \in Plans /\ staged \in Plans)

\* Type=simple: the start job succeeds once the process is forked; a program that
\* cannot be run fails it afterwards, and Restart=on-failure tries again.
Launch(unit) ==
  /\ proc' = IF CanExec(unit) THEN unit ELSE None
  /\ restart' = (unit # None /\ ~CanExec(unit))

ToStart == IF loaded # None THEN loaded ELSE OnDisk

\* systemctl start: nothing happens to a unit that is already active.
SystemctlStart ==
  /\ ToStart # None
  /\ loaded' = ToStart
  /\ IF proc # None THEN UNCHANGED <<proc, restart>> ELSE Launch(ToStart)

\* The service exits: cleanly, or so that systemd restarts it.
ServiceExits ==
  /\ proc # None
  /\ proc' = None
  /\ restart' \in BOOLEAN
  /\ UNCHANGED <<cli, pc, result, carried, diskVars, loaded, enabled>>

Restarts ==
  /\ restart
  /\ Launch(loaded)
  /\ UNCHANGED <<cli, pc, result, carried, diskVars, loaded, enabled>>

-----------------------------------------------------------------------------
(* The command: where its steps lead. *)

Goes(step) == pc' = step /\ UNCHANGED <<cli, result>>
Returns(r) == pc' = "done" /\ result' = r /\ UNCHANGED cli

MayFail(step) == step \in Faults

\* install and uninstall ask for root first; start and stop go straight to systemctl.
Invoke(c, f, elevated) ==
  /\ pc \in {"idle", "done"} /\ run < MaxRuns
  /\ f = "staged" => staged \in Plans
  /\ run' = run + 1
  /\ cmd' = c /\ from' = f
  /\ carried' = FALSE
  /\ IF c \in {"install", "uninstall"} /\ ~elevated
     THEN pc' = "done" /\ result' = "denied"
     ELSE /\ pc' = CASE c = "install" -> "prefix"
                     [] c = "uninstall" -> "stop"
                     [] OTHER -> c
          /\ result' = "none"
  /\ UNCHANGED <<diskVars, systemdVars>>

-----------------------------------------------------------------------------
(* stage_service_program *)

\* The prefix is checked component by component, then the directory is made.
EnsurePrefix ==
  /\ pc = "prefix"
  /\ \/ Goes("remove_dest")
     \/ MayFail("stage") /\ Returns("err")
  /\ UNCHANGED <<carried, diskVars, systemdVars>>

\* remove_file, its failure ignored.
RemoveDest ==
  /\ pc = "remove_dest"
  /\ \/ staged' = None
     \/ MayFail("stage") /\ UNCHANGED staged
  /\ Goes("copy")
  /\ UNCHANGED <<carried, reg, vendor, systemdVars>>

\* The copy, its chown and its verification.  When the command was started from the staged
\* copy itself, its source is gone, or is a running program that cannot be written to.
CopyProgram ==
  /\ pc = "copy"
  /\ \/ /\ from = "elsewhere"
        /\ staged' = run
        /\ Goes("is_installed")
     \/ /\ from = "elsewhere" /\ MayFail("stage")
        /\ staged' \in {None, Junk, run}
        /\ Returns("err")
     \/ /\ from = "staged"
        /\ Returns("err") /\ UNCHANGED staged
  /\ UNCHANGED <<carried, reg, vendor, systemdVars>>

-----------------------------------------------------------------------------
(* reinstall, over the systemd backend *)

is_installed == reg # None
ProcessLeft == proc # None \/ restart

\* Variant: an existing registration is not looked for.
IsInstalledUnasked ==
  /\ pc = "is_installed"
  /\ Goes("write") /\ carried' = ProcessLeft
  /\ UNCHANGED <<diskVars, systemdVars>>

IsInstalled ==
  /\ pc = "is_installed"
  /\ IF is_installed THEN Goes("stop") /\ UNCHANGED carried
     ELSE Goes("write") /\ carried' = ProcessLeft
  /\ UNCHANGED <<diskVars, systemdVars>>

\* A unit systemctl stop finds: a file, or a process whose file is gone.
Known == ToStart # None \/ ProcessLeft

\* systemctl stop; its failure is ignored unless the command is stop itself.
Stop ==
  /\ pc = "stop"
  /\ LET next(r) == IF cmd = "stop" THEN Returns(r) ELSE Goes("disable")
     IN  \/ Known /\ next("ok") /\ proc' = None /\ restart' = FALSE
         \/ /\ ~Known \/ MayFail("stop")
            /\ next("err") /\ UNCHANGED <<proc, restart>>
  /\ carried' = (proc' # None \/ restart')
  /\ UNCHANGED <<diskVars, loaded, enabled>>

\* delete, first half: systemctl disable, best effort.
Disable ==
  /\ pc = "disable"
  /\ Goes("remove_unit")
  /\ \/ enabled' = FALSE
     \/ MayFail("disable") /\ UNCHANGED enabled
  /\ UNCHANGED <<carried, diskVars, loaded, proc, restart>>

\* Variant: the unit file that cannot be removed is left, and nothing is said.
RemoveUnitBestEffort ==
  /\ pc = "remove_unit"
  /\ Goes("forget")
  /\ \/ reg' = None
     \/ is_installed /\ MayFail("unlink") /\ UNCHANGED reg
  /\ UNCHANGED <<carried, vendor, staged, systemdVars>>

RemoveUnit ==
  /\ pc = "remove_unit"
  /\ \/ reg' = None /\ Goes("forget")
     \/ is_installed /\ MayFail("unlink") /\ Returns("err") /\ UNCHANGED reg
  /\ UNCHANGED <<carried, vendor, staged, systemdVars>>

\* delete, last step: systemctl daemon-reload, best effort.
Forget ==
  /\ pc = "forget"
  /\ \/ loaded' = OnDisk
     \/ MayFail("reload") /\ UNCHANGED loaded
  /\ IF cmd = "uninstall" THEN Returns("ok") ELSE Goes("wait")
  /\ UNCHANGED <<carried, diskVars, enabled, proc, restart>>

\* The unit file is gone at the first poll.
WaitForRemoval ==
  /\ pc = "wait" /\ ~is_installed
  /\ Goes("write")
  /\ UNCHANGED <<carried, diskVars, systemdVars>>

\* Variant: the unit file is written in place, and a failure leaves half of it.
WriteUnitInPlace ==
  /\ pc = "write"
  /\ \/ reg' = run /\ Goes("reload")
     \/ MayFail("write") /\ Returns("err") /\ reg' = Junk
  /\ UNCHANGED <<carried, vendor, staged, systemdVars>>

\* create: the unit file appears whole (atomic_write) or not at all.
WriteUnit ==
  /\ pc = "write"
  /\ \/ reg' = run /\ Goes("reload")
     \/ MayFail("write") /\ Returns("err") /\ UNCHANGED reg
  /\ UNCHANGED <<carried, vendor, staged, systemdVars>>

\* Variant: the failure of daemon-reload is ignored here too.
ReloadBestEffort ==
  /\ pc = "reload"
  /\ Goes("enable")
  /\ \/ loaded' = OnDisk
     \/ MayFail("reload") /\ UNCHANGED loaded
  /\ UNCHANGED <<carried, diskVars, enabled, proc, restart>>

Reload ==
  /\ pc = "reload"
  /\ \/ loaded' = OnDisk /\ Goes("enable")
     \/ MayFail("reload") /\ Returns("err") /\ UNCHANGED loaded
  /\ UNCHANGED <<carried, diskVars, enabled, proc, restart>>

\* Variant: the failure of systemctl enable is ignored.
EnableBestEffort ==
  /\ pc = "enable"
  /\ Goes("start")
  /\ \/ enabled' = TRUE
     \/ MayFail("enable") /\ UNCHANGED enabled
  /\ UNCHANGED <<carried, diskVars, loaded, proc, restart>>

Enable ==
  /\ pc = "enable"
  /\ \/ enabled' = TRUE /\ Goes("start")
     \/ MayFail("enable") /\ Returns("err") /\ UNCHANGED enabled
  /\ UNCHANGED <<carried, diskVars, loaded, proc, restart>>

Start ==
  /\ pc = "start"
  /\ \/ SystemctlStart /\ Returns("ok")
     \/ /\ ToStart = None \/ MayFail("start")
        /\ Returns("err") /\ UNCHANGED <<loaded, proc, restart>>
  /\ UNCHANGED <<carried, diskVars, enabled>>

-----------------------------------------------------------------------------
Killed ==
  /\ MayDie /\ pc \notin {"idle", "done"}
  /\ Returns("killed")
  /\ UNCHANGED <<carried, diskVars, systemdVars>>

\* After a reboot systemd starts what is enabled, from the files it finds.
Reboot ==
  /\ MayDie
  /\ IF pc \in {"idle", "done"} THEN UNCHANGED <<cli, pc, result>> ELSE Returns("killed")
  /\ loaded' = OnDisk
  /\ IF enabled THEN Launch(OnDisk) ELSE proc' = None /\ restart' = FALSE
  /\ UNCHANGED <<carried, diskVars, enabled>>

Init ==
  /\ run = 0 /\ pc = "idle" /\ cmd = "install" /\ from = "elsewhere" /\ result = "none"
  /\ carried = FALSE
  /\ reg = None /\ vendor \in VendorUnit /\ staged = None
  /\ loaded = OnDisk /\ enabled = vendor
  /\ proc = OnDisk /\ restart = FALSE

Step ==
  \/ EnsurePrefix \/ RemoveDest \/ CopyProgram
  \/ IsInstalled \/ Stop \/ Disable \/ RemoveUnit \/ Forget \/ WaitForRemoval
  \/ WriteUnit \/ Reload \/ Enable \/ Start

Next ==
  \/ \E c \in Commands, f \in Sources, elevated \in BOOLEAN : Invoke(c, f, elevated)
  \/ Step
  \/ Killed \/ Reboot
  \/ ServiceExits \/ Restarts

Spec == Init /\ [][Next]_vars
-----------------------------------------------------------------------------
Succeeded(c) == pc = "done" /\ result = "ok" /\ cmd = c

\* An install that returns Ok has put its own plan in force, whatever earlier commands
\* that failed or were killed half-way left behind: its unit file is the one systemd has
\* read, its program is in place, and the unit is wanted at boot.  (reinstall, create)
OkIsInForce ==
  Succeeded("install") => reg = run /\ loaded = run /\ staged = run /\ enabled

\* The service that runs after a successful install runs that install's plan.  The only
\* other way is a process that outlived the stop, because stopping it failed or because
\* nothing was registered in /etc when the command looked: systemctl start then does
\* nothing.  (reinstall; is_installed; start)
OldProcessWasCarried ==
  Succeeded("install") => proc \in {None, run} \/ carried

\* After an uninstall that returned Ok no unit file of ours is left, and nothing of ours
\* runs again by itself, through service exits and reboots, unless stopping it failed.
\* (uninstall, delete)
GoneAfterUninstall ==
  Succeeded("uninstall") => reg = None /\ (proc \in Plans => carried)

\* The registration and the report as Registry sees them.
Contract ==
  INSTANCE Registry WITH Plan <- Plans, Absent <- None, held <- reg,
                         report <- IF Succeeded("install") THEN run ELSE None

\* The systemd backend keeps the promise of Registry: a unit file is written only where
\* none is, and Ok is said only while the plan it was said of is the unit file.
\* (reinstall over the systemd backend)
ContractSpec == Contract!Spec
=============================================================================
