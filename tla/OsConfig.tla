----------------------------- MODULE OsConfig -----------------------------
(***************************************************************************)
(* configure-os and unconfigure-os (os_config.rs): the plan of each, run   *)
(* step by step against the machine.  A step may fail and the command goes *)
(* on; the command may be killed between two steps; the machine may reboot *)
(* and the daemon that owns /etc/resolv.conf may change between commands.  *)
(*                                                                         *)
(* An artifact is known by who wrote it and by the address it routes the   *)
(* tld to.  What the resolver daemons, launchd and the registry do with it *)
(* is external, modelled as the commands rely on it.                       *)
(*                                                                         *)
(* All commands of a behaviour are for one tld.  What a command for        *)
(* another tld left is on the machine at first: the drop-ins, which no     *)
(* tld is part of the names of, and on macOS its /etc/resolver file.       *)
(***************************************************************************)
EXTENDS Integers, Sequences

CONSTANTS
  Ips,        \* the loopback addresses an invocation may be configured with
  Never,      \* no command has ended
  Elsewhere,  \* the name server of a rule a user or an organisation wrote
  Oses,       \* the operating systems to start from
  Priors,     \* what is on the machine at first: "fresh", "legacy", "user" or
              \* "othertld"
  MaxRuns,    \* bound: invocations
  MaxFaults   \* bound: failed steps, kills, and changes of the resolver's owner

Systems == {"linux", "macos", "windows", "other"}

ASSUME IpsAssumption == Ips # {} /\ Elsewhere \notin Ips
ASSUME OsesAssumption == Oses \subseteq Systems
ASSUME PriorsAssumption == Priors \subseteq {"fresh", "legacy", "user", "othertld"}
ASSUME BoundsAssumption == MaxRuns \in Nat /\ MaxFaults \in Nat

Daemons == {"resolved_dropin", "nm_conf"}
ManagedPrefs == {"chrome_plist", "user_chrome_plist"}
PolicyFiles == {"chrome_policy", "chromium_policy"}
Resolvers == {"resolver_file", "other_resolver_file"}
Files == Daemons \cup PolicyFiles \cup ManagedPrefs \cup Resolvers \cup {"lo0_plist"}
Keys == {"Chrome", "Edge"}
Owners == {"resolved_dropin", "nm_conf", "unknown"}
Values == {"key", "doh", "builtin", "marker", "legacy", "org"}

\* What a file, or an NRPT rule, holds.  "bare" is the unmarked resolver file of the old
\* installer, "user" anything somebody else wrote.
Content == [by : {"none", "ours", "legacy", "bare", "user"}, ip : Ips \cup {Elsewhere}]
Nothing == [by |-> "none", ip |-> Elsewhere]
Ours(ip) == [by |-> "ours", ip |-> ip]
Theirs == [by |-> "user", ip |-> Elsewhere]

\* The temporary file beside a file, and whether what was written of it holds the marker.
TempFiles == [of : Files, marked : BOOLEAN]

VARIABLES
  os, owner,   \* the system; the drop-in its resolver reads (Linux)
  disk,        \* the files, each under its name
  temps,       \* the temporary files atomic_write has left
  loaded,      \* what each resolver daemon last read of its drop-in
  nrpt,        \* the NRPT rules for the tld (Windows)
  policy,      \* the values present under each browser's policy key (Windows)
  alias,       \* the addresses lo0 answers on (macOS)
  stale,       \* the system has cached that names under the tld do not exist
  pc, next,    \* the phase of the running command, and its next step in it
  act, ip, browser,  \* the subcommand, its configured address, --browser-policy
  skip,        \* the keys this command leaves alone
  applied, removed, wired, activated, reboot, result,   \* its report
  clean,       \* history: no step of the command has failed
  last,        \* history: the command that ended last; Never when it was killed, or
               \* somebody changed the machine since
  runs, faults \* the bounds' counters

machine == <<disk, temps, loaded, nrpt, policy, alias, stale>>
call == <<act, ip, browser>>
report == <<applied, removed, wired, activated, reboot, result>>
vars == <<os, owner, machine, pc, next, call, skip, report, clean, last, runs, faults>>

Call == [act : {"configure", "unconfigure"}, ip : Ips, browser : BOOLEAN, owner : Owners,
         clean : BOOLEAN]

TypeOK ==
  /\ os \in Oses /\ owner \in Owners
  /\ disk \in [Files -> Content] /\ temps \subseteq TempFiles
  /\ loaded \in [Daemons -> Content]
  /\ nrpt \subseteq Content
  /\ policy \in [Keys -> SUBSET Values]
  /\ alias \subseteq Ips \cup {Elsewhere}
  /\ stale \in BOOLEAN
  /\ pc \in {"idle", "execute", "browser"} /\ next \in Nat \ {0}
  /\ act \in {"configure", "unconfigure"} /\ ip \in Ips /\ browser \in BOOLEAN
  /\ skip \subseteq Keys
  /\ wired \in BOOLEAN /\ activated \in BOOLEAN /\ reboot \in BOOLEAN
  /\ result \in {"none", "ok", "denied", "unsupported", "killed"}
  /\ clean \in BOOLEAN /\ last \in Call \cup {Never}
  /\ applied \subseteq Files \cup Keys \cup {"nrpt"}
  /\ removed \subseteq Files \cup Keys \cup {"nrpt"}
  /\ runs \in 0..MaxRuns /\ faults \in 0..MaxFaults

-----------------------------------------------------------------------------
(* The plans: pure data, one literal list per system and phase. *)

Step(op, at, value) == [op |-> op, at |-> at, value |-> value]
write(f) == Step("write", f, "-")
remove_ours(f) == Step("remove_ours", f, "-")
remove_on_sight(f) == Step("remove_on_sight", f, "-")
exec(program, at) == Step(program, at, "-")

\* Variant: what an earlier run wrote is taken away first.
configure_steps_afresh == [o \in Systems |-> [w \in Owners |->
  CASE o = "linux" /\ w \in Daemons ->
         <<remove_ours(w), write(w), exec("reload", w), exec("flush", "-")>>
    [] o = "macos" ->
         <<exec("alias", "-"), remove_ours("lo0_plist"), write("lo0_plist"),
           exec("bootout", "-"), exec("bootstrap", "lo0_plist"), exec("enable", "-"),
           remove_ours("resolver_file"), write("resolver_file"), exec("flush", "-")>>
    [] o = "windows" -> <<Step("nrpt_add", "nrpt", "-"), exec("flush", "-")>>
    [] OTHER -> <<>>]]

configure_resolver_steps == [o \in Systems |-> [w \in Owners |->
  CASE o = "linux" /\ w = "resolved_dropin" ->
         <<write("resolved_dropin"), exec("reload", "resolved_dropin"), exec("flush", "-")>>
    [] o = "linux" /\ w = "nm_conf" -> <<write("nm_conf"), exec("reload", "nm_conf")>>
    [] o = "macos" ->
         <<exec("alias", "-"), write("lo0_plist"), exec("bootout", "-"),
           exec("bootstrap", "lo0_plist"), exec("enable", "-"), write("resolver_file"),
           exec("flush", "-"), exec("flush", "-")>>
    [] o = "windows" -> <<Step("nrpt_add", "nrpt", "-"), exec("flush", "-")>>
    [] OTHER -> <<>>]]

\* Variant: only one of the two drop-ins is removed.
unconfigure_steps_of_one == [o \in Systems |->
  CASE o = "linux" ->
         <<remove_ours("resolved_dropin"), exec("reload", "resolved_dropin"),
           exec("flush", "-")>>
    [] o = "macos" ->
         <<exec("bootout", "-"), remove_ours("lo0_plist"), exec("-alias", "-"),
           remove_ours("resolver_file"), exec("flush", "-"), exec("flush", "-")>>
    [] o = "windows" -> <<Step("nrpt_remove", "nrpt", "-"), exec("flush", "-")>>
    [] OTHER -> <<>>]

unconfigure_resolver_steps == [o \in Systems |->
  CASE o = "linux" ->
         <<remove_ours("resolved_dropin"), exec("reload", "resolved_dropin"),
           exec("flush", "-"), remove_ours("nm_conf"), exec("reload", "nm_conf")>>
    [] o = "macos" ->
         <<exec("bootout", "-"), remove_ours("lo0_plist"), exec("-alias", "-"),
           remove_ours("resolver_file"), exec("flush", "-"), exec("flush", "-")>>
    [] o = "windows" -> <<Step("nrpt_remove", "nrpt", "-"), exec("flush", "-")>>
    [] OTHER -> <<>>]

reg_add_policy_args(key) ==
  <<Step("add", key, "doh"), Step("add", key, "builtin"), Step("add", key, "marker")>>

apply_windows_browser_policy(key) ==
  <<Step("query", key, "-")>> \o reg_add_policy_args(key) \o <<Step("record", key, "-")>>

apply_browser_policy == [o \in Systems |->
  CASE o = "linux" -> <<write("chrome_policy"), write("chromium_policy")>>
    [] o = "macos" -> <<Step("write_unmanaged", "chrome_plist", "-")>>
    [] o = "windows" -> apply_windows_browser_policy("Chrome")
                          \o apply_windows_browser_policy("Edge")
    [] OTHER -> <<>>]

remove_windows_browser_policy(key) ==
  <<Step("query_ours", key, "-"), Step("delete", key, "doh"), Step("delete", key, "builtin"),
    Step("delete", key, "marker"), Step("delete", key, "legacy"), Step("record", key, "-")>>

remove_browser_policy == [o \in Systems |->
  CASE o = "linux" -> <<remove_on_sight("chrome_policy"), remove_on_sight("chromium_policy")>>
    [] o = "macos" -> <<remove_ours("chrome_plist")>>
    [] o = "windows" -> remove_windows_browser_policy("Chrome")
                          \o remove_windows_browser_policy("Edge")
    [] OTHER -> <<>>]

Plan ==
  CASE pc = "execute" -> IF act = "configure" THEN configure_resolver_steps[os][owner]
                         ELSE unconfigure_resolver_steps[os]
    [] pc = "browser" -> IF act = "unconfigure" THEN remove_browser_policy[os]
                         ELSE IF browser THEN apply_browser_policy[os] ELSE <<>>
    [] OTHER -> <<>>

-----------------------------------------------------------------------------
(* One step of a plan. *)

content_is_ours(c) == c.by \in {"ours", "legacy"} \/ (c.by = "bare" /\ c.ip = ip)
policy_is_ours(key) == policy[key] \cap {"marker", "legacy"} # {}

At(ops) == next <= Len(Plan) /\ Plan[next].op \in ops
Target == Plan[next].at
Value == Plan[next].value

\* The command goes on whether the step succeeded or not; a fault is one of MaxFaults.
Succeeds == UNCHANGED <<clean, faults>>
Fails == clean' = FALSE /\ faults < MaxFaults /\ faults' = faults + 1

Proceeds ==
  /\ next' = next + 1
  /\ UNCHANGED <<os, owner, pc, call, wired, activated, reboot, result, last, runs>>

\* The content builders: the browser policies name no address.
Body(f) == IF f \in PolicyFiles \cup ManagedPrefs THEN Ours(Elsewhere) ELSE Ours(ip)

\* Chrome's file or one whose name holds the same name, as that of its temporary file does.
existing_chrome_managed_policy ==
  \/ \E f \in ManagedPrefs : disk[f].by # "none" /\ ~content_is_ours(disk[f])
  \/ [of |-> "chrome_plist", marked |-> FALSE] \in temps

\* The step writes a file; the macOS managed preference only when nobody else manages
\* Chrome.
Writes == At({"write"}) \/ (At({"write_unmanaged"}) /\ ~existing_chrome_managed_policy)

\* atomic_write, cut short by an error or by a kill: the file is as it was, and beside it
\* the temporary one stays if it was created and not yet renamed (only a rename that fails
\* is cleaned up after).
LeavesTemp == \E b \in BOOLEAN : temps' = temps \cup {[of |-> Target, marked |-> b]}
CutShort == LeavesTemp \/ UNCHANGED temps

\* Variant: a file that could not be written is reported as applied.
WriteFileUnchecked ==
  /\ Writes
  /\ applied' = applied \cup {Target}
  /\ \/ disk' = [disk EXCEPT ![Target] = Body(Target)] /\ Succeeds /\ UNCHANGED temps
     \/ disk[Target] # Body(Target) /\ Fails /\ CutShort /\ UNCHANGED disk
  /\ Proceeds
  /\ UNCHANGED <<loaded, nrpt, policy, alias, stale, skip, removed>>

\* Step::Write, write_if_changed and atomic_write: a file that holds the content already is
\* left, any other is replaced.
WriteFile ==
  /\ Writes
  /\ \/ /\ disk' = [disk EXCEPT ![Target] = Body(Target)]
        /\ applied' = applied \cup {Target}
        /\ Succeeds /\ UNCHANGED temps
     \/ disk[Target] # Body(Target) /\ Fails /\ CutShort /\ UNCHANGED <<disk, applied>>
  /\ Proceeds
  /\ UNCHANGED <<loaded, nrpt, policy, alias, stale, skip, removed>>

\* Step::RemoveOurs, and the Linux policy files, which are removed whatever they hold.
RemoveFile ==
  /\ At({"remove_ours", "remove_on_sight"})
  /\ disk[Target].by # "none"
  /\ At({"remove_ours"}) => content_is_ours(disk[Target])
  /\ \/ /\ disk' = [disk EXCEPT ![Target] = Nothing]
        /\ removed' = removed \cup {Target}
        /\ Succeeds
     \/ Fails /\ UNCHANGED <<disk, removed>>
  /\ Proceeds
  /\ UNCHANGED <<temps, loaded, nrpt, policy, alias, stale, skip, applied>>

\* The steps that find nothing to do.
LeaveAlone ==
  /\ \/ At({"remove_ours"}) /\ ~content_is_ours(disk[Target])
     \/ At({"remove_on_sight"}) /\ disk[Target].by = "none"
     \/ At({"write_unmanaged"}) /\ existing_chrome_managed_policy
     \/ At({"add", "delete", "record"}) /\ Target \in skip
  /\ Proceeds
  /\ UNCHANGED <<machine, skip, applied, removed, clean, faults>>

\* Step::Exec and Step::PsExec: the command does its work, or fails and nobody is told.
\* A daemon's reload reads its drop-in; NetworkManager restarts dnsmasq, which forgets.
\* Loading the LaunchDaemon runs it once.
ExecEffect ==
  /\ loaded' = IF At({"reload"}) THEN [loaded EXCEPT ![Target] = disk[Target]] ELSE loaded
  /\ alias' = CASE At({"alias"}) -> alias \cup {ip}
                [] At({"-alias"}) -> alias \ {ip}
                [] At({"bootstrap"}) /\ disk["lo0_plist"].by # "none" ->
                     alias \cup {disk["lo0_plist"].ip}
                [] OTHER -> alias
  /\ stale' = (stale /\ ~At({"flush"}) /\ ~(At({"reload"}) /\ Target = "nm_conf"))

Exec ==
  /\ At({"reload", "flush", "alias", "-alias", "bootout", "bootstrap", "enable"})
  /\ \/ ExecEffect /\ Succeeds
     \/ Fails /\ UNCHANGED <<loaded, alias, stale>>
  /\ Proceeds
  /\ UNCHANGED <<disk, temps, nrpt, policy, skip, applied, removed>>

\* nrpt_add_ps_command: nothing is added when the namespace has a rule, whoever wrote it.
NrptAdd ==
  /\ At({"nrpt_add"})
  /\ \/ /\ nrpt' = IF nrpt = {} THEN {Ours(ip)} ELSE nrpt
        /\ applied' = applied \cup {"nrpt"}
        /\ Succeeds
     \/ Fails /\ UNCHANGED <<nrpt, applied>>
  /\ Proceeds
  /\ UNCHANGED <<disk, temps, loaded, policy, alias, stale, skip, removed>>

\* Variant: every rule for the namespace is removed.
NrptRemoveAll ==
  /\ At({"nrpt_remove"})
  /\ \/ nrpt' = {} /\ removed' = removed \cup {"nrpt"} /\ Succeeds
     \/ Fails /\ UNCHANGED <<nrpt, removed>>
  /\ Proceeds
  /\ UNCHANGED <<disk, temps, loaded, policy, alias, stale, skip, applied>>

\* nrpt_remove_ps_command: the rules that carry either marker; recorded even if none did.
NrptRemove ==
  /\ At({"nrpt_remove"})
  /\ \/ /\ nrpt' = {r \in nrpt : r.by \notin {"ours", "legacy"}}
        /\ removed' = removed \cup {"nrpt"}
        /\ Succeeds
     \/ Fails /\ UNCHANGED <<nrpt, removed>>
  /\ Proceeds
  /\ UNCHANGED <<disk, temps, loaded, policy, alias, stale, skip, applied>>

\* The queries before a key is written to or cleared.
QueryKey ==
  /\ At({"query", "query_ours"})
  /\ LET org == IF At({"query"}) THEN policy[Target] # {} /\ ~policy_is_ours(Target)
                ELSE ~policy_is_ours(Target)
     IN  skip' = IF org THEN skip \cup {Target} ELSE skip
  /\ Proceeds
  /\ UNCHANGED <<machine, applied, removed, clean, faults>>

\* reg add: the first failure ends the work on this key.
AddValue ==
  /\ At({"add"}) /\ Target \notin skip
  /\ \/ /\ policy' = [policy EXCEPT ![Target] = @ \cup {"key", Value}]
        /\ UNCHANGED skip /\ Succeeds
     \/ Fails /\ skip' = skip \cup {Target} /\ UNCHANGED policy
  /\ Proceeds
  /\ UNCHANGED <<disk, temps, loaded, nrpt, alias, stale, applied, removed>>

\* reg delete: a failure is ignored; the key itself stays.
DeleteValue ==
  /\ At({"delete"}) /\ Target \notin skip
  /\ \/ policy' = [policy EXCEPT ![Target] = @ \ {Value}] /\ Succeeds
     \/ Value \in policy[Target] /\ Fails /\ UNCHANGED policy
  /\ Proceeds
  /\ UNCHANGED <<disk, temps, loaded, nrpt, alias, stale, skip, applied, removed>>

RecordKey ==
  /\ At({"record"}) /\ Target \notin skip
  /\ applied' = IF act = "configure" THEN applied \cup {Target} ELSE applied
  /\ removed' = IF act = "configure" THEN removed ELSE removed \cup {Target}
  /\ Proceeds
  /\ UNCHANGED <<machine, skip, clean, faults>>

-----------------------------------------------------------------------------
(* The commands around their plans. *)

\* Not elevated, or an unknown system: a report that refuses, and nothing done.
Invoke(a, i, b, elevated) ==
  /\ pc = "idle" /\ runs < MaxRuns /\ runs' = runs + 1
  /\ act' = a /\ ip' = i /\ browser' = b
  /\ IF ~elevated THEN pc' = "idle" /\ result' = "denied"
     ELSE IF os = "other" THEN pc' = "idle" /\ result' = "unsupported"
     ELSE pc' = "execute" /\ result' = "none"
  /\ next' = 1 /\ skip' = {} /\ applied' = {} /\ removed' = {}
  /\ wired' = FALSE /\ activated' = FALSE /\ reboot' = FALSE /\ clean' = TRUE
  /\ UNCHANGED <<os, owner, machine, last, faults>>

\* Variant: the position in the next plan starts at zero.
PlanEndsAtZero ==
  /\ pc = "execute" /\ next > Len(Plan)
  /\ wired' = (act = "configure" /\ applied # {})
  /\ pc' = "browser" /\ next' = 0
  /\ UNCHANGED <<os, owner, machine, call, skip, applied, removed, activated, reboot, result,
                 clean, last, runs, faults>>

\* The resolver's plan is through: what it applied is noted, the browser policy is next.
PlanEnds ==
  /\ pc = "execute" /\ next > Len(Plan)
  /\ wired' = (act = "configure" /\ applied # {})
  /\ pc' = "browser" /\ next' = 1
  /\ UNCHANGED <<os, owner, machine, call, skip, applied, removed, activated, reboot, result,
                 clean, last, runs, faults>>

Returns ==
  /\ pc' = "idle" /\ next' = 1 /\ result' = "ok"
  /\ last' = [act |-> act, ip |-> ip, browser |-> browser, owner |-> owner, clean |-> clean]
  /\ skip' = {} /\ clean' = TRUE
  /\ UNCHANGED <<os, owner, machine, call, applied, removed, wired, runs, faults>>

UnconfigureEnds ==
  /\ pc = "browser" /\ act = "unconfigure" /\ next > Len(Plan)
  /\ Returns
  /\ UNCHANGED <<activated, reboot>>

\* The name server the system asks for names under the tld is the one at address i, and
\* it can be reached.
Routed(i) ==
  CASE os = "linux" -> owner \in Daemons /\ loaded[owner].by # "none" /\ loaded[owner].ip = i
    [] os = "macos" -> disk["resolver_file"].by # "none" /\ disk["resolver_file"].ip = i
                         /\ i \in alias
    [] os = "windows" -> nrpt # {} /\ \A r \in nrpt : r.ip = i
    [] OTHER -> FALSE

\* verify_os_routing asks for one name; the responder may be up or not.
verify_os_routing(answers) == answers /\ Routed(ip) /\ ~stale

\* The verification, and apply_activation_result.
Verify(answers) ==
  /\ pc = "browser" /\ act = "configure" /\ next > Len(Plan)
  /\ activated' = (wired /\ verify_os_routing(answers))
  /\ reboot' = (wired /\ ~activated')
  /\ Returns

-----------------------------------------------------------------------------
(* The rest of the machine. *)

Counted == faults < MaxFaults /\ faults' = faults + 1

\* What the command held in memory goes with it; a write may be cut short.
Killed ==
  /\ pc # "idle" /\ Counted
  /\ \/ UNCHANGED temps
     \/ Writes /\ disk[Target] # Body(Target) /\ LeavesTemp
  /\ pc' = "idle" /\ next' = 1 /\ result' = "killed" /\ last' = Never
  /\ skip' = {} /\ applied' = {} /\ removed' = {} /\ clean' = TRUE
  /\ wired' = FALSE /\ activated' = FALSE /\ reboot' = FALSE
  /\ UNCHANGED <<os, owner, disk, loaded, nrpt, policy, alias, stale, call, runs>>

\* The daemons read their drop-ins, lo0 has the aliases the LaunchDaemon gives it, and
\* what was cached is gone.
Reboot ==
  /\ pc = "idle"
  /\ loaded' = [d \in Daemons |-> disk[d]]
  /\ alias' = IF disk["lo0_plist"].by = "none" THEN {} ELSE {disk["lo0_plist"].ip}
  /\ stale' = FALSE
  /\ UNCHANGED <<os, owner, disk, temps, nrpt, policy, pc, next, call, skip, report, clean,
                 last, runs, faults>>

DaemonRestarts(d) ==
  /\ loaded[d] # disk[d]
  /\ loaded' = [loaded EXCEPT ![d] = disk[d]]
  /\ UNCHANGED <<os, owner, disk, temps, nrpt, policy, alias, stale, pc, next, call, skip,
                 report, clean, last, runs, faults>>

\* A lookup that finds no name server for the tld is remembered.
LookupFails ==
  /\ ~stale /\ \A i \in Ips : ~Routed(i)
  /\ stale' = TRUE
  /\ UNCHANGED <<os, owner, disk, temps, loaded, nrpt, policy, alias, pc, next, call, skip,
                 report, clean, last, runs, faults>>

\* Another resolver takes over /etc/resolv.conf.
OwnerChanges(o) ==
  /\ os = "linux" /\ pc = "idle" /\ o # owner /\ Counted
  /\ owner' = o /\ last' = Never
  /\ UNCHANGED <<os, machine, pc, next, call, skip, report, clean, runs>>

\* Somebody puts a rule of their own where dig-dns would put its rule.
UserRule(f) ==
  /\ pc = "idle" /\ Counted
  /\ \/ os = "linux" /\ f \in Daemons
     \/ os = "macos" /\ f = "resolver_file"
  /\ disk' = [disk EXCEPT ![f] = Theirs] /\ last' = Never
  /\ UNCHANGED <<os, owner, temps, loaded, nrpt, policy, alias, stale, pc, next, call, skip,
                 report, clean, runs>>

UserNrptRule ==
  /\ pc = "idle" /\ os = "windows" /\ Counted
  /\ nrpt' = nrpt \cup {Theirs} /\ last' = Never
  /\ UNCHANGED <<os, owner, disk, temps, loaded, policy, alias, stale, pc, next, call, skip,
                 report, clean, runs>>

\* The machine at first: nothing; what the old installer left; an organisation's own rules
\* and policies; or what configure-os left that ran for another tld.
Legacy(i) == [by |-> "legacy", ip |-> i]
FilesOf(o) == CASE o = "linux" -> Daemons \cup PolicyFiles
                [] o = "macos" -> ManagedPrefs \cup Resolvers \cup {"lo0_plist"}
                [] OTHER -> {}
LegacyFiles(o, i) == [f \in Files |->
  CASE f \notin FilesOf(o) \ {"user_chrome_plist", "other_resolver_file"} -> Nothing
    [] f \in FilesOf(o) /\ f = "resolver_file" -> [by |-> "bare", ip |-> i]
    [] OTHER -> Legacy(i)]
UserFiles(o) == [f \in Files |->
  IF f \in FilesOf(o) \ (PolicyFiles \cup {"lo0_plist", "other_resolver_file"}) THEN Theirs
  ELSE Nothing]
OtherTldFiles(o, i) == [f \in Files |->
  CASE f \in FilesOf(o) \cap Daemons -> Ours(Elsewhere)
    [] f \in FilesOf(o) \cap {"lo0_plist", "other_resolver_file"} -> Ours(i)
    [] OTHER -> Nothing]

Before(prior, o, i) ==
  /\ disk = CASE prior = "legacy" -> LegacyFiles(o, i)
              [] prior = "user" -> UserFiles(o)
              [] prior = "othertld" -> OtherTldFiles(o, i)
              [] OTHER -> [f \in Files |-> Nothing]
  /\ nrpt = CASE o = "windows" /\ prior = "legacy" -> {Legacy(i)}
              [] o = "windows" /\ prior = "user" -> {Theirs}
              [] OTHER -> {}
  /\ policy = [k \in Keys |->
       CASE o = "windows" /\ prior = "legacy" -> {"key", "doh", "builtin", "legacy"}
         [] o = "windows" /\ prior = "user" -> {"key", "org"}
         [] OTHER -> {}]

Init ==
  /\ os \in Oses /\ owner \in (IF os = "linux" THEN Owners ELSE {"unknown"})
  /\ \E prior \in Priors, i \in Ips : Before(prior, os, i)
  /\ temps = {}
  /\ loaded = [d \in Daemons |-> disk[d]]
  /\ alias = IF disk["lo0_plist"].by = "none" THEN {} ELSE {disk["lo0_plist"].ip}
  /\ stale \in BOOLEAN
  /\ pc = "idle" /\ next = 1
  /\ act = "configure" /\ ip \in Ips /\ browser = FALSE
  /\ skip = {} /\ applied = {} /\ removed = {}
  /\ wired = FALSE /\ activated = FALSE /\ reboot = FALSE /\ result = "none"
  /\ clean = TRUE /\ last = Never
  /\ runs = 0 /\ faults = 0

Executes ==
  \/ WriteFile \/ RemoveFile \/ LeaveAlone \/ Exec
  \/ NrptAdd \/ NrptRemove
  \/ QueryKey \/ AddValue \/ DeleteValue \/ RecordKey

Next ==
  \/ \E a \in {"configure", "unconfigure"}, i \in Ips, b, elevated \in BOOLEAN :
       Invoke(a, i, b, elevated)
  \/ Executes
  \/ PlanEnds \/ UnconfigureEnds
  \/ \E answers \in BOOLEAN : Verify(answers)
  \/ Killed \/ Reboot
  \/ \E d \in Daemons : DaemonRestarts(d)
  \/ LookupFails
  \/ \E o \in Owners : OwnerChanges(o)
  \/ \E f \in Files : UserRule(f)
  \/ UserNrptRule

Spec == Init /\ [][Next]_vars
-----------------------------------------------------------------------------
Marked(c) == c.by \in {"ours", "legacy"}

\* An unconfigure-os none of whose steps failed leaves nothing behind, under the names of
\* its artifacts, that either tool wrote and marked: no file, no rule, no browser policy,
\* nothing a resolver still holds, whatever configure-os runs for the same tld that
\* failed, were killed, had another address or another resolver to configure, came before,
\* and it stays so through reboots.  The /etc/resolver file of another tld is excepted; and
\* temporary files are gone only if nothing ever failed or was killed, since nobody removes
\* the one of a write that was cut short.  (unconfigure, atomic_write; ci.yml: "leaves ZERO
\* residue")
ZeroResidue ==
  last # Never /\ last.act = "unconfigure" /\ last.clean /\ pc = "idle" =>
    /\ \A f \in Files \ {"other_resolver_file"} : ~Marked(disk[f])
    /\ \A d \in Daemons : ~Marked(loaded[d])
    /\ \A r \in nrpt : ~Marked(r)
    /\ \A k \in Keys : policy[k] \cap {"marker", "legacy"} = {}
    /\ faults = 0 => temps = {}

\* A configure-os that reports the tld live has made it last: the system still routes the
\* tld to that address after any number of reboots, until a command or somebody changes
\* it; on macOS if the report lists the LaunchDaemon, which is what puts the alias back.
\* (configure; launchd_lo0_alias_plist)
ActivationLasts ==
  /\ last # Never /\ pc = "idle" /\ result = "ok" /\ activated
  /\ os = "macos" => "lo0_plist" \in applied
  => Routed(last.ip)

\* Neither command removes or changes what somebody else wrote: unconfigure-os never, and
\* configure-os neither an NRPT rule, nor a managed preference, nor a policy key.
\* (remove_if_ours, nrpt_remove_ps_command, apply_windows_browser_policy)
OthersKept ==
  [][pc # "idle" =>
       /\ \A f \in Files : disk[f].by = "user" /\ (act = "unconfigure" \/ f \in ManagedPrefs)
            => disk'[f] = disk[f]
       /\ \A r \in nrpt : r.by = "user" => r \in nrpt'
       /\ \A k \in Keys : "org" \in policy[k] => policy'[k] = policy[k]]_vars

\* Running the same command again writes nothing: after a command none of whose steps
\* failed, a second one with the same address, options and resolver passes over every
\* artifact, so there is no moment at which a rule or a policy is missing.
\* (write_if_changed, nrpt_add_ps_command; "Re-running either subcommand is a no-op")
RerunChangesNothing ==
  [][pc # "idle" /\ last # Never /\ last.clean
       /\ last.act = act /\ last.ip = ip /\ last.browser = browser /\ last.owner = owner
     => UNCHANGED <<disk, nrpt, policy>>]_vars
=============================================================================
