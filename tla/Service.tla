------------------------------ MODULE Service ------------------------------
(***************************************************************************)
(* The service process (server.rs, service_run.rs, win_service.rs) and its *)
(* neighbours on one machine: bring-up, the tasks it spawns, its shutdown, *)
(* the runtime.json record it keeps (state.rs) and the dig.local mapping   *)
(* it ensures (dig_local.rs).                                              *)
(*                                                                         *)
(* Every run of dig-dns on the machine is a process of Procs; they share   *)
(* the loopback sockets with the dig-node and with unrelated programs, and *)
(* they share runtime.json.  A step of a process is what one of its tasks  *)
(* runs between two awaits; a step that another process could observe half *)
(* done (closing a listener, then removing the record) is split there.     *)
(*                                                                         *)
(* The operating system, the dig-node, other programs and whoever stops or *)
(* kills a process are external.  MaxFaults bounds how often they          *)
(* disturb the machine in one behaviour.                                   *)
(***************************************************************************)
EXTENDS Integers, Sequences

CONSTANTS
  Procs,       \* the dig-dns processes; a process runs once
  Scm,         \* those started by the Windows SCM (run-service); the others run `serve`
  Privileged,  \* those that may bind ports below 1024 and write the state dir
  Override,    \* whether an explicit node URL is configured
  MaxFaults    \* bound: disturbances by the environment

Sockets == {"http", "fallback", "udp", "tcp", "digLocal"}
Others == {"free", "node", "other"}
NoRecord == [pid |-> "none", port |-> "none", dns |-> FALSE]

ASSUME ProcsAssumption == Scm \subseteq Procs /\ Privileged \subseteq Procs
ASSUME NamesAssumption == Procs \cap (Others \cup {"none"}) = {}
ASSUME ServiceBounds == Override \in BOOLEAN /\ MaxFaults \in Nat

VARIABLES
  pc,      \* where serve_with_shutdown stands
  tier,    \* the rung of the endpoint ladder: the one being tried, then the one taken
  bound,   \* bind_listener: the gateway socket it got
  dns,     \* the DNS sockets: none, UDP only, both, or closed again
  ens,     \* the dig.local ensure task
  sig,     \* a stop's way in: no handler yet, a handler, or a stop pending
  shut,    \* the shutdown watch
  status,  \* what the SCM was told
  how,     \* history: how the process ended
  sock,    \* who holds each socket
  runtime, \* runtime.json
  nodeUp,  \* whether the dig-node runs
  faults   \* history: disturbances so far

vars == <<pc, tier, bound, dns, ens, sig, shut, status, how, sock, runtime, nodeUp, faults>>
procVars == <<tier, bound, dns, ens, sig, shut, status, how>>

Starting == {"begin", "resolve", "primary", "second", "udp", "tcp", "record", "spawn"}
Stopping == {"closing", "leaving"}
Alive == Starting \cup {"serving"} \cup Stopping

(***************************************************************************)
(* Sockets and probes.                                                     *)
(***************************************************************************)
Ladder == IF Override THEN <<"localhost">> ELSE <<"digLocal", "localhost", "rpc">>

\* A port below 1024 needs the privilege, and every bind needs the address free.
CanBind(p, s) == sock[s] = "free" /\ (p \in Privileged \/ s = "fallback")

\* Everything p holds is closed with it.
Without(p) == [s \in Sockets |-> IF sock[s] = p THEN "free" ELSE sock[s]]

\* Whether a request to dig.local is answered: by the node, or by a proxy (which
\* answers 502 when the node is down); an unrelated holder may speak HTTP or not.
DigLocalAnswers ==
  IF sock["digLocal"] = "other" THEN BOOLEAN ELSE {sock["digLocal"] # "free"}

\* probe: any HTTP response counts.
probe(base) ==
  CASE base = "digLocal" -> DigLocalAnswers
    [] base = "localhost" -> {nodeUp}
    [] OTHER -> BOOLEAN

(***************************************************************************)
(* run_reporting and the bring-up of serve_with_shutdown.                  *)
(***************************************************************************)
\* Variant: RUNNING is reported, but STOPPED never is.
EndsSilently(p, code, why) ==
  /\ pc' = [pc EXCEPT ![p] = "exited"]
  /\ how' = [how EXCEPT ![p] = why]
  /\ sock' = Without(p)
  /\ UNCHANGED <<tier, bound, dns, ens, sig, shut, status, runtime, nodeUp, faults>>

\* The body returned: its runtime is dropped, with every task and socket left, and
\* then STOPPED is reported with the exit code.
Ends(p, code, why) ==
  /\ pc' = [pc EXCEPT ![p] = "exited"]
  /\ how' = [how EXCEPT ![p] = why]
  /\ sock' = Without(p)
  /\ status' = [status EXCEPT ![p] = IF p \in Scm THEN code ELSE @]
  /\ UNCHANGED <<tier, bound, dns, ens, sig, shut, runtime, nodeUp, faults>>

Goes(p, to) == pc' = [pc EXCEPT ![p] = to]

\* run-service registers its stop handler and reports RUNNING before anything else.
Start(p) ==
  /\ pc[p] = "off"
  /\ Goes(p, "begin")
  /\ status' = [status EXCEPT ![p] = IF p \in Scm THEN "running" ELSE @]
  /\ sig' = [sig EXCEPT ![p] = IF p \in Scm THEN "armed" ELSE @]
  /\ UNCHANGED <<tier, bound, dns, ens, shut, how, sock, runtime, nodeUp, faults>>

\* If that report fails the body never runs, and nothing more is reported.
StartUnreported(p) ==
  /\ pc[p] = "off" /\ p \in Scm
  /\ Goes(p, "exited")
  /\ how' = [how EXCEPT ![p] = "unreported"]
  /\ UNCHANGED <<tier, bound, dns, ens, sig, shut, status, sock, runtime, nodeUp, faults>>

\* The configuration, the tokio runtime and the HTTP client: one of them may fail.
Prepare(p) ==
  /\ pc[p] = "begin"
  /\ \/ Goes(p, "resolve") /\ UNCHANGED <<procVars, sock, runtime, nodeUp, faults>>
     \/ Ends(p, "stopped1", "failed")

\* Variant: the last rung is probed like the others.
ResolveAllProbed(p) ==
  /\ pc[p] = "resolve"
  /\ \E answers \in probe(Ladder[tier[p]]) :
       IF answers
       THEN Goes(p, "primary") /\ UNCHANGED tier
       ELSE tier' = [tier EXCEPT ![p] = @ + 1] /\ UNCHANGED pc
  /\ UNCHANGED <<bound, dns, ens, sig, shut, status, how, sock, runtime, nodeUp, faults>>

\* One rung of ReqwestNodeClient::resolve; the last one is taken without a probe.
Resolve(p) ==
  /\ pc[p] = "resolve"
  /\ \E answers \in probe(Ladder[tier[p]]) :
       IF answers \/ tier[p] = Len(Ladder)
       THEN Goes(p, "primary") /\ UNCHANGED tier
       ELSE tier' = [tier EXCEPT ![p] = @ + 1] /\ UNCHANGED pc
  /\ UNCHANGED <<bound, dns, ens, sig, shut, status, how, sock, runtime, nodeUp, faults>>

Binds(p, s) ==
  /\ CanBind(p, s)
  /\ sock' = [sock EXCEPT ![s] = p]
  /\ bound' = [bound EXCEPT ![p] = s]
  /\ Goes(p, "udp")
  /\ UNCHANGED <<tier, dns, ens, sig, shut, status, how, runtime, nodeUp, faults>>

\* bind_listener: the primary address, else the fallback, else the bring-up fails.
BindPrimary(p) ==
  /\ pc[p] = "primary"
  /\ \/ Binds(p, "http")
     \/ /\ ~CanBind(p, "http")
        /\ Goes(p, "second")
        /\ UNCHANGED <<procVars, sock, runtime, nodeUp, faults>>

\* Variant: with both addresses taken, start over.
BindFallbackRetries(p) ==
  /\ pc[p] = "second"
  /\ \/ Binds(p, "fallback")
     \/ /\ ~CanBind(p, "fallback")
        /\ Goes(p, "primary")
        /\ UNCHANGED <<procVars, sock, runtime, nodeUp, faults>>

BindFallback(p) ==
  /\ pc[p] = "second"
  /\ \/ Binds(p, "fallback")
     \/ ~CanBind(p, "fallback") /\ Ends(p, "stopped1", "failed")

\* bind_dns, first the UDP socket; without it the gateway serves alone.
BindUdp(p) ==
  /\ pc[p] = "udp"
  /\ IF CanBind(p, "udp")
     THEN /\ sock' = [sock EXCEPT !["udp"] = p]
          /\ dns' = [dns EXCEPT ![p] = "udp"]
          /\ Goes(p, "tcp")
     ELSE Goes(p, "record") /\ UNCHANGED <<sock, dns>>
  /\ UNCHANGED <<tier, bound, ens, sig, shut, status, how, runtime, nodeUp, faults>>

\* Variant: a UDP socket whose TCP twin could not be bound stays open.
BindTcpLeaks(p) ==
  /\ pc[p] = "tcp"
  /\ IF CanBind(p, "tcp")
     THEN /\ sock' = [sock EXCEPT !["tcp"] = p]
          /\ dns' = [dns EXCEPT ![p] = "both"]
     ELSE /\ dns' = [dns EXCEPT ![p] = "none"]
          /\ UNCHANGED sock
  /\ Goes(p, "record")
  /\ UNCHANGED <<tier, bound, ens, sig, shut, status, how, runtime, nodeUp, faults>>

\* Then the TCP listener; its failure drops the UDP socket too.
BindTcp(p) ==
  /\ pc[p] = "tcp"
  /\ IF CanBind(p, "tcp")
     THEN /\ sock' = [sock EXCEPT !["tcp"] = p]
          /\ dns' = [dns EXCEPT ![p] = "both"]
     ELSE /\ sock' = [sock EXCEPT !["udp"] = "free"]
          /\ dns' = [dns EXCEPT ![p] = "none"]
  /\ Goes(p, "record")
  /\ UNCHANGED <<tier, bound, ens, sig, shut, status, how, runtime, nodeUp, faults>>

\* RuntimeGuard::record, best-effort: whatever record was there is overwritten.
Record(p) ==
  /\ pc[p] = "record"
  /\ runtime' = IF p \in Privileged
                THEN [pid |-> p, port |-> bound[p], dns |-> dns[p] = "both"]
                ELSE runtime
  /\ Goes(p, "spawn")
  /\ UNCHANGED <<procVars, sock, nodeUp, faults>>

\* Variant: a stop that came before the shutdown task is lost.
SpawnDrains(p) ==
  /\ pc[p] = "spawn"
  /\ Goes(p, "serving")
  /\ ens' = [ens EXCEPT ![p] = "probe"]
  /\ sig' = [sig EXCEPT ![p] = IF p \in Scm THEN "armed" ELSE @]
  /\ UNCHANGED <<tier, bound, dns, shut, status, how, sock, runtime, nodeUp, faults>>

\* The shutdown, DNS and dig.local tasks are spawned and the accept loop begins.
Spawn(p) ==
  /\ pc[p] = "spawn"
  /\ Goes(p, "serving")
  /\ ens' = [ens EXCEPT ![p] = "probe"]
  /\ UNCHANGED <<tier, bound, dns, sig, shut, status, how, sock, runtime, nodeUp, faults>>

(***************************************************************************)
(* The dig.local task: spawn_dig_local_ensure over                         *)
(* ensure_dig_local_mapping.                                               *)
(***************************************************************************)
EnsureTo(p, to) ==
  /\ ens' = [ens EXCEPT ![p] = to]
  /\ UNCHANGED <<pc, tier, bound, dns, sig, shut, status, how, runtime, nodeUp>>

TasksLive(p) == pc[p] \in {"serving"} \cup Stopping

\* probe_and_bind_dig_local, the probe: an answer of any kind is AlreadyMapped.
EnsureProbe(p) ==
  /\ TasksLive(p) /\ ens[p] = "probe"
  /\ \E answers \in probe("digLocal") : EnsureTo(p, IF answers THEN "done" ELSE "bind")
  /\ UNCHANGED <<sock, faults>>

\* The bind: Established, or Unavailable.
EnsureBind(p) ==
  /\ TasksLive(p) /\ ens[p] = "bind"
  /\ IF CanBind(p, "digLocal")
     THEN EnsureTo(p, "proxy") /\ sock' = [sock EXCEPT !["digLocal"] = p]
     ELSE EnsureTo(p, "wait") /\ UNCHANGED sock
  /\ UNCHANGED faults

\* Its HTTP client cannot be built: Unavailable.
EnsureClientFails(p) ==
  /\ TasksLive(p) /\ ens[p] = "probe"
  /\ faults < MaxFaults /\ faults' = faults + 1
  /\ EnsureTo(p, "wait")
  /\ UNCHANGED sock

\* Variant: an Unavailable mapping is given up.
EnsureNoRetry(p) ==
  /\ TasksLive(p) /\ ens[p] = "wait" /\ shut[p]
  /\ EnsureTo(p, "probe")
  /\ UNCHANGED <<sock, faults>>

\* DIG_LOCAL_RETRY_INTERVAL has passed.
EnsureRetry(p) ==
  /\ TasksLive(p) /\ ens[p] = "wait"
  /\ EnsureTo(p, "probe")
  /\ UNCHANGED <<sock, faults>>

\* The shutdown watch ends the wait, or the proxy's accept loop and its listener.
EnsureStops(p) ==
  /\ TasksLive(p) /\ shut[p]
  /\ \/ ens[p] = "wait" /\ EnsureTo(p, "done") /\ UNCHANGED sock
     \/ /\ ens[p] = "proxy" /\ EnsureTo(p, "done")
        /\ sock' = [sock EXCEPT !["digLocal"] = "free"]
  /\ UNCHANGED faults

(***************************************************************************)
(* Shutdown.                                                               *)
(***************************************************************************)
\* The process dies at once: the OS closes its sockets and nothing else is cleaned up.
Dies(p, why) ==
  /\ pc' = [pc EXCEPT ![p] = "exited"]
  /\ how' = [how EXCEPT ![p] = why]
  /\ sock' = Without(p)
  /\ UNCHANGED <<tier, bound, dns, ens, sig, shut, status, runtime, nodeUp, faults>>

\* The shutdown task's first poll installs the Ctrl-C handler; run-service has its own
\* from the start.
Arm(p) ==
  /\ TasksLive(p) /\ sig[p] = "unarmed"
  /\ sig' = [sig EXCEPT ![p] = "armed"]
  /\ UNCHANGED <<pc, tier, bound, dns, ens, shut, status, how, sock, runtime, nodeUp, faults>>

\* A stop, by the SCM or Ctrl-C, stays pending until the shutdown task receives it; a
\* Ctrl-C without a handler kills the process.
Stop(p) ==
  /\ pc[p] \in Alive /\ sig[p] # "pending"
  /\ IF sig[p] = "armed"
     THEN /\ sig' = [sig EXCEPT ![p] = "pending"]
          /\ UNCHANGED <<pc, tier, bound, dns, ens, shut, status, how, sock, runtime, nodeUp,
                         faults>>
     ELSE Dies(p, "interrupted")

\* SIGTERM, which the process does not handle.
Terminate(p) ==
  /\ pc[p] \in Alive /\ p \notin Scm
  /\ Dies(p, "sigterm")

\* A crash, a SIGKILL, a power cut.
Crash(p) ==
  /\ pc[p] \in Alive
  /\ faults < MaxFaults /\ faults' = faults + 1
  /\ pc' = [pc EXCEPT ![p] = "exited"]
  /\ how' = [how EXCEPT ![p] = "crash"]
  /\ sock' = Without(p)
  /\ UNCHANGED <<tier, bound, dns, ens, sig, shut, status, runtime, nodeUp>>

\* The shutdown task: the awaited stop flips the watch.
Flag(p) ==
  /\ pc[p] = "serving" /\ sig[p] = "pending" /\ ~shut[p]
  /\ shut' = [shut EXCEPT ![p] = TRUE]
  /\ UNCHANGED <<pc, tier, bound, dns, ens, sig, status, how, sock, runtime, nodeUp, faults>>

\* serve_dns leaves its loop; both sockets close.
DnsStops(p) ==
  /\ TasksLive(p) /\ shut[p] /\ dns[p] = "both"
  /\ dns' = [dns EXCEPT ![p] = "closed"]
  /\ sock' = [sock EXCEPT !["udp"] = "free", !["tcp"] = "free"]
  /\ UNCHANGED <<pc, tier, bound, ens, sig, shut, status, how, runtime, nodeUp, faults>>

\* serve_on leaves its loop; its listener closes before anything else.
AcceptStops(p) ==
  /\ pc[p] = "serving" /\ shut[p]
  /\ Goes(p, "closing")
  /\ sock' = [sock EXCEPT ![bound[p]] = "free"]
  /\ UNCHANGED <<procVars, runtime, nodeUp, faults>>

\* Variant: the guard forgets to remove the record.
GuardKeepsRecord(p) ==
  /\ pc[p] = "closing"
  /\ Goes(p, "leaving")
  /\ UNCHANGED <<procVars, runtime, sock, nodeUp, faults>>

\* RuntimeGuard::drop: the file is removed, whoever wrote it.
DropGuard(p) ==
  /\ pc[p] = "closing"
  /\ runtime' = IF p \in Privileged THEN NoRecord ELSE runtime
  /\ Goes(p, "leaving")
  /\ UNCHANGED <<procVars, sock, nodeUp, faults>>

\* serve_with_shutdown has returned.
Leave(p) == pc[p] = "leaving" /\ Ends(p, "stopped0", "graceful")

(***************************************************************************)
(* The environment.                                                        *)
(***************************************************************************)
Disturbs == faults < MaxFaults /\ faults' = faults + 1 /\ UNCHANGED <<pc, procVars, runtime>>

\* The dig-node starts, and binds dig.local itself if it can.
NodeStarts ==
  /\ ~nodeUp /\ nodeUp' = TRUE
  /\ sock' = IF sock["digLocal"] = "free" THEN [sock EXCEPT !["digLocal"] = "node"] ELSE sock
  /\ Disturbs

NodeStops ==
  /\ nodeUp /\ nodeUp' = FALSE
  /\ sock' = Without("node")
  /\ Disturbs

\* An unrelated program takes, or gives back, an address dig-dns wants.
OtherTakes(s) ==
  sock[s] = "free" /\ sock' = [sock EXCEPT ![s] = "other"] /\ UNCHANGED nodeUp /\ Disturbs

OtherLeaves(s) ==
  sock[s] = "other" /\ sock' = [sock EXCEPT ![s] = "free"] /\ UNCHANGED nodeUp /\ Disturbs

(***************************************************************************)
(* The specification.                                                      *)
(***************************************************************************)
Init ==
  /\ pc = [p \in Procs |-> "off"]
  /\ tier = [p \in Procs |-> 1]
  /\ bound = [p \in Procs |-> "none"]
  /\ dns = [p \in Procs |-> "none"]
  /\ ens = [p \in Procs |-> "none"]
  /\ sig = [p \in Procs |-> "unarmed"]
  /\ shut = [p \in Procs |-> FALSE]
  /\ status = [p \in Procs |-> "pending"]
  /\ how = [p \in Procs |-> "none"]
  /\ nodeUp \in BOOLEAN
  /\ sock = [s \in Sockets |-> IF s = "digLocal" /\ nodeUp THEN "node" ELSE "free"]
  /\ runtime = NoRecord
  /\ faults = 0

\* The main task: what serve_with_shutdown itself does next.
Main(p) ==
  \/ Prepare(p) \/ Resolve(p) \/ BindPrimary(p) \/ BindFallback(p) \/ BindUdp(p) \/ BindTcp(p)
  \/ Record(p) \/ Spawn(p) \/ AcceptStops(p) \/ DropGuard(p) \/ Leave(p)

Ensure(p) == EnsureProbe(p) \/ EnsureBind(p) \/ EnsureRetry(p) \/ EnsureStops(p)

Next ==
  \/ \E p \in Procs : Start(p)
  \/ \E p \in Procs : StartUnreported(p)
  \/ \E p \in Procs : Main(p)
  \/ \E p \in Procs : Ensure(p)
  \/ \E p \in Procs : EnsureClientFails(p)
  \/ \E p \in Procs : Flag(p)
  \/ \E p \in Procs : DnsStops(p)
  \/ \E p \in Procs : Arm(p)
  \/ \E p \in Procs : Stop(p)
  \/ \E p \in Procs : Terminate(p)
  \/ \E p \in Procs : Crash(p)
  \/ NodeStarts
  \/ NodeStops
  \/ \E s \in Sockets : OtherTakes(s)
  \/ \E s \in Sockets : OtherLeaves(s)

Spec == Init /\ [][Next]_vars

\* tokio runs every ready task, every probe has a timeout, a bind does not block, and
\* the retry timer fires.
FairSpec ==
  Spec /\ \A p \in Procs : WF_vars(Main(p)) /\ WF_vars(Flag(p)) /\ WF_vars(Ensure(p))

(***************************************************************************)
(* Properties.                                                             *)
(***************************************************************************)
\* Type invariant of the processes and of what they share.
TypeOK ==
  /\ pc \in [Procs -> Alive \cup {"off", "exited"}]
  /\ tier \in [Procs -> 1 .. Len(Ladder)]
  /\ bound \in [Procs -> {"none", "http", "fallback"}]
  /\ dns \in [Procs -> {"none", "udp", "both", "closed"}]
  /\ ens \in [Procs -> {"none", "probe", "bind", "proxy", "wait", "done"}]
  /\ sig \in [Procs -> {"unarmed", "armed", "pending"}]
  /\ shut \in [Procs -> BOOLEAN]
  /\ status \in [Procs -> {"pending", "running", "stopped0", "stopped1"}]
  /\ how \in [Procs -> {"none", "graceful", "failed", "unreported", "interrupted", "sigterm",
                        "crash"}]
  /\ sock \in [Sockets -> Procs \cup Others]
  /\ runtime \in [pid : Procs \cup {"none"}, port : {"none", "http", "fallback"}, dns : BOOLEAN]
  /\ nodeUp \in BOOLEAN
  /\ faults \in 0 .. MaxFaults

\* What the tasks of p believe they hold.
Holds(p, s) ==
  /\ pc[p] \in Alive
  /\ CASE s = "udp" -> dns[p] \in {"udp", "both"}
       [] s = "tcp" -> dns[p] = "both"
       [] s = "digLocal" -> ens[p] = "proxy"
       [] OTHER -> bound[p] = s /\ pc[p] \notin Stopping

\* The sockets a process holds are exactly those its tasks serve: no bind that failed,
\* half succeeded or raced another process leaves one behind, no task serves one that it
\* lost, and a process that ended holds none.
SocketsAccounted == \A p \in Procs, s \in Sockets : sock[s] = p <=> Holds(p, s)

Killed == {"interrupted", "sigterm", "crash"}

RecordRight(p) ==
  /\ p \in Privileged
  /\ runtime.port = bound[p] /\ bound[p] # "none"
  /\ runtime.dns <=> dns[p] \in {"both", "closed"}
  /\ pc[p] \in {"spawn", "serving", "closing"} \/ how[p] \in Killed

\* The record, when there is one, tells the truth about a process that wrote it (its
\* real port, and whether it answers DNS), and that process is still there unless it was
\* killed: no graceful stop and no failed bring-up leaves a record behind, as long as a
\* privileged process can write and remove the file.
RecordAccounted == runtime # NoRecord => RecordRight(runtime.pid)

ScmTold(p) ==
  /\ (\E s \in Sockets : sock[s] = p) => status[p] = "running"
  /\ status[p] = "stopped0" <=> how[p] = "graceful"
  /\ status[p] = "stopped1" <=> how[p] = "failed"
  /\ how[p] = "graceful" => sig[p] = "pending" /\ bound[p] # "none" /\ runtime.pid # p

\* The SCM is told the truth: RUNNING before a socket is touched, STOPPED(0) exactly for
\* a run that served and ended by a stop, STOPPED(1) for a failed bring-up, and only
\* when the process holds no socket and its record is gone.
ScmToldTheTruth == \A p \in Scm : ScmTold(p)

\* Why the three are inductive: what a process has by the time it reaches each phase.
PhaseInv(p) ==
  /\ pc[p] \in {"off", "begin", "resolve", "primary", "second"} => bound[p] = "none"
  /\ pc[p] \in {"udp", "tcp", "record", "spawn", "serving"} \cup Stopping => bound[p] # "none"
  /\ pc[p] \in {"off", "begin", "resolve", "primary", "second", "udp"} => dns[p] = "none"
  /\ pc[p] = "tcp" <=> dns[p] = "udp" /\ pc[p] \in Alive
  /\ pc[p] \in {"record", "spawn"} => dns[p] # "closed"
  /\ pc[p] \in {"off"} \cup Starting => ens[p] = "none" /\ ~shut[p]
  /\ shut[p] => sig[p] = "pending"
  /\ pc[p] \in Stopping => shut[p]
  /\ pc[p] = "off" => status[p] = "pending"
  /\ pc[p] \in Alive /\ p \in Scm => status[p] = "running"
  /\ how[p] # "none" <=> pc[p] = "exited"

ServiceInv ==
  /\ TypeOK /\ (\A p \in Procs : PhaseInv(p))
  /\ SocketsAccounted /\ RecordAccounted /\ ScmToldTheTruth

\* A stop always ends the process, whatever phase it found it in: the SCM's Stop is
\* kept through the bring-up, and no task misses the watch.
StopCompletes == \A p \in Procs : (pc[p] \in Alive /\ sig[p] = "pending") ~> pc[p] = "exited"

\* A bring-up never hangs: it comes to serve, or it fails and the process ends.
BringUpSettles == \A p \in Procs : pc[p] = "begin" ~> pc[p] \in {"serving", "exited"}

\* A process that may bind dig.local comes to serve it or finds it answered, unless it
\* ends or an unrelated program holds the address.
EnsureSettles ==
  \A p \in Privileged :
    (pc[p] = "serving" /\ ens[p] \in {"probe", "bind", "wait"}) ~>
      (ens[p] \in {"proxy", "done"} \/ pc[p] # "serving" \/ sock["digLocal"] = "other")

\* state.rs, "the file is present exactly while the service is serving": a serving
\* process that may write the state dir has a record there.
RecordWhileServing ==
  \A p \in Privileged : pc[p] = "serving" => runtime # NoRecord
=============================================================================
