# dig-dns in TLA+

dig-dns makes `<store>.dig` addresses browsable on one machine: a DNS responder
answers every name under the tld with a loopback address, and an HTTP gateway on that
address resolves the store's anchored root, fetches the resource from a dig-node,
verifies it against the root, decrypts it and serves it. This directory holds a model
of its request path, its service process, its DNS responder, its installation on
Linux and Windows, its configuration of the operating system on all three, its encrypted
lookup of the public gateway and its reading of the environment, checked with TLC and
proved with TLAPS: every safety property of the passing runs, for every value of the constants,
and the part of each liveness property but `EnsureSettles` that needs no fairness.

## The system

| component | state it keeps | operations | interacts with |
|---|---|---|---|
| HTTP gateway (`gateway.rs`) | per request: target, trusted root, outcome | `classify`, `handle`, `serve_store`, `fetch_and_decrypt`, `spa_or_404`, `ok_body_response` | node client (awaits), clients |
| host, path, content (`host.rs`, `content.rs`) | none | `parse_dig_host`, `resource_key_for_path`, `verify_and_decrypt` | called by the gateway |
| node client (`transport.rs`, `node.rs`) | the endpoint it chose; per call the windows so far | `resolve`, `probe`, `call`, `get_anchored_root`, `get_content`, `assemble_windows` | dig-node over JSON-RPC |
| label codec (`label.rs`) | none | base32 to and from 32-byte ids | host parsing, cli |
| service process (`server.rs`) | listeners, shutdown watch, tasks | `serve_with_shutdown`, `bind_listener`, `bind_dns`, `serve_on`, `serve_dns` | OS sockets, all of the above |
| runtime record (`state.rs`) | `runtime.json`, shared by all processes | `RuntimeGuard::record`, its `Drop` | service process, cli |
| dig.local mapping (`dig_local.rs`, `server.rs`) | the proxy's listener | `ensure_dig_local_mapping`, `spawn_dig_local_ensure`, the reverse proxy | dig-node, which binds the same address itself |
| SCM run loop (`service_run.rs`, `win_service.rs`) | what the SCM was told, the stop channel | `run_reporting`, `run_service` | Windows SCM, service process |
| DNS responder (`dns.rs`, `server.rs`) | none | `respond`: `parse`, `decide`, `build` | its two sockets, stub resolvers |
| installation (`service.rs`) | the registration, the staged program | `install` (`stage_service_program`, `reinstall`), `uninstall`, `start`, `stop` | service manager, file system, service process |
| OS configuration (`os_config.rs`) | drop-ins, NRPT rules, browser policies, loopback aliases | `configure`, `unconfigure`: plans of steps, a verification, a report | resolver daemons, launchd, registry, users' own rules |
| encrypted upstream (`secure_dns.rs`) | each tier's resolver cache | `resolve_scoped`, `resolve_with_fallback` | node client, doctor, DNS servers |
| configuration (`config.rs`, `cli.rs`) | none | `from_env`, `validate`, `load_config` | environment; `build_plan` writes it back |
| PAC, doctor, cli, packaging, system tools | none | templates, diagnostics, printing | the user |

What is hard in it:

- **Concurrency.** Requests interleave with each other, with new roots being anchored
  and with the node coming and going; inside one process the accept loop, the DNS task,
  the dig.local task and the shutdown task interleave; on a restart two processes
  overlap and share sockets and `runtime.json`; dig-node contends for `dig.local`.
- **Failure.** Any call to the node may fail, or be answered wrongly; any bind may
  fail; the process may be stopped in any phase, killed or crash; an install may fail or
  be killed after any of its steps, and the next one starts from what it left; so may
  configure-os, which goes on past a failed step. A Windows service is deleted long after
  the deletion was asked for, or never.
- **Timeouts.** A server that stays silent is given up by the lookup, and the lookup by the
  connection it is part of, each on a clock of its own.
- **Ordering.** The root is resolved before the windows are fetched; the SCM report
  precedes all work; the listener closes before the record is removed.
- **Bounds and edges.** The cap on windows, byte ranges, chunk lengths, the sizes of DNS
  messages.

What makes each part correct, and where it is stated:

- what the gateway serves is the resource that was asked for, under a root that is
  right and fresh, whatever the node does (`Authentic`, `FreshRoot`); a failure is told as
  one (`UnreachableIs502`); it is no open proxy (`NeverOpenProxy`); every request ends;
- a process holds the sockets it serves and no others, its record and its reports to the
  SCM are true, it always comes up or fails, and it stops when told to;
- a DNS client gets the answer the policy prescribes, whatever transport it ends up with, as
  long as its question leaves room for the answer in a TCP message (`Policy`);
- a command that reports success has done what it says (`OkIsInForce`,
  `OldProcessWasCarried`, `GoneAfterUninstall`, `UninstalledForGood`), a registration is
  never changed in place (`ContractSpec`, `CreateFindsNone`), and every command ends;
- an unconfigure-os none of whose steps failed leaves no marked artifact of its tld, whatever
  failed before, apart from the temporary files of writes cut short (`ZeroResidue`); it does not
  remove what somebody else wrote, apart from the Linux policy files, which it removes on sight,
  and files configure-os had replaced before (`OthersKept`); registry values written before their
  marker stay. A tld reported live stays live
  (`ActivationLasts`), and running a command again is a no-op (`RerunChangesNothing`);
- the public gateway's address is asked of every encrypted server before it is asked in
  plaintext (`PlaintextIsLast`), the doctor tells what happened (`VerdictTrue`), and a lookup
  ends and fails only for a reason (`EveryLookupEnds`, `FailureExplained`);
- a service reads back the part of the configuration that was written for it, on macOS always
  and on Linux unless the node URL holds a character systemd interprets (`BakedReadsBack`);
  on Windows nothing is carried.

The hazards are listed one by one, each at its source line, in `PROJECT.json`.

## Modules

| module | models | extends |
|---|---|---|
| `ByteRange` | `parse_range`, and a reference definition of what a header selects | |
| `Content` | host and path parsing, `assemble_windows`, `verify_and_decrypt`, with symbolic cryptography | |
| `Gateway` | the request path as a state machine, with the node and the chain as environment | `Content`, `ByteRange` |
| `Service` | processes on a machine: bring-up, tasks, shutdown, record, dig.local | |
| `Dns` | the responder, its UDP and TCP sockets, and a client that retries over TCP | |
| `Registry` | abstract: what `install` promises of the registration | |
| `Install` | the commands that register the service on Linux, with systemd as environment | instantiates `Registry` |
| `Scm` | the same commands on Windows, with the service control manager as environment | instantiates `Registry` |
| `OsConfig` | configure-os and unconfigure-os on Linux, macOS and Windows | |
| `Upstream` | the ladder of encrypted DNS servers, as the HTTP client and the doctor walk it | |
| `Config` | the environment and `--node` to a configuration, and back through `build_plan` | |
| `GatewayProofs`, `ServiceProofs`, `DnsProofs`, `InstallProofs`, `ScmProofs`, `OsConfigProofs`, `UpstreamProofs` | theorems | the module of that name |
| `InputsProofs` | a theorem about `Config` | `MCInputs` |
| `MCInputs` (of `ByteRange` and `Config`), `MCGateway`, `MCService`, `MCDns`, `MCInstall`, `MCScm`, `MCOsConfig`, `MCUpstream` | instances for TLC | |

### Gateway

One connection of `Conns` serves one request at a time. `pc` says at which await the
request stands: `root` (in `get_anchored_root`), `content` (in a `dig.getContent` call
of the paging loop), `health`, or at the two points between awaits, `fetched` (an outcome of
`fetch_and_decrypt` is known) and `done` (`handle` has returned). `trusted` is
`serve_store`'s trusted root, `job` the locals of `get_content`, `fetched` the `Fetched`
value, `resp` the response.

| action | code |
|---|---|
| `Receive` | `respond` to the first await of `handle`: the guards, the early answers, the path check |
| `Health` | `control_response` for `/.dig/health` |
| `ResolveRoot` | the await on `get_anchored_root` in `serve_store`, with its 404 and 502 |
| `GetContent` | one turn of `get_content`'s loop: cap, call, complete, advancing offset; then assemble, verify, decrypt |
| `Serve` | what `serve_store` and `spa_or_404` make of the outcome: a body, the fallback fetch, 404 or 502 |
| `Deliver`, `Disconnect` | hyper: the response is written; the client leaves and the future is dropped at an await |
| `Anchor`, `Sync`, `NodeFlips` | environment: the chain anchors a root, the node obtains a resource, goes or comes back |

A byte string is a sequence, a label an id or not, a path the sequence of its segments,
a `Range` header its two fields. Cryptography is symbolic: a merkle proof folds exactly
when the leaf is a ciphertext the root commits to, a chunk opens exactly under the store
and key it was sealed for. `BindingAssumption` says that the two together bind
(committed bytes that open under a key are that key's resource); TLC evaluates it on
every instance. Docs holds a tree nobody anchored too, since anybody can build one.

The node is external. With `NodeHonest` it answers as the code expects of the read
contract, decoys for unknown keys included; otherwise it answers any error, and any root
and window of two sets.

### Service

A process of `Procs` runs once, from `begin` through the bring-up to `serving`, then
`closing` and `leaving`. `Scm` names the processes the Windows SCM runs, the others are
`dig-dns serve`, the unix service too; `Privileged` those that may bind low ports and
write the state directory. They share `sock`, the holder of each socket, and `runtime`,
the record. Each bind is a step, since another process may bind in between, and so are
closing the listener (`AcceptStops`) and removing the record (`DropGuard`).

| action | code |
|---|---|
| `Start`, `StartUnreported` | handler registered, `report_running`; or it fails and the body never runs |
| `Prepare` | configuration, tokio runtime, HTTP client; any may fail |
| `Resolve` | one rung of `ReqwestNodeClient::resolve` |
| `BindPrimary`, `BindFallback` | `bind_listener` |
| `BindUdp`, `BindTcp` | `bind_dns`; a TCP failure drops the UDP socket |
| `Record` | `RuntimeGuard::record` |
| `Spawn` | the tasks are spawned and the accept loop begins |
| `EnsureProbe`, `EnsureBind`, `EnsureClientFails`, `EnsureRetry`, `EnsureStops` | the dig.local task: probe, bind, outcome, 30 s retry, shutdown |
| `Arm`, `Stop`, `Flag` | Ctrl-C handler, the stop request, the watch being flipped |
| `DnsStops`, `AcceptStops`, `DropGuard`, `Leave` | each task's end; STOPPED is reported after the runtime is dropped |
| `Terminate`, `Crash` | SIGTERM (unhandled), crash or SIGKILL |
| `NodeStarts`, `NodeStops`, `OtherTakes`, `OtherLeaves` | environment |

`MaxFaults` bounds crashes and environment steps in one behaviour; stops and SIGTERM are not
bounded.

### Dns

The responder keeps no state; the variables are one client's exchange: the query, the
reply it holds, and the length in front of a TCP reply. A message is the fields `parse`
reads and its length in bytes; a name is the sequence of its labels, each the tld (in
either case) or not. `respond`, `build`, `decide` and the others are operators under the
names of the code. `UdpReceived` is what the 4096-byte buffer of `serve_dns` leaves of a
datagram; `rlen` is the cast to 16 bits in `handle_dns_tcp`, and `TcpRead` what a client reads
behind it: the reply, or the first bytes (`cut`) of one too long for the cast. `Policy` speaks
of replies read whole and says when one is not: over TCP, for a question of 65497 bytes or more.

| action | code |
|---|---|
| `Ask` | a client sends a query over either transport (external) |
| `ServeUdp` | the UDP arm of `serve_dns`; the client goes on to TCP when TC is set |
| `ServeTcp` | `handle_dns_tcp` |
| `UdpLost` | a datagram is lost, or `recv_from` or `send_to` fails |

### Install

One command runs at a time; `pc` is its next step, and a step is one file operation or one
`systemctl` call. A registration is named by the invocation whose plan it is, so a
property can say which plan is on disk (`reg`), in systemd's memory (`loaded`), staged
(`staged`) and running (`proc`). systemd is external and modelled as the commands use it:
`/etc` before `/lib`, `start` of an active unit does nothing, the definition in force is
the one last read, `Restart=on-failure`. The ownership and symlink checks of staging pass,
or the step fails.

| action | code |
|---|---|
| `Invoke` | a subcommand begins; `install` and `uninstall` check for root |
| `EnsurePrefix`, `RemoveDest`, `CopyProgram` | `stage_service_program` |
| `IsInstalled`, `WaitForRemoval` | `reinstall`'s decision, `wait_for_removal` (the file is gone at the first poll) |
| `Stop`, `Disable`, `RemoveUnit`, `Forget` | `stop`, and `delete`'s three steps, two of them best effort |
| `WriteUnit`, `Reload`, `Enable` | `create`: `atomic_write`, `daemon-reload`, `enable` |
| `Start` | `start` |
| `Killed`, `Reboot`, `ServiceExits`, `Restarts` | environment |

### Registry, and Scm

`Registry` is the promise behind `reinstall`, for any backend: a plan is registered only
when none is, and an install reports success only while its own plan is registered. Its
state is the registered plan (`held`) and the plan whose install has reported Ok. `Install`
and `Scm` implement it, each under its own mapping (`Contract`): `held` is the unit file on
Linux and the entry of the service database on Windows.

`Scm` runs the same commands where stopping and deleting are asynchronous: `sc stop`
returns before the process ends, a deleted service is only `marked`, and it vanishes once
its process has ended and nobody (the Services console) holds it open. `misled` remembers
that a probe of the command could not run, which `query_installed` takes for "not there".

| action | code |
|---|---|
| `Invoke` | a subcommand begins; `install` and `uninstall` check for elevation |
| `IsInstalled`, `Stop`, `Delete` | `reinstall` up to the deletion; `uninstall` and `stop` |
| `WaitForRemoval` | one poll of `wait_for_removal`, or `TimedOut` after the last |
| `Create`, `Start` | `sc create` (1073 while the service is there), `sc start` |
| `Vanishes`, `ProcessEnds`, `ConsoleOpens`, `ConsoleCloses`, `Killed`, `Reboot` | environment |

### OsConfig

The plans of `configure_resolver_steps`, `unconfigure_resolver_steps` and the browser
policies are the literal lists of the code, one per system and, on Linux, per owner of
`/etc/resolv.conf`; a command executes one step at a time. An artifact is who wrote it
(dig-dns, the old installer with its marker or without, or somebody else) and the address it
routes to. `temps` are the temporary files of writes that were cut short (`CutShort`), each with
its marker or without. `last` and `clean` are history: which command ended last, and whether each
of its steps succeeded. The commands of a behaviour are all for one tld; on a machine that starts
with `othertld` a configure-os for another one has left its drop-ins, its alias and, on macOS, its
`/etc/resolver` file, which no command for this tld looks at.

| action | code |
|---|---|
| `Invoke` | `configure` or `unconfigure` begins; not elevated, or an unknown system, it refuses |
| `WriteFile`, `RemoveFile`, `LeaveAlone` | `Step::Write` with `write_if_changed` and `atomic_write`, `Step::RemoveOurs`, the policy files; and steps with nothing to do |
| `Exec` | `Step::Exec`, `Step::PsExec`: reload, flush, alias, launchctl |
| `NrptAdd`, `NrptRemove` | the two PowerShell commands on NRPT rules |
| `QueryKey`, `AddValue`, `DeleteValue`, `RecordKey` | `apply_windows_browser_policy`, `remove_windows_browser_policy` |
| `PlanEnds`, `UnconfigureEnds`, `Verify` | the end of `execute`; the report; `verify_os_routing` and `apply_activation_result` |
| `Killed`, `Reboot`, `DaemonRestarts`, `LookupFails`, `OwnerChanges`, `UserRule`, `UserNrptRule` | environment |

### Upstream

A caller is a connection of the service's HTTP client or one run of the doctor. `at` is its
place among the six servers (three tiers, IPv6 before IPv4), `waited` how long the server
asked has been silent, `elapsed` how long the connection has taken; `dialled` is history.

| action | code |
|---|---|
| `Begin` | `Resolve::resolve` for a name: the scope check |
| `Probe`, `ProbeUnbuilt` | `probe_secure_upstream` of the doctor |
| `Ask`, `Answers`, `Refuses`, `TierTimeout` | one server of one tier's resolver, with its cache |
| `Tick`, `ConnectTimeout` | a second of silence; the client's `connect_timeout` and a probe's total timeout |
| `os_resolve` | tier 4 |
| `Expires` | a cached answer's TTL |

The resolver library and reqwest are external. Three things are taken from how the code uses
them: the connect timeout covers the name lookup, a tier's servers are asked in the
order given with `TIER_TIMEOUT` each and one attempt, and the queries for the two address
families count as one. If the library asks them one after the other a silent server costs
more, which makes what `upstream_blocked` shows no better.

### Config

Operators only: `from_env`, `validate`, `load_config`, `build_plan` and the parsers they
use, over texts abstracted to the white space around them, their leading dots, their case
and what they spell. `Carried` is what a service starts with of the plan `install` made: launchd
takes every variable as it is; `linux_unit_contents` writes unquoted `Environment=` lines, in
which systemd splits at white space, removes quotes and expands `%` (`Interpreted` are the words
it changes, `SystemdReads` what it makes of them); `sc create` registers no environment. The
three service managers are external. `RoundTrip` says that what is carried (`Carries`) reads back
as it was.

Definitions with a comment that starts with "Variant" are plausible mistakes in the
definition that follows them. Nothing uses them; each shows that a property can fail.

## Runs

| run | checks | result |
|---|---|---|
| `inputs` | `Exact`, `BakedReadsBack` | every header and size up to the bound, every environment with two variables set; 225,737 states |
| `gateway_honest` | `FreshRoot`, `UnreachableIs502`, `HeldIsServed`, `ImmutableUpToFallback` | pass, 87,156 states |
| `gateway_faulty` | `TypeOK`, `Authentic`, `NeverOpenProxy`, `EveryRequestEnds` | pass, about 47,000 states |
| `service_safety` | `TypeOK`, `SocketsAccounted`, `RecordAccounted`, `ScmToldTheTruth` | pass, about 767,000 states |
| `service_live` | `StopCompletes`, `BringUpSettles`, `EnsureSettles` | pass, about 174,000 states |
| `dns_policy` | `TypeOK`, `Policy`, `OrdinaryFitsUdp` | pass, about 6,900 states |
| `install_faults` | `TypeOK`, `OkIsInForce`, `OldProcessWasCarried`, `GoneAfterUninstall`, `ContractSpec` | pass, about 34,500 states |
| `scm` | `TypeOK`, `CreateFindsNone`, `UninstalledForGood`, `EveryCommandEnds`, `ContractSpec` | pass, 12,769 states |
| `os_config` | `TypeOK`, `ZeroResidue`, `ActivationLasts`, `OthersKept`, `RerunChangesNothing` | pass, 3,114,500 states |
| `upstream` | `TypeOK`, `PlaintextIsLast`, `VerdictTrue`, `FailureExplained`, `EveryLookupEnds` | pass, 91,774 states |
| `service_record` | `RecordWhileServing` | violated: an old process removes the new one's record |
| `upstream_blocked` | `NextTierIsTried` | violated: the connection's deadline passes before the first server's |

The violated properties are sentences of `SPEC.md` or of the source's comments; the
findings in `PROJECT.json` quote them and tell the behaviour TLC found.

More disagreements between the code and what is said of it, which the model contains
without a run of their own. In the request path:

- `%2e%2e` is an ordinary path segment (`content.rs:66`; `SPEC.md:187` wants it refused);
- a host with a trailing dot before its port is rejected (`host.rs:60`, though `host.rs:54`
  tolerates both);
- the index page sent in place of a resource the node lacks is sent as immutable for a pinned
  host, so a cache keeps it after the node has the resource (`SPEC.md:214-216`); hence the
  exception in `ImmutableUpToFallback`;
- the length in front of a TCP reply longer than 65535 bytes wraps (`server.rs:232`), and the
  client reads the first few bytes of the reply; hence the exception in `Policy`.

In the service and its installation:

- SIGTERM is not handled and leaves the runtime record behind (`server.rs:245`, `SPEC.md:701`);
- a dig.local mapping once found is believed for ever: when its holder goes away, nobody
  serves it (`server.rs:482`, `SPEC.md:534-535`);
- an install over the running service of the .deb package, whose unit file is under `/lib`, does
  not stop it (`SPEC.md:634-637`);
- an install run from the staged program removes its own source before it copies it
  (`SPEC.md:576`, `service.rs:630-631`);
- `build_plan` does not bake `dig_local_ip`, `dig_local_port` and `secure_upstream`
  (`Baked` in `Config`), so the service does not serve "identically to the invocation that
  installed it" (`service.rs:201-202`);
- nor does it when the node URL holds a space, a quote, a backslash or `%`, which
  `is_safe_node_url` accepts and the unquoted `Environment=` line does not carry
  (`service.rs:731-735`, against `service.rs:714-715`); and on Windows the environment handed to
  the service manager (`service.rs:387-396`) does not reach `sc create`. Hence `Carries` in
  `RoundTrip`.

In the configuration of the operating system:

- `write_if_changed` replaces a rule somebody else put at `/etc/resolver/<tld>` or in a drop-in of
  the same name, and unconfigure-os then deletes it, though `os_config.rs:34-35` says
  that such a rule is never touched; hence `OthersKept` speaks of those files for
  unconfigure-os only;
- `ok` is true even when every step failed (`os_config.rs:693`, `os_config.rs:751`, against
  `os_config.rs:338`);
- a policy's registry values are written before its marker, so a configure-os that is killed in
  between leaves a policy that no unconfigure-os removes; and the empty key an unconfigure-os
  leaves counts as an organisation's policy at the next `--browser-policy`;
- on macOS unconfigure-os under another tld than configure-os leaves `/etc/resolver/<old tld>`
  behind (`os_config.rs:105-107`, `os_config.rs:588-590`), while on Windows it takes the marked
  rules of every namespace;
- a write that fails after its temporary file was created, or a kill before the rename, leaves that
  file (`os_config.rs:866-878`; only a failed rename cleans up), and nobody ever removes it,
  against "`unconfigure-os` leaves ZERO residue" (`ci.yml:233`). For these two `ZeroResidue` has
  exceptions. The one of Chrome's managed preference, if it was cut off before the marker, has
  Chrome's name in its own and counts as an organisation's policy from then on
  (`os_config.rs:1037-1044`; `existing_chrome_managed_policy`);
- a foreign NRPT rule, or one for an old address, keeps the new one from being added, and the
  report then asks for a reboot, which does not help.

Bounds and why they suffice:

- `U64Max` and `UsizeMax` are 7 so that numbers beyond them occur; the proof covers every
  value. `U16Max` is 7 and `U32Max` 9 for the same reason. Any two variables of the
  environment are set, to every spelling that a parser tells apart, with any `--node`.
- Store `s1` has two generations, so a root can change while a request is in flight. The route
  `about` has two chunks and, with `WindowSize` 3, two windows that do not align with
  them. Two requests in a row on a connection show state that leaks from one to
  the next, and responses a cache would keep that disagree. Connections share nothing but
  the node, so one suffices.
- `MAX_CONTENT_WINDOWS` is 3: a resource of two windows fits and a node that never
  completes reaches the cap.
- The misbehaving node's windows combine true and forged proofs, true and foreign bytes,
  lengths that fit and that do not, missing fields and offsets that do not advance.
  Requests cover both host forms, hosts and paths of every kind, and every pair of range fields.
- Two processes, since the hazards are those of a restart that overlaps; one disturbance
  in the safety run and two in the liveness run, so that an address can be taken
  and given back. The safety run has the ladder of three rungs, the liveness run
  the override and an unprivileged second process.
- DNS lengths are the real ones, on both sides of each limit: 512 bytes, the payload size
  of the OPT record (zero, just too small, 512, 1232, 4096), the 4096-byte buffer, and
  questions of 65496 and 65497 bytes, whose longest TCP replies have 65535 and 65536.
- Four commands (`MaxRuns`) are enough for one that fails, one that meets what it left, a
  third that is to succeed and an uninstall; every step may fail, and commands may be killed
  and the machine reboot without bound.
- On Windows five commands and four faults: an install that times out on a held handle, one
  killed, and the ones that meet what they left. Three polls (40 in the code) show the
  counting; the proofs cover any number of each.
- For configure-os three commands, two faults (failed steps, kills, a rule somebody adds,
  another resolver) and two addresses: a run that fails, one with another address, and the
  unconfigure that is to clean up after both. The addresses are interchangeable, hence the
  symmetry set. All three systems start fresh, with the old installer's leavings,
  with somebody's own rules, or with what a configure-os for another tld left. Reboots, daemon restarts and failed lookups are not bounded.
- One connection (which looks names up again and again, so the caches matter) and one
  doctor; they share only `secure`, as the doctor builds a resolver of its own.
  `TIER_TIMEOUT` 3 and `PROBE_TIMEOUT` 2 are the code's values in seconds.

No deadlock check is made in the service runs: all processes may have ended, and a
process runs once. Nor in `os_config`, which ends when the commands are used up, and in
`inputs`, which makes one step.

Fairness. `Gateway!FairSpec` assumes that a request's next step is taken: reqwest's
`REQUEST_TIMEOUT` ends a call that is never answered. It does not assume that the node
answers, nor that it stays up. `Service!FairSpec` assumes weak fairness of a process's main task,
its shutdown task and its dig.local task: tokio runs a ready task, a bind does not
block, a probe has `PROBE_TIMEOUT`, and the retry timer fires. Stops, crashes and the
environment are not fair. `Scm!FairSpec` assumes only that a running command takes its
next step; the service may never stop, a handle may be held for ever.
`Upstream!FairSpec` assumes weak fairness of each lookup: clocks run, the library's and
the client's timers fire, and `getaddrinfo` returns. Nothing is assumed of the servers.

## Proofs

`tlapm` checks the eight proof modules; nothing is assumed but the named assumptions on the
constants, which TLC evaluates on its instances.

`GatewayProofs`:

- `ParseRangeExact`: `parse_range` agrees with the reference for every header and size.
- `AuthenticInvariant`: `AuthenticInv` is inductive. `Authentic` speaks of
  finished responses only, so the invariant adds what each earlier phase has established:
  a request at the node is one for a store, its key is the path's or the fallback's
  (`KeyRight`), its trusted root is the pinned one or one the node named, and an `Ok`
  outcome is the plaintext of a resource under that store, root and key. The last is where
  `verify_and_decrypt` and `BindingAssumption` are used.
- `TypeCorrect`, `ServedIsAuthentic`, `NotAnOpenProxy` for every set of connections,
  requests, resources and node answers.
- `FailureIsTold`, `RootIsFresh` and `ImmutableAgrees`. A step touches one connection
  (`OneConn`), so each follows from an invariant of one. `HurtAt`: an unanswered call leaves the
  request with the outcome `NodeUnreachable` or the response 502, and nothing else follows.
  `FreshAt`: the trusted root lies between the generation anchored at the arrival, which stays
  (`AnchoredGrows`), and the newest one; here the node is honest (`NodeHonest`), as one
  that names old roots cannot be told apart by this code. For the caches the theorem combines
  `AuthenticInvariant`, that each body is a resource under the pinned root, with
  `OneResourceAssumption`: a store's tree is built from a map, with one resource for a key.
- `HeldServed`: with an honest node, `HeldIsServed`. The invariant `HeldInv` follows one
  resource through a request: the windows so far are the first windows of its ciphertext and
  the next offset is where the last one ended (`PagingAt`), the outcome is its plaintext or says
  what was missing (`OutcomeAt`), and the fallback is fetched only once the path's own key was
  not found (`TurnedAt`). The honest node's windows come one after another (`NextWindow`), put
  together they are the ciphertext (`CutAssembles`), it splits at the chunk lengths into the
  chunks it was joined from (`OwnSlices`), and each opens (`OpensOwn`); a decoy never does
  (`DecoyShut`). The facts about sequences of any length are proved by a least counterexample:
  `Least` instantiates `WFMin`, which takes a set, for the set of numbers at which a statement
  fails, and `Induction` restates it for sets of numbers. From it come the recursive functions behind
  `FlattenSeq` and the running ends of the chunks (`FlattenIs`, `EndsAre`).
  The theorem assumes `NodeHonest` and `AllServable`: every resource has a
  chunk, fits `usize`, and fits `MAX_CONTENT_WINDOWS` windows, beyond which the code gives up;
  TLC evaluates both. `OneResourceAssumption` is what tells a resource from a decoy,
  and `AbsentAssumption` keeps a missing field of an answer apart from its values.
- `RequestsDescend`: `Budget`, the steps a request has left, falls with each of its steps and
  grows with nobody's, and is at most `2 * MAX_CONTENT_WINDOWS + 5`: two fetches, each within the
  cap, and what comes between them.

`ServiceProofs`:

- `ServiceInvariant`: `ServiceInv` is inductive for any set of processes. It joins the
  three safety properties with `PhaseInv`, what a process has by the time it reaches
  each phase. `OneProcess` reduces a step to the process that takes it: the
  others are the same, sockets pass only between it and the free, and the record stays,
  goes or becomes its own. One lemma per action shows these; `ExitInv` covers every end.
- `ServiceTypes`, `NoSocketLost`, `RecordIsTrue`, `ScmIsToldTheTruth` follow.
- `ProcessMovesOn`: the main task has at most `Len(Ladder) + 11` steps left, each of its steps
  leaves fewer, no other task, process or disturbance sets it back, and neither a pending stop
  nor the flipped watch is ever lost. That a stop survives the start of a process needs
  `Fresh`: there is no handler before.

`DnsProofs`: `DnsInvariant` proves types and lengths together (`DnsTypes`,
`OrdinaryAnsweredOverUdp`): that an ordinary reply fits is a fact about `build`'s lengths,
and that the prefix fits two bytes holds because `rlen` is a remainder. `TcpReadIs` says
that what is read is the reply unless that has 65536 bytes or more, which by the lengths of
`build` takes a question of 65497 (`BuiltFor`). `PolicyHolds`
needs `Provenance`, where a reply comes from: the one a client ends with is `respond` of
what the UDP socket heard and not truncated, or what is read of `respond` of the whole query
over TCP.
The policy is then a fact about `respond` (`RespondPolicy`).

`InstallProofs`: `InstallInvariant` shows `InstallInv` inductive for any number of
commands. The properties speak of a command that has returned Ok, so the invariant says
what each step has established on the way: `StagedInv` (after the copy, the program is this
run's), `WrittenInv` (no unit file is there before the write; after the write it is this
run's; after the reload, so is what systemd holds), `StoppedInv` (after the stop nothing of ours runs unless it was carried),
and what `InstalledInv` and `UninstalledInv` keep through service exits, restarts and
reboots once the command is done. `InstallTypes`, `InstallTakesEffect`,
`OnlyACarriedProcessIsOld` and `UninstallIsFinal` follow. `InstallRefines` shows that
the Linux backend implements `Registry`: with the invariant, every step is a step of
`Registry` or leaves its state alone (`RefineStep`), the write being the only one that
registers.

`ScmProofs`: `ScmInvariant` shows `ScmInv` inductive, for any number of commands, polls
and faults. `CreateFindsNone` and `UninstalledForGood` are not inductive alone: a probe
that finds no entry proves that the process is gone too only because a process never
outlives its entry, and an install may say Ok only because the entry it made is its own and
unmarked when it starts it. `Ties` states both, and which subcommand can be at which step.
`ScmTypes`, `CreateSafe`, `UninstallHolds` follow, and `ScmRefines`: the Windows
backend implements `Registry` too, the vanishing of a marked service and a reboot being
`Unregister`. `CommandsDescend`: a command has at most `REMOVAL_POLL_ATTEMPTS + 6` steps.

`UpstreamProofs`: the invariant of one lookup is `Lookup`. `Walk` ties the place in the code
to the servers dialled so far (asking server n, the first n-1; at the OS resolver, all six),
which is stronger than `PlaintextIsLast`, a property of any prefix. `Told` says that a
connection's clock runs only while a server is silent, and `Judged` what the doctor's answer is
at each phase. Each action has a lemma for the lookup that takes it; the others stay as
they are (`SameLookup`). `LookupTypes`, `LadderInOrder`, `DoctorTells` and `FailureHasCause`
follow, for any number of callers and any two timeouts. `LookupsDescend`: from the n-th server
on a lookup has at most `TIER_TIMEOUT + 2` steps for each server left, and at the OS resolver
what its connection's clock leaves; the doctor, who has no such clock, is bounded by the
servers' timeouts alone.

`OsConfigProofs`: the argument is about the plans. A step of a plan is `Done` when the machine
is as the step would leave it: an artifact written with this address, a foreign one left alone,
ours gone. The lemmas on the plans say which operations a plan holds (`Allowed`), that it
holds a step for each thing to remove (`Has`, `Deletes`) and in which order (`Ordered`);
with them, `DoneKept` shows that no later step of a plan undoes an earlier one. `Inv`
joins:

- `Passed`: a command none of whose steps failed has done every step before `next`; and
  `Settled`, the same of the whole plan of the command that ended last, kept
  through reboots, daemon restarts and rules somebody adds;
- `SkipMeans` and `Queried`: a policy key of somebody else's is passed over once it was queried, and
  a command without failures passes over no other;
- `Places`: what can be where on which system, and that a key is never both theirs and ours;
- `Wiring` and `Lasting`: the report lists what is really on disk, and a live tld has on disk
  what brings it back.

`NothingLeftBehind` is `Settled` for an unconfigure, with `Temps` (without a fault no temporary
file is left); `RerunIsIdle` is `Settled` while the same
command runs again: a step that is done already changes nothing. `OthersUntouched` needs
`Queried`, and `StaysActive` is `Lasting`. They hold for any number of commands, faults and
addresses. TLC checked `Inv` on two commands before it was proved. The
attempt corrected the model in one place: in `LegacyFiles` two arms of a CASE overlapped, so that
what the old installer left on a system without `/etc/resolver` was left to a choice.

`InputsProofs`: `InstallReadsBack` is `BakedReadsBack` with every variable set to any text or
to none. What `load_config` accepts is in the form its parsers leave (`Accepted`: a number
within its width, a tld in normal form, a trimmed URL that is not blank), and in that form
writing and parsing again is the identity (`WrittenReads`). `WidthAssumption` asks that the
default ports and TTL fit their widths, without which the statement is false;
`SentinelAssumption` keeps None and Err apart from values, and `LiteralAssumption` says that a
literal is a string, which the provers do not know. Where the service manager carries the plan it
carries it as written (`CarriedAsWritten`); of systemd only `SystemdAssumption` is asked, that it
reads an assignment or ignores the line, so the theorem holds whatever it makes of a node URL it
interprets. `HeadersExact` states `Exact`, the other
property of `MCInputs`, for every header and every size; it is the argument of `ParseRangeExact`
on that module's variables.

Only model-checked: the liveness properties as such. `RequestsDescend`, `ProcessMovesOn`,
`CommandsDescend` and `LookupsDescend` prove the well-founded part of each, that only boundedly
many steps remain and nothing adds any. What is left to TLC is that a step is enabled until the
end and that fairness takes it: ENABLED and fairness are out of the prover's reach.
`EnsureSettles` has no such measure, since the dig.local task may retry for ever while an
unrelated program holds the address.

## Not modelled

- The macOS installation backend: launchd's `bootstrap` and `bootout` under the same
  `reinstall`, with no behaviour the other two backends lack.
- The PAC template, packaging templates and the lookup of absolute tool paths: text without
  state. The doctor's other checks and the status and health probes read one fact
  each. Argument parsing and printing.
- The arithmetic of the label codec: a label decodes to an id or does not.
- Two installs, or two configure-os, at the same time; nothing in the code excludes them.
- Commands for different tlds in one behaviour of `OsConfig` (see `othertld` there). Files of somebody
  else at the Linux policy paths: `os_config.rs:1009-1012` takes the names for its own and removes
  them on sight. Further assignments that systemd reads after a space in an `Environment=` line.
- Errors of a privileged process that the code ignores: `remove_file` failing in
  `RuntimeGuard::drop` (`state.rs:163`), after which the record stays, the record's write failing
  (`state.rs:149`), and `report_stopped` failing (`win_service.rs:95-101`). `RecordAccounted` and
  `ScmToldTheTruth` hold as long as these succeed. The two DNS sockets close in one step (`server.rs:182`,
  `server.rs:215`).
- The text of messages and of headers other than `Cache-Control`, content types, and HEAD's
  missing body (hyper drops it). Connections in flight when a process stops; they die
  with the runtime. The dig.local proxy's relay of headers.
- The node endpoint is chosen in `Service` and one abstract node in `Gateway`: what a
  process does whose endpoint has gone, or is its own proxy, is in neither.

## Plan

1. An abstract lifecycle (off, starting, serving, stopping, ended) that `Service`
   implements, and an abstract read-only store that `Gateway` implements, both with proofs.
2. The endpoint ladder composed with the dig.local proxies of several processes; the label
   codec as operators.
