--------------------------- MODULE ServiceProofs ---------------------------
(***************************************************************************)
(* Theorems about Service, for every set of processes.                     *)
(***************************************************************************)
EXTENDS Service, TLAPS

\* The initial states satisfy the invariant.
LEMMA ServiceInit == Init => ServiceInv
<1> SUFFICES ASSUME Init PROVE ServiceInv
  OBVIOUS
<1>1. TypeOK
  <2>1. Len(Ladder) \in Nat /\ 1 <= Len(Ladder)
    BY DEF Ladder
  <2>2. QED BY <2>1, ServiceBounds DEF Init, TypeOK, Alive, Others, NoRecord, Sockets
<1>2. \A p \in Procs : PhaseInv(p)
  BY DEF Init, PhaseInv, Starting, Stopping, Alive
<1>3. SocketsAccounted
  BY NamesAssumption DEF Init, SocketsAccounted, Holds, Alive, Starting, Stopping, Others
<1>4. RecordAccounted
  BY DEF Init, RecordAccounted
<1>5. ScmToldTheTruth
  BY NamesAssumption, ProcsAssumption DEF Init, ScmToldTheTruth, ScmTold, Others
<1>6. QED BY <1>1, <1>2, <1>3, <1>4, <1>5 DEF ServiceInv

(***************************************************************************)
(* A step of one process: what has to be shown about it, and why that is   *)
(* enough for all the others.                                              *)
(***************************************************************************)
\* A process this step leaves alone.
Same(q) ==
  /\ pc'[q] = pc[q] /\ bound'[q] = bound[q] /\ dns'[q] = dns[q] /\ ens'[q] = ens[q]
  /\ sig'[q] = sig[q] /\ shut'[q] = shut[q] /\ status'[q] = status[q] /\ how'[q] = how[q]

\* Sockets pass between p and the free, never from or to another process.
OwnSockets(p) ==
  /\ \A s \in Sockets : sock'[s] # sock[s] => {sock[s], sock'[s]} \subseteq Others \cup {p}
  /\ \A s \in Sockets : sock'[s] = p <=> Holds(p, s)'

\* The record stays, goes, or becomes p's own.
OwnRecord(p) ==
  /\ runtime' = runtime \/ runtime' = NoRecord \/ runtime'.pid = p
  /\ runtime' # NoRecord /\ runtime'.pid = p => RecordRight(p)'

\* One process at a time: the invariant needs to be shown for the one that moves.
LEMMA OneProcess ==
  ASSUME ServiceInv, NEW p \in Procs, \A q \in Procs : q # p => Same(q),
         TypeOK', PhaseInv(p)', OwnSockets(p), OwnRecord(p), p \in Scm => ScmTold(p)'
  PROVE  ServiceInv'
<1>1. ASSUME NEW q \in Procs, q # p
      PROVE  PhaseInv(q)' /\ \A s \in Sockets : sock'[s] = q <=> Holds(q, s)'
  <2>1. PhaseInv(q) /\ Same(q)
    BY <1>1 DEF ServiceInv
  <2>2. PhaseInv(q)'
    BY <2>1 DEF PhaseInv, Same
  <2>3. ASSUME NEW s \in Sockets
        PROVE  sock'[s] = q <=> Holds(q, s)'
    <3>1. Holds(q, s)' <=> Holds(q, s)
      BY <2>1 DEF Holds, Same
    <3>2. sock[s] = q <=> Holds(q, s)
      BY DEF ServiceInv, SocketsAccounted
    <3>3. q \notin Others \cup {p}
      BY <1>1, NamesAssumption
    <3>4. sock'[s] = q <=> sock[s] = q
      BY <3>3 DEF OwnSockets
    <3>5. QED BY <3>1, <3>2, <3>4
  <2>4. QED BY <2>2, <2>3
<1>2. SocketsAccounted'
  BY <1>1 DEF SocketsAccounted, OwnSockets
<1>3. RecordAccounted'
  <2>1. CASE runtime' # NoRecord /\ runtime'.pid # p
    <3>1. runtime' = runtime /\ RecordRight(runtime.pid)
      BY <2>1 DEF OwnRecord, ServiceInv, RecordAccounted
    <3>2. runtime.pid \in Procs
      BY <3>1, ProcsAssumption DEF RecordRight
    <3>3. Same(runtime.pid)
      BY <2>1, <3>1, <3>2
    <3>4. QED BY <3>1, <3>3 DEF RecordAccounted, RecordRight, Same
  <2>2. CASE runtime' = NoRecord \/ runtime'.pid = p
    BY <2>2 DEF RecordAccounted, OwnRecord
  <2>3. QED BY <2>1, <2>2
<1>4. ASSUME NEW q \in Scm, q # p
      PROVE  ScmTold(q)'
  <2>1. q \in Procs /\ Same(q) /\ ScmTold(q)
    BY <1>4, ProcsAssumption DEF ServiceInv, ScmToldTheTruth
  <2>2. \A s \in Sockets : sock'[s] = q => sock[s] = q
    <3>1. q \notin Others \cup {p}
      BY <1>4, <2>1, NamesAssumption
    <3>2. QED BY <3>1 DEF OwnSockets
  <2>3. runtime.pid # q => runtime'.pid # q
    BY <1>4, <2>1, NamesAssumption DEF OwnRecord, NoRecord
  <2>4. QED BY <2>1, <2>2, <2>3 DEF ScmTold, Same
<1>5. ScmToldTheTruth'
  BY <1>4 DEF ScmToldTheTruth
<1>6. QED BY <1>1, <1>2, <1>3, <1>5 DEF ServiceInv

\* The ladder has a first rung.
LEMMA LadderLen == Len(Ladder) \in Nat /\ 1 <= Len(Ladder)
BY DEF Ladder

\* Start: the SCM is told RUNNING and its stop handler is there first.
LEMMA StartInv ==
  ASSUME ServiceInv, NEW p \in Procs, Start(p)
  PROVE  ServiceInv'
<1>1. TypeOK /\ PhaseInv(p) /\ (p \in Scm => ScmTold(p))
  BY DEF ServiceInv, ScmToldTheTruth
<1>2. \A q \in Procs : q # p => Same(q)
  BY <1>1 DEF Start, Goes, TypeOK, Same
<1>3. TypeOK'
  <2>1. pc' \in [Procs -> Alive \cup {"off", "exited"}]
    BY <1>1 DEF Start, Goes, TypeOK, Alive, Starting
  <2>2. status' \in [Procs -> {"pending", "running", "stopped0", "stopped1"}]
    BY <1>1 DEF Start, TypeOK
  <2>3. sig' \in [Procs -> {"unarmed", "armed", "pending"}]
    BY <1>1 DEF Start, TypeOK
  <2>4. QED BY <1>1, <2>1, <2>2, <2>3 DEF Start, TypeOK
<1>4. PhaseInv(p)'
  BY <1>1 DEF Start, Goes, TypeOK, PhaseInv, Starting, Stopping, Alive
<1>5. OwnSockets(p)
  BY <1>1 DEF Start, Goes, TypeOK, PhaseInv, OwnSockets, SocketsAccounted, Holds, Alive, Starting, Stopping, ServiceInv, Sockets
<1>6. OwnRecord(p)
  BY <1>1 DEF Start, Goes, TypeOK, PhaseInv, OwnRecord, RecordAccounted, RecordRight, Killed, ServiceInv
<1>7. p \in Scm => ScmTold(p)'
  BY <1>1 DEF Start, Goes, TypeOK, ScmTold, PhaseInv
<1>8. QED BY <1>2, <1>3, <1>4, <1>5, <1>6, <1>7, OneProcess

\* StartUnreported: the process ends before it did anything.
LEMMA StartUnreportedInv ==
  ASSUME ServiceInv, NEW p \in Procs, StartUnreported(p)
  PROVE  ServiceInv'
<1>1. /\ TypeOK /\ PhaseInv(p) /\ SocketsAccounted /\ RecordAccounted
      /\ p \in Scm => ScmTold(p)
  BY DEF ServiceInv, ScmToldTheTruth
<1>2. \A q \in Procs : q # p => Same(q)
  BY <1>1 DEF StartUnreported, Goes, TypeOK, Same, procVars
<1>3. TypeOK'
  BY <1>1, ServiceBounds, LadderLen DEF StartUnreported, Goes, TypeOK, Alive, Starting, Stopping, procVars
<1>4. PhaseInv(p)'
  BY <1>1 DEF StartUnreported, Goes, TypeOK, PhaseInv, Starting, Stopping, Alive, procVars
<1>5. OwnSockets(p)
  BY <1>1, NamesAssumption
     DEF StartUnreported, Goes, TypeOK, PhaseInv, OwnSockets, SocketsAccounted, Holds, Sockets, Others,
         Starting, Stopping, Alive, procVars
<1>6. OwnRecord(p)
  BY <1>1 DEF StartUnreported, Goes, TypeOK, PhaseInv, OwnRecord, RecordAccounted, RecordRight, NoRecord, procVars
<1>7. p \in Scm => ScmTold(p)'
  BY <1>1 DEF StartUnreported, Goes, TypeOK, PhaseInv, ScmTold, Starting, Stopping, Alive, procVars
<1>8. QED BY <1>2, <1>3, <1>4, <1>5, <1>6, <1>7, OneProcess

\* Resolve: a rung of the ladder is tried or taken; the last one always is.
LEMMA ResolveInv ==
  ASSUME ServiceInv, NEW p \in Procs, Resolve(p)
  PROVE  ServiceInv'
<1>1. /\ TypeOK /\ PhaseInv(p) /\ SocketsAccounted /\ RecordAccounted
      /\ p \in Scm => ScmTold(p)
  BY DEF ServiceInv, ScmToldTheTruth
<1>2. \A q \in Procs : q # p => Same(q)
  BY <1>1 DEF Resolve, Goes, TypeOK, Same, procVars
<1>3. TypeOK'
  <2>1. CASE tier' = tier
    BY <1>1, <2>1 DEF Resolve, Goes, TypeOK, Alive, Starting
  <2>2. CASE UNCHANGED pc /\ tier' = [tier EXCEPT ![p] = @ + 1] /\ tier[p] # Len(Ladder)
    <3>1. tier' \in [Procs -> 1 .. Len(Ladder)]
      BY <1>1, <2>2, LadderLen DEF TypeOK
    <3>2. QED BY <1>1, <2>2, <3>1 DEF Resolve, TypeOK
  <2>3. QED BY <2>1, <2>2 DEF Resolve
<1>4. PhaseInv(p)'
  BY <1>1 DEF Resolve, Goes, TypeOK, PhaseInv, Starting, Stopping, Alive, procVars
<1>5. OwnSockets(p)
  BY <1>1, NamesAssumption
     DEF Resolve, Goes, TypeOK, PhaseInv, OwnSockets, SocketsAccounted, Holds, Sockets, Others,
         Starting, Stopping, Alive, procVars
<1>6. OwnRecord(p)
  BY <1>1 DEF Resolve, Goes, TypeOK, PhaseInv, OwnRecord, RecordAccounted, RecordRight, NoRecord, procVars
<1>7. p \in Scm => ScmTold(p)'
  BY <1>1 DEF Resolve, Goes, TypeOK, PhaseInv, ScmTold, Starting, Stopping, Alive, procVars
<1>8. QED BY <1>2, <1>3, <1>4, <1>5, <1>6, <1>7, OneProcess

\* BindUdp: the socket is taken, or the bring-up goes on without DNS.
LEMMA BindUdpInv ==
  ASSUME ServiceInv, NEW p \in Procs, BindUdp(p)
  PROVE  ServiceInv'
<1>1. /\ TypeOK /\ PhaseInv(p) /\ SocketsAccounted /\ RecordAccounted
      /\ p \in Scm => ScmTold(p)
  BY DEF ServiceInv, ScmToldTheTruth
<1>2. \A q \in Procs : q # p => Same(q)
  BY <1>1 DEF BindUdp, Goes, CanBind, TypeOK, Same, procVars
<1>3. TypeOK'
  <2>1. CASE CanBind(p, "udp")
    <3>1. /\ sock' = [sock EXCEPT !["udp"] = p]
          /\ dns' = [dns EXCEPT ![p] = "udp"]
          /\ pc' = [pc EXCEPT ![p] = "tcp"]
      BY <2>1 DEF BindUdp, Goes
    <3>2. pc' \in [Procs -> Alive \cup {"off", "exited"}]
      BY <1>1, <3>1 DEF TypeOK, Alive, Starting, Sockets, Others
    <3>3. dns' \in [Procs -> {"none", "udp", "both", "closed"}]
      BY <1>1, <3>1 DEF TypeOK, Alive, Starting, Sockets, Others
    <3>4. sock' \in [Sockets -> Procs \cup Others]
      BY <1>1, <3>1 DEF TypeOK, Alive, Starting, Sockets, Others
    <3>5. QED BY <1>1, <3>1, <3>2, <3>3, <3>4 DEF BindUdp, Goes, TypeOK
  <2>2. CASE ~CanBind(p, "udp")
    <3>1. /\ pc' = [pc EXCEPT ![p] = "record"]
          /\ UNCHANGED <<sock, dns>>
      BY <2>2 DEF BindUdp, Goes
    <3>2. pc' \in [Procs -> Alive \cup {"off", "exited"}]
      BY <1>1, <3>1 DEF TypeOK, Alive, Starting, Sockets, Others
    <3>3. QED BY <1>1, <3>1, <3>2 DEF BindUdp, Goes, TypeOK
  <2>3. QED BY <2>1, <2>2 DEF BindUdp
<1>4. PhaseInv(p)'
  BY <1>1 DEF BindUdp, Goes, CanBind, TypeOK, PhaseInv, Starting, Stopping, Alive, procVars
<1>5. OwnSockets(p)
  <2>1. ASSUME NEW s \in Sockets \ {"udp"}
        PROVE  sock'[s] = sock[s] /\ (Holds(p, s)' <=> Holds(p, s))
    BY <1>1, <2>1 DEF BindUdp, Goes, CanBind, TypeOK, PhaseInv, Holds, Sockets, Starting, Stopping, Alive, procVars
  <2>2. ASSUME NEW s \in {"udp"}
        PROVE  /\ sock'[s] # sock[s] => {sock[s], sock'[s]} \subseteq Others \cup {p}
               /\ sock'[s] = p <=> Holds(p, s)'
    BY <1>1, <2>2, NamesAssumption
       DEF BindUdp, Goes, CanBind, TypeOK, PhaseInv, SocketsAccounted, Holds, Sockets, Others, Starting, Stopping, Alive
  <2>3. QED BY <1>1, <2>1, <2>2 DEF OwnSockets, SocketsAccounted
<1>6. OwnRecord(p)
  BY <1>1 DEF BindUdp, Goes, CanBind, TypeOK, PhaseInv, OwnRecord, RecordAccounted, RecordRight, NoRecord, procVars
<1>7. p \in Scm => ScmTold(p)'
  BY <1>1 DEF BindUdp, Goes, CanBind, TypeOK, PhaseInv, ScmTold, Starting, Stopping, Alive, procVars
<1>8. QED BY <1>2, <1>3, <1>4, <1>5, <1>6, <1>7, OneProcess

\* BindTcp: both sockets are held afterwards, or neither.
LEMMA BindTcpInv ==
  ASSUME ServiceInv, NEW p \in Procs, BindTcp(p)
  PROVE  ServiceInv'
<1>1. /\ TypeOK /\ PhaseInv(p) /\ SocketsAccounted /\ RecordAccounted
      /\ p \in Scm => ScmTold(p)
  BY DEF ServiceInv, ScmToldTheTruth
<1>2. \A q \in Procs : q # p => Same(q)
  BY <1>1 DEF BindTcp, Goes, CanBind, TypeOK, Same, procVars
<1>3. TypeOK'
  <2>1. CASE CanBind(p, "tcp")
    <3>1. /\ sock' = [sock EXCEPT !["tcp"] = p]
          /\ dns' = [dns EXCEPT ![p] = "both"]
          /\ pc' = [pc EXCEPT ![p] = "record"]
      BY <2>1 DEF BindTcp, Goes
    <3>2. pc' \in [Procs -> Alive \cup {"off", "exited"}]
      BY <1>1, <3>1 DEF TypeOK, Alive, Starting, Sockets, Others
    <3>3. dns' \in [Procs -> {"none", "udp", "both", "closed"}]
      BY <1>1, <3>1 DEF TypeOK, Alive, Starting, Sockets, Others
    <3>4. sock' \in [Sockets -> Procs \cup Others]
      BY <1>1, <3>1 DEF TypeOK, Alive, Starting, Sockets, Others
    <3>5. QED BY <1>1, <3>1, <3>2, <3>3, <3>4 DEF BindTcp, Goes, TypeOK
  <2>2. CASE ~CanBind(p, "tcp")
    <3>1. /\ sock' = [sock EXCEPT !["udp"] = "free"]
          /\ dns' = [dns EXCEPT ![p] = "none"]
          /\ pc' = [pc EXCEPT ![p] = "record"]
      BY <2>2 DEF BindTcp, Goes
    <3>2. pc' \in [Procs -> Alive \cup {"off", "exited"}]
      BY <1>1, <3>1 DEF TypeOK, Alive, Starting, Sockets, Others
    <3>3. dns' \in [Procs -> {"none", "udp", "both", "closed"}]
      BY <1>1, <3>1 DEF TypeOK, Alive, Starting, Sockets, Others
    <3>4. sock' \in [Sockets -> Procs \cup Others]
      BY <1>1, <3>1 DEF TypeOK, Alive, Starting, Sockets, Others
    <3>5. QED BY <1>1, <3>1, <3>2, <3>3, <3>4 DEF BindTcp, Goes, TypeOK
  <2>3. QED BY <2>1, <2>2 DEF BindTcp
<1>4. PhaseInv(p)'
  BY <1>1 DEF BindTcp, Goes, CanBind, TypeOK, PhaseInv, Starting, Stopping, Alive, procVars
<1>5. OwnSockets(p)
  BY <1>1, NamesAssumption
     DEF BindTcp, Goes, CanBind, TypeOK, PhaseInv, OwnSockets, SocketsAccounted, Holds, Sockets, Others,
         Starting, Stopping, Alive, procVars
<1>6. OwnRecord(p)
  <2>1. runtime.pid # p \/ runtime = NoRecord
    BY <1>1 DEF BindTcp, PhaseInv, RecordAccounted, RecordRight, Killed
  <2>2. QED BY <2>1 DEF BindTcp, OwnRecord
<1>7. p \in Scm => ScmTold(p)'
  BY <1>1 DEF BindTcp, Goes, CanBind, TypeOK, PhaseInv, ScmTold, Starting, Stopping, Alive, procVars
<1>8. QED BY <1>2, <1>3, <1>4, <1>5, <1>6, <1>7, OneProcess

\* Record: the record, if it is written, is true of the process.
LEMMA RecordInv ==
  ASSUME ServiceInv, NEW p \in Procs, Record(p)
  PROVE  ServiceInv'
<1>1. /\ TypeOK /\ PhaseInv(p) /\ SocketsAccounted /\ RecordAccounted
      /\ p \in Scm => ScmTold(p)
  BY DEF ServiceInv, ScmToldTheTruth
<1>2. \A q \in Procs : q # p => Same(q)
  BY <1>1 DEF Record, Goes, TypeOK, Same, procVars
<1>3. TypeOK'
  BY <1>1, ServiceBounds, LadderLen DEF Record, Goes, TypeOK, Alive, Starting, Stopping, procVars
<1>4. PhaseInv(p)'
  BY <1>1 DEF Record, Goes, TypeOK, PhaseInv, Starting, Stopping, Alive, procVars
<1>5. OwnSockets(p)
  <2>1. \A s \in Sockets : Holds(p, s)' <=> Holds(p, s)
    BY <1>1 DEF Record, Goes, TypeOK, PhaseInv, Holds, Starting, Stopping, Alive, procVars
  <2>2. UNCHANGED sock
    BY DEF Record, Goes
  <2>3. QED BY <1>1, <2>1, <2>2 DEF OwnSockets, SocketsAccounted
<1>6. OwnRecord(p)
  <2>1. CASE p \in Privileged
    <3>1. runtime' = [pid |-> p, port |-> bound[p], dns |-> dns[p] = "both"]
      BY <2>1 DEF Record
    <3>2. pc'[p] = "spawn" /\ bound'[p] = bound[p] /\ dns'[p] = dns[p]
      BY <1>1 DEF Record, Goes, TypeOK, procVars
    <3>3. bound[p] # "none" /\ dns[p] # "closed"
      BY <1>1 DEF Record, PhaseInv
    <3>4. RecordRight(p)'
      BY <2>1, <3>1, <3>2, <3>3 DEF RecordRight
    <3>5. QED BY <3>1, <3>4 DEF OwnRecord
  <2>2. CASE p \notin Privileged
    BY <1>1, <2>2 DEF Record, OwnRecord, RecordAccounted, RecordRight
  <2>3. QED BY <2>1, <2>2
<1>7. p \in Scm => ScmTold(p)'
  BY <1>1 DEF Record, Goes, TypeOK, PhaseInv, ScmTold, Starting, Stopping, Alive, procVars
<1>8. QED BY <1>2, <1>3, <1>4, <1>5, <1>6, <1>7, OneProcess

\* Spawn: the tasks start with nothing of their own.
LEMMA SpawnInv ==
  ASSUME ServiceInv, NEW p \in Procs, Spawn(p)
  PROVE  ServiceInv'
<1>1. /\ TypeOK /\ PhaseInv(p) /\ SocketsAccounted /\ RecordAccounted
      /\ p \in Scm => ScmTold(p)
  BY DEF ServiceInv, ScmToldTheTruth
<1>2. \A q \in Procs : q # p => Same(q)
  BY <1>1 DEF Spawn, Goes, TypeOK, Same, procVars
<1>3. TypeOK'
  BY <1>1, ServiceBounds, LadderLen DEF Spawn, Goes, TypeOK, Alive, Starting, Stopping, procVars
<1>4. PhaseInv(p)'
  BY <1>1 DEF Spawn, Goes, TypeOK, PhaseInv, Starting, Stopping, Alive, procVars
<1>5. OwnSockets(p)
  <2>1. \A s \in Sockets : Holds(p, s)' <=> Holds(p, s)
    BY <1>1 DEF Spawn, Goes, TypeOK, PhaseInv, Holds, Starting, Stopping, Alive, procVars
  <2>2. UNCHANGED sock
    BY DEF Spawn, Goes
  <2>3. QED BY <1>1, <2>1, <2>2 DEF OwnSockets, SocketsAccounted
<1>6. OwnRecord(p)
  BY <1>1 DEF Spawn, Goes, TypeOK, PhaseInv, OwnRecord, RecordAccounted, RecordRight, NoRecord, procVars
<1>7. p \in Scm => ScmTold(p)'
  BY <1>1 DEF Spawn, Goes, TypeOK, PhaseInv, ScmTold, Starting, Stopping, Alive, procVars
<1>8. QED BY <1>2, <1>3, <1>4, <1>5, <1>6, <1>7, OneProcess

\* EnsureProbe: no socket changes hands.
LEMMA EnsureProbeInv ==
  ASSUME ServiceInv, NEW p \in Procs, EnsureProbe(p)
  PROVE  ServiceInv'
<1>1. /\ TypeOK /\ PhaseInv(p) /\ SocketsAccounted /\ RecordAccounted
      /\ p \in Scm => ScmTold(p)
  BY DEF ServiceInv, ScmToldTheTruth
<1>2. \A q \in Procs : q # p => Same(q)
  BY <1>1 DEF EnsureProbe, EnsureTo, TasksLive, TypeOK, Same, procVars
<1>3. TypeOK'
  BY <1>1, ServiceBounds, LadderLen DEF EnsureProbe, EnsureTo, TasksLive, TypeOK, Alive, Starting, Stopping, procVars
<1>4. PhaseInv(p)'
  BY <1>1 DEF EnsureProbe, EnsureTo, TasksLive, TypeOK, PhaseInv, Starting, Stopping, Alive, procVars
<1>5. OwnSockets(p)
  BY <1>1, NamesAssumption
     DEF EnsureProbe, EnsureTo, TasksLive, TypeOK, PhaseInv, OwnSockets, SocketsAccounted, Holds, Sockets, Others,
         Starting, Stopping, Alive, procVars
<1>6. OwnRecord(p)
  BY <1>1 DEF EnsureProbe, EnsureTo, TasksLive, TypeOK, PhaseInv, OwnRecord, RecordAccounted, RecordRight, NoRecord, procVars
<1>7. p \in Scm => ScmTold(p)'
  BY <1>1 DEF EnsureProbe, EnsureTo, TasksLive, TypeOK, PhaseInv, ScmTold, Starting, Stopping, Alive, procVars
<1>8. QED BY <1>2, <1>3, <1>4, <1>5, <1>6, <1>7, OneProcess

\* EnsureBind: dig.local is taken from the free, or not at all.
LEMMA EnsureBindInv ==
  ASSUME ServiceInv, NEW p \in Procs, EnsureBind(p)
  PROVE  ServiceInv'
<1>1. /\ TypeOK /\ PhaseInv(p) /\ SocketsAccounted /\ RecordAccounted
      /\ p \in Scm => ScmTold(p)
  BY DEF ServiceInv, ScmToldTheTruth
<1>2. \A q \in Procs : q # p => Same(q)
  BY <1>1 DEF EnsureBind, EnsureTo, TasksLive, CanBind, TypeOK, Same, procVars
<1>3. TypeOK'
  <2>1. CASE CanBind(p, "digLocal")
    <3>1. /\ sock' = [sock EXCEPT !["digLocal"] = p]
          /\ ens' = [ens EXCEPT ![p] = "proxy"]
      BY <2>1 DEF EnsureBind, EnsureTo
    <3>2. ens' \in [Procs -> {"none", "probe", "bind", "proxy", "wait", "done"}]
      BY <1>1, <3>1 DEF TypeOK, Alive, Starting, Sockets, Others
    <3>3. sock' \in [Sockets -> Procs \cup Others]
      BY <1>1, <3>1 DEF TypeOK, Alive, Starting, Sockets, Others
    <3>4. QED BY <1>1, <3>1, <3>2, <3>3 DEF EnsureBind, EnsureTo, TypeOK
  <2>2. CASE ~CanBind(p, "digLocal")
    <3>1. /\ UNCHANGED sock
          /\ ens' = [ens EXCEPT ![p] = "wait"]
      BY <2>2 DEF EnsureBind, EnsureTo
    <3>2. ens' \in [Procs -> {"none", "probe", "bind", "proxy", "wait", "done"}]
      BY <1>1, <3>1 DEF TypeOK, Alive, Starting, Sockets, Others
    <3>3. QED BY <1>1, <3>1, <3>2 DEF EnsureBind, EnsureTo, TypeOK
  <2>3. QED BY <2>1, <2>2 DEF EnsureBind
<1>4. PhaseInv(p)'
  BY <1>1 DEF EnsureBind, EnsureTo, TasksLive, CanBind, TypeOK, PhaseInv, Starting, Stopping, Alive, procVars
<1>5. OwnSockets(p)
  BY <1>1, NamesAssumption
     DEF EnsureBind, EnsureTo, TasksLive, CanBind, TypeOK, PhaseInv, OwnSockets, SocketsAccounted, Holds, Sockets, Others,
         Starting, Stopping, Alive, procVars
<1>6. OwnRecord(p)
  BY <1>1 DEF EnsureBind, EnsureTo, TasksLive, CanBind, TypeOK, PhaseInv, OwnRecord, RecordAccounted, RecordRight, NoRecord, procVars
<1>7. p \in Scm => ScmTold(p)'
  BY <1>1 DEF EnsureBind, EnsureTo, TasksLive, CanBind, TypeOK, PhaseInv, ScmTold, Starting, Stopping, Alive, procVars
<1>8. QED BY <1>2, <1>3, <1>4, <1>5, <1>6, <1>7, OneProcess

\* EnsureRetry: no socket changes hands.
LEMMA EnsureRetryInv ==
  ASSUME ServiceInv, NEW p \in Procs, EnsureRetry(p)
  PROVE  ServiceInv'
<1>1. /\ TypeOK /\ PhaseInv(p) /\ SocketsAccounted /\ RecordAccounted
      /\ p \in Scm => ScmTold(p)
  BY DEF ServiceInv, ScmToldTheTruth
<1>2. \A q \in Procs : q # p => Same(q)
  BY <1>1 DEF EnsureRetry, EnsureTo, TasksLive, TypeOK, Same, procVars
<1>3. TypeOK'
  BY <1>1, ServiceBounds, LadderLen DEF EnsureRetry, EnsureTo, TasksLive, TypeOK, Alive, Starting, Stopping, procVars
<1>4. PhaseInv(p)'
  BY <1>1 DEF EnsureRetry, EnsureTo, TasksLive, TypeOK, PhaseInv, Starting, Stopping, Alive, procVars
<1>5. OwnSockets(p)
  BY <1>1, NamesAssumption
     DEF EnsureRetry, EnsureTo, TasksLive, TypeOK, PhaseInv, OwnSockets, SocketsAccounted, Holds, Sockets, Others,
         Starting, Stopping, Alive, procVars
<1>6. OwnRecord(p)
  BY <1>1 DEF EnsureRetry, EnsureTo, TasksLive, TypeOK, PhaseInv, OwnRecord, RecordAccounted, RecordRight, NoRecord, procVars
<1>7. p \in Scm => ScmTold(p)'
  BY <1>1 DEF EnsureRetry, EnsureTo, TasksLive, TypeOK, PhaseInv, ScmTold, Starting, Stopping, Alive, procVars
<1>8. QED BY <1>2, <1>3, <1>4, <1>5, <1>6, <1>7, OneProcess

\* EnsureClientFails: no socket changes hands.
LEMMA EnsureClientFailsInv ==
  ASSUME ServiceInv, NEW p \in Procs, EnsureClientFails(p)
  PROVE  ServiceInv'
<1>1. /\ TypeOK /\ PhaseInv(p) /\ SocketsAccounted /\ RecordAccounted
      /\ p \in Scm => ScmTold(p)
  BY DEF ServiceInv, ScmToldTheTruth
<1>2. \A q \in Procs : q # p => Same(q)
  BY <1>1 DEF EnsureClientFails, EnsureTo, TasksLive, TypeOK, Same, procVars
<1>3. TypeOK'
  BY <1>1, ServiceBounds, LadderLen DEF EnsureClientFails, EnsureTo, TasksLive, TypeOK, Alive, Starting, Stopping, procVars
<1>4. PhaseInv(p)'
  BY <1>1 DEF EnsureClientFails, EnsureTo, TasksLive, TypeOK, PhaseInv, Starting, Stopping, Alive, procVars
<1>5. OwnSockets(p)
  BY <1>1, NamesAssumption
     DEF EnsureClientFails, EnsureTo, TasksLive, TypeOK, PhaseInv, OwnSockets, SocketsAccounted, Holds, Sockets, Others,
         Starting, Stopping, Alive, procVars
<1>6. OwnRecord(p)
  BY <1>1 DEF EnsureClientFails, EnsureTo, TasksLive, TypeOK, PhaseInv, OwnRecord, RecordAccounted, RecordRight, NoRecord, procVars
<1>7. p \in Scm => ScmTold(p)'
  BY <1>1 DEF EnsureClientFails, EnsureTo, TasksLive, TypeOK, PhaseInv, ScmTold, Starting, Stopping, Alive, procVars
<1>8. QED BY <1>2, <1>3, <1>4, <1>5, <1>6, <1>7, OneProcess

\* EnsureStops: a proxy gives dig.local back.
LEMMA EnsureStopsInv ==
  ASSUME ServiceInv, NEW p \in Procs, EnsureStops(p)
  PROVE  ServiceInv'
<1>1. /\ TypeOK /\ PhaseInv(p) /\ SocketsAccounted /\ RecordAccounted
      /\ p \in Scm => ScmTold(p)
  BY DEF ServiceInv, ScmToldTheTruth
<1>2. \A q \in Procs : q # p => Same(q)
  BY <1>1 DEF EnsureStops, EnsureTo, TasksLive, TypeOK, Same, procVars
<1>3. TypeOK'
  <2>1. CASE UNCHANGED sock
    <3>1. /\ UNCHANGED sock
          /\ ens' = [ens EXCEPT ![p] = "done"]
      BY <2>1 DEF EnsureStops, EnsureTo
    <3>2. ens' \in [Procs -> {"none", "probe", "bind", "proxy", "wait", "done"}]
      BY <1>1, <3>1 DEF TypeOK, Alive, Starting, Sockets, Others
    <3>3. QED BY <1>1, <3>1, <3>2 DEF EnsureStops, EnsureTo, TypeOK
  <2>2. CASE sock' = [sock EXCEPT !["digLocal"] = "free"]
    <3>1. /\ sock' = [sock EXCEPT !["digLocal"] = "free"]
          /\ ens' = [ens EXCEPT ![p] = "done"]
      BY <2>2 DEF EnsureStops, EnsureTo
    <3>2. ens' \in [Procs -> {"none", "probe", "bind", "proxy", "wait", "done"}]
      BY <1>1, <3>1 DEF TypeOK, Alive, Starting, Sockets, Others
    <3>3. sock' \in [Sockets -> Procs \cup Others]
      BY <1>1, <3>1 DEF TypeOK, Alive, Starting, Sockets, Others
    <3>4. QED BY <1>1, <3>1, <3>2, <3>3 DEF EnsureStops, EnsureTo, TypeOK
  <2>3. QED BY <2>1, <2>2 DEF EnsureStops
<1>4. PhaseInv(p)'
  BY <1>1 DEF EnsureStops, EnsureTo, TasksLive, TypeOK, PhaseInv, Starting, Stopping, Alive, procVars
<1>5. OwnSockets(p)
  BY <1>1, NamesAssumption
     DEF EnsureStops, EnsureTo, TasksLive, TypeOK, PhaseInv, OwnSockets, SocketsAccounted, Holds, Sockets, Others,
         Starting, Stopping, Alive, procVars
<1>6. OwnRecord(p)
  BY <1>1 DEF EnsureStops, EnsureTo, TasksLive, TypeOK, PhaseInv, OwnRecord, RecordAccounted, RecordRight, NoRecord, procVars
<1>7. p \in Scm => ScmTold(p)'
  BY <1>1 DEF EnsureStops, EnsureTo, TasksLive, TypeOK, PhaseInv, ScmTold, Starting, Stopping, Alive, procVars
<1>8. QED BY <1>2, <1>3, <1>4, <1>5, <1>6, <1>7, OneProcess

\* Arm: only the handler changes.
LEMMA ArmInv ==
  ASSUME ServiceInv, NEW p \in Procs, Arm(p)
  PROVE  ServiceInv'
<1>1. /\ TypeOK /\ PhaseInv(p) /\ SocketsAccounted /\ RecordAccounted
      /\ p \in Scm => ScmTold(p)
  BY DEF ServiceInv, ScmToldTheTruth
<1>2. \A q \in Procs : q # p => Same(q)
  BY <1>1 DEF Arm, TasksLive, TypeOK, Same, procVars
<1>3. TypeOK'
  BY <1>1, ServiceBounds, LadderLen DEF Arm, TasksLive, TypeOK, Alive, Starting, Stopping, procVars
<1>4. PhaseInv(p)'
  BY <1>1 DEF Arm, TasksLive, TypeOK, PhaseInv, Starting, Stopping, Alive, procVars
<1>5. OwnSockets(p)
  BY <1>1, NamesAssumption
     DEF Arm, TasksLive, TypeOK, PhaseInv, OwnSockets, SocketsAccounted, Holds, Sockets, Others,
         Starting, Stopping, Alive, procVars
<1>6. OwnRecord(p)
  BY <1>1 DEF Arm, TasksLive, TypeOK, PhaseInv, OwnRecord, RecordAccounted, RecordRight, NoRecord, procVars
<1>7. p \in Scm => ScmTold(p)'
  BY <1>1 DEF Arm, TasksLive, TypeOK, PhaseInv, ScmTold, Starting, Stopping, Alive, procVars
<1>8. QED BY <1>2, <1>3, <1>4, <1>5, <1>6, <1>7, OneProcess

\* Flag: a pending stop becomes visible to every task.
LEMMA FlagInv ==
  ASSUME ServiceInv, NEW p \in Procs, Flag(p)
  PROVE  ServiceInv'
<1>1. /\ TypeOK /\ PhaseInv(p) /\ SocketsAccounted /\ RecordAccounted
      /\ p \in Scm => ScmTold(p)
  BY DEF ServiceInv, ScmToldTheTruth
<1>2. \A q \in Procs : q # p => Same(q)
  BY <1>1 DEF Flag, TypeOK, Same, procVars
<1>3. TypeOK'
  BY <1>1, ServiceBounds, LadderLen DEF Flag, TypeOK, Alive, Starting, Stopping, procVars
<1>4. PhaseInv(p)'
  BY <1>1 DEF Flag, TypeOK, PhaseInv, Starting, Stopping, Alive, procVars
<1>5. OwnSockets(p)
  <2>1. \A s \in Sockets : Holds(p, s)' <=> Holds(p, s)
    BY <1>1 DEF Flag, TypeOK, PhaseInv, Holds, Starting, Stopping, Alive, procVars
  <2>2. UNCHANGED sock
    BY DEF Flag
  <2>3. QED BY <1>1, <2>1, <2>2 DEF OwnSockets, SocketsAccounted
<1>6. OwnRecord(p)
  BY <1>1 DEF Flag, TypeOK, PhaseInv, OwnRecord, RecordAccounted, RecordRight, NoRecord, procVars
<1>7. p \in Scm => ScmTold(p)'
  BY <1>1 DEF Flag, TypeOK, PhaseInv, ScmTold, Starting, Stopping, Alive, procVars
<1>8. QED BY <1>2, <1>3, <1>4, <1>5, <1>6, <1>7, OneProcess

\* DnsStops: both DNS sockets are given back.
LEMMA DnsStopsInv ==
  ASSUME ServiceInv, NEW p \in Procs, DnsStops(p)
  PROVE  ServiceInv'
<1>1. /\ TypeOK /\ PhaseInv(p) /\ SocketsAccounted /\ RecordAccounted
      /\ p \in Scm => ScmTold(p)
  BY DEF ServiceInv, ScmToldTheTruth
<1>2. \A q \in Procs : q # p => Same(q)
  BY <1>1 DEF DnsStops, TasksLive, TypeOK, Same, procVars
<1>3. TypeOK'
  <2>1. dns' \in [Procs -> {"none", "udp", "both", "closed"}]
    BY <1>1 DEF DnsStops, TasksLive, TypeOK, Alive, Starting, Stopping, Sockets, Others
  <2>2. sock' \in [Sockets -> Procs \cup Others]
    BY <1>1 DEF DnsStops, TasksLive, TypeOK, Alive, Starting, Stopping, Sockets, Others
  <2>3. QED BY <1>1, <2>1, <2>2 DEF DnsStops, TasksLive, TypeOK, procVars
<1>4. PhaseInv(p)'
  BY <1>1 DEF DnsStops, TasksLive, TypeOK, PhaseInv, Starting, Stopping, Alive, procVars
<1>5. OwnSockets(p)
  <2>1. ASSUME NEW s \in Sockets \ {"udp", "tcp"}
        PROVE  sock'[s] = sock[s] /\ (Holds(p, s)' <=> Holds(p, s))
    BY <1>1, <2>1 DEF DnsStops, TasksLive, TypeOK, PhaseInv, Holds, Sockets, Starting, Stopping, Alive, procVars
  <2>2. ASSUME NEW s \in {"udp", "tcp"}
        PROVE  /\ sock'[s] # sock[s] => {sock[s], sock'[s]} \subseteq Others \cup {p}
               /\ sock'[s] = p <=> Holds(p, s)'
    BY <1>1, <2>2, NamesAssumption
       DEF DnsStops, TasksLive, TypeOK, PhaseInv, SocketsAccounted, Holds, Sockets, Others, Starting, Stopping, Alive
  <2>3. QED BY <1>1, <2>1, <2>2 DEF OwnSockets, SocketsAccounted
<1>6. OwnRecord(p)
  BY <1>1 DEF DnsStops, TasksLive, TypeOK, PhaseInv, OwnRecord, RecordAccounted, RecordRight, NoRecord, procVars
<1>7. p \in Scm => ScmTold(p)'
  BY <1>1 DEF DnsStops, TasksLive, TypeOK, PhaseInv, ScmTold, Starting, Stopping, Alive, procVars
<1>8. QED BY <1>2, <1>3, <1>4, <1>5, <1>6, <1>7, OneProcess

\* AcceptStops: the gateway's listener is given back, before the record goes.
LEMMA AcceptStopsInv ==
  ASSUME ServiceInv, NEW p \in Procs, AcceptStops(p)
  PROVE  ServiceInv'
<1>1. /\ TypeOK /\ PhaseInv(p) /\ SocketsAccounted /\ RecordAccounted
      /\ p \in Scm => ScmTold(p)
  BY DEF ServiceInv, ScmToldTheTruth
<1>2. \A q \in Procs : q # p => Same(q)
  BY <1>1 DEF AcceptStops, Goes, TypeOK, Same, procVars
<1>3. TypeOK'
  <2>1. pc' \in [Procs -> Alive \cup {"off", "exited"}]
    BY <1>1 DEF AcceptStops, Goes, TypeOK, Alive, Starting, Stopping, Sockets, Others
  <2>2. sock' \in [Sockets -> Procs \cup Others]
    BY <1>1 DEF AcceptStops, Goes, TypeOK, Alive, Starting, Stopping, Sockets, Others
  <2>3. QED BY <1>1, <2>1, <2>2 DEF AcceptStops, Goes, TypeOK, procVars
<1>4. PhaseInv(p)'
  BY <1>1 DEF AcceptStops, Goes, TypeOK, PhaseInv, Starting, Stopping, Alive, procVars
<1>5. OwnSockets(p)
  <2>1. bound[p] \in {"http", "fallback"} /\ pc[p] = "serving" /\ pc'[p] = "closing"
    BY <1>1 DEF AcceptStops, Goes, TypeOK, PhaseInv
  <2>2. sock[bound[p]] = p
    <3>1. Holds(p, bound[p])
      BY <2>1 DEF Holds, Alive, Stopping
    <3>2. bound[p] \in Sockets
      BY <2>1 DEF Sockets
    <3>3. QED BY <1>1, <3>1, <3>2 DEF SocketsAccounted
  <2>3. sock'[bound[p]] = "free"
    <3>1. bound[p] \in Sockets
      BY <2>1 DEF Sockets
    <3>2. QED BY <1>1, <3>1 DEF AcceptStops, TypeOK
  <2>4. ~Holds(p, bound[p])'
    <3>1. pc'[p] \in Stopping /\ bound'[p] = bound[p]
      BY <2>1 DEF AcceptStops, Stopping, procVars
    <3>2. QED BY <2>1, <3>1 DEF Holds
  <2>5. ASSUME NEW s \in Sockets, s # bound[p]
        PROVE  sock'[s] = sock[s] /\ (Holds(p, s)' <=> Holds(p, s))
    BY <1>1, <2>1, <2>5
       DEF AcceptStops, TypeOK, Holds, Sockets, Starting, Stopping, Alive, procVars
  <2>6. p # "free" /\ "free" \in Others
    BY NamesAssumption DEF Others
  <2>7. ASSUME NEW s \in Sockets
        PROVE  /\ sock'[s] # sock[s] => {sock[s], sock'[s]} \subseteq Others \cup {p}
               /\ sock'[s] = p <=> Holds(p, s)'
    <3>1. CASE s = bound[p]
      <4>1. bound'[p] = bound[p]
        BY DEF AcceptStops, procVars
      <4>2. ~Holds(p, s)'
        BY <2>4, <3>1, <4>1 DEF Holds
      <4>3. QED BY <2>2, <2>3, <2>6, <3>1, <4>2
    <3>2. CASE s # bound[p]
      BY <1>1, <2>5, <3>2 DEF SocketsAccounted
    <3>3. QED BY <3>1, <3>2
  <2>8. QED BY <2>7 DEF OwnSockets
<1>6. OwnRecord(p)
  BY <1>1 DEF AcceptStops, Goes, TypeOK, PhaseInv, OwnRecord, RecordAccounted, RecordRight, NoRecord, procVars
<1>7. p \in Scm => ScmTold(p)'
  BY <1>1 DEF AcceptStops, Goes, TypeOK, PhaseInv, ScmTold, Starting, Stopping, Alive, procVars
<1>8. QED BY <1>2, <1>3, <1>4, <1>5, <1>6, <1>7, OneProcess

\* DropGuard: no record is left, its own or another's.
LEMMA DropGuardInv ==
  ASSUME ServiceInv, NEW p \in Procs, DropGuard(p)
  PROVE  ServiceInv'
<1>1. /\ TypeOK /\ PhaseInv(p) /\ SocketsAccounted /\ RecordAccounted
      /\ p \in Scm => ScmTold(p)
  BY DEF ServiceInv, ScmToldTheTruth
<1>2. \A q \in Procs : q # p => Same(q)
  BY <1>1 DEF DropGuard, Goes, TypeOK, Same, procVars
<1>3. TypeOK'
  <2>1. pc' \in [Procs -> Alive \cup {"off", "exited"}]
    BY <1>1 DEF DropGuard, Goes, NoRecord, TypeOK, Alive, Starting, Stopping, Sockets, Others
  <2>2. runtime' \in [pid : Procs \cup {"none"}, port : {"none", "http", "fallback"}, dns : BOOLEAN]
    BY <1>1 DEF DropGuard, Goes, NoRecord, TypeOK, Alive, Starting, Stopping, Sockets, Others
  <2>3. QED BY <1>1, <2>1, <2>2 DEF DropGuard, Goes, NoRecord, TypeOK, procVars
<1>4. PhaseInv(p)'
  BY <1>1 DEF DropGuard, Goes, TypeOK, PhaseInv, Starting, Stopping, Alive, procVars
<1>5. OwnSockets(p)
  BY <1>1, NamesAssumption
     DEF DropGuard, Goes, TypeOK, PhaseInv, OwnSockets, SocketsAccounted, Holds, Sockets, Others,
         Starting, Stopping, Alive, procVars
<1>6. OwnRecord(p)
  <2>1. CASE p \in Privileged
    BY <1>1, <2>1 DEF DropGuard, OwnRecord
  <2>2. CASE p \notin Privileged
    BY <1>1, <2>2 DEF DropGuard, OwnRecord, RecordAccounted, RecordRight
  <2>3. QED BY <2>1, <2>2
<1>7. p \in Scm => ScmTold(p)'
  BY <1>1 DEF DropGuard, Goes, TypeOK, PhaseInv, ScmTold, Starting, Stopping, Alive, procVars
<1>8. QED BY <1>2, <1>3, <1>4, <1>5, <1>6, <1>7, OneProcess

(***************************************************************************)
(* The end of a process, however it comes.                                 *)
(***************************************************************************)
\* A process that is no more holds nothing, and took nothing from another.
LEMMA WithoutOwn ==
  ASSUME TypeOK, NEW p \in Procs, sock' = Without(p), pc'[p] = "exited"
  PROVE  OwnSockets(p) /\ sock' \in [Sockets -> Procs \cup Others]
<1>1. p # "free" /\ "free" \in Others
  BY NamesAssumption DEF Others
<1>2. \A s \in Sockets : sock'[s] = IF sock[s] = p THEN "free" ELSE sock[s]
  BY DEF Without
<1>3. sock' \in [Sockets -> Procs \cup Others]
  BY <1>1 DEF TypeOK, Without
<1>4. \A s \in Sockets : ~Holds(p, s)'
  BY DEF Holds, Alive, Starting, Stopping
<1>5. \A s \in Sockets : sock'[s] # p
  BY <1>1, <1>2
<1>6. \A s \in Sockets : sock'[s] # sock[s] => sock[s] = p /\ sock'[s] = "free"
  BY <1>2
<1>7. QED BY <1>1, <1>3, <1>4, <1>5, <1>6 DEF OwnSockets

\* Whatever ends a process: its sockets are free, and its record is gone unless it was
\* killed.
LEMMA ExitInv ==
  ASSUME ServiceInv, NEW p \in Procs, NEW why \in Killed \cup {"graceful", "failed"},
         pc[p] \in Alive,
         pc' = [pc EXCEPT ![p] = "exited"], how' = [how EXCEPT ![p] = why],
         sock' = Without(p), faults' \in 0 .. MaxFaults,
         UNCHANGED <<tier, bound, dns, ens, sig, shut, runtime, nodeUp>>,
         status' \in [Procs -> {"pending", "running", "stopped0", "stopped1"}],
         \A q \in Procs : q # p => status'[q] = status[q],
         why \in Killed \/ runtime = NoRecord \/ runtime.pid # p,
         p \in Scm => /\ status'[p] = "stopped0" <=> why = "graceful"
                      /\ status'[p] = "stopped1" <=> why = "failed"
                      /\ why = "graceful" => /\ sig[p] = "pending" /\ bound[p] # "none"
                                             /\ runtime.pid # p
  PROVE  ServiceInv'
<1>1. TypeOK /\ PhaseInv(p) /\ RecordAccounted
  BY DEF ServiceInv
<1>2. pc'[p] = "exited" /\ how'[p] = why
  BY <1>1 DEF TypeOK
<1>3. \A q \in Procs : q # p => Same(q)
  BY <1>1 DEF TypeOK, Same
<1>4. OwnSockets(p) /\ sock' \in [Sockets -> Procs \cup Others]
  BY <1>1, <1>2, WithoutOwn
<1>5. TypeOK'
  <2>1. pc' \in [Procs -> Alive \cup {"off", "exited"}]
    BY <1>1 DEF TypeOK
  <2>2. how' \in [Procs -> {"none", "graceful", "failed", "unreported", "interrupted", "sigterm",
                            "crash"}]
    BY <1>1 DEF TypeOK, Killed
  <2>3. QED BY <1>1, <1>4, <2>1, <2>2 DEF TypeOK
<1>6. PhaseInv(p)'
  BY <1>1, <1>2 DEF PhaseInv, Starting, Stopping, Alive, Killed
<1>7. OwnRecord(p)
  <2>1. CASE runtime # NoRecord /\ runtime.pid = p
    <3>1. RecordRight(p) /\ why \in Killed
      BY <1>1, <2>1 DEF RecordAccounted
    <3>2. RecordRight(p)'
      BY <1>2, <3>1 DEF RecordRight
    <3>3. QED BY <3>2 DEF OwnRecord
  <2>2. CASE runtime = NoRecord \/ runtime.pid # p
    BY <2>2 DEF OwnRecord
  <2>3. QED BY <2>1, <2>2
<1>8. p \in Scm => ScmTold(p)'
  <2>1. \A s \in Sockets : sock'[s] # p
    <3>1. \A s \in Sockets : ~Holds(p, s)'
      BY <1>2 DEF Holds, Alive, Starting, Stopping
    <3>2. QED BY <1>4, <3>1 DEF OwnSockets
  <2>2. QED BY <1>2, <2>1 DEF ScmTold
<1>9. QED BY <1>3, <1>4, <1>5, <1>6, <1>7, <1>8, OneProcess

\* The body returned, from a bring-up that failed.
LEMMA FailsInv ==
  ASSUME ServiceInv, NEW p \in Procs, pc[p] \in {"begin", "second"}, Ends(p, "stopped1", "failed")
  PROVE  ServiceInv'
<1>1. TypeOK /\ PhaseInv(p) /\ RecordAccounted
  BY DEF ServiceInv
<1>2. runtime = NoRecord \/ runtime.pid # p
  BY <1>1 DEF PhaseInv, RecordAccounted, RecordRight
<1>3. status' \in [Procs -> {"pending", "running", "stopped0", "stopped1"}]
  BY <1>1 DEF Ends, TypeOK
<1>4. \A q \in Procs : q # p => status'[q] = status[q]
  BY <1>1 DEF Ends, TypeOK
<1>5. p \in Scm => status'[p] = "stopped1"
  BY <1>1 DEF Ends, TypeOK
<1>6. pc[p] \in Alive
  BY DEF Alive, Starting
<1>7. faults' \in 0 .. MaxFaults
  BY <1>1 DEF Ends, TypeOK
<1>8. QED BY <1>2, <1>3, <1>4, <1>5, <1>6, <1>7, ExitInv DEF Ends

\* The body returned, from a graceful stop.
LEMMA LeaveInv ==
  ASSUME ServiceInv, NEW p \in Procs, Leave(p)
  PROVE  ServiceInv'
<1>1. TypeOK /\ PhaseInv(p) /\ RecordAccounted
  BY DEF ServiceInv
<1>2. pc[p] = "leaving" /\ Ends(p, "stopped0", "graceful")
  BY DEF Leave
<1>3. runtime = NoRecord \/ runtime.pid # p
  BY <1>1, <1>2 DEF PhaseInv, RecordAccounted, RecordRight, Killed
<1>4. runtime.pid # p
  BY <1>3, NamesAssumption DEF NoRecord
<1>5. status' \in [Procs -> {"pending", "running", "stopped0", "stopped1"}]
  BY <1>1, <1>2 DEF Ends, TypeOK
<1>6. \A q \in Procs : q # p => status'[q] = status[q]
  BY <1>1, <1>2 DEF Ends, TypeOK
<1>7. p \in Scm => status'[p] = "stopped0"
  BY <1>1, <1>2 DEF Ends, TypeOK
<1>8. pc[p] \in Alive /\ sig[p] = "pending" /\ bound[p] # "none"
  BY <1>1, <1>2 DEF PhaseInv, Alive, Stopping
<1>9. faults' \in 0 .. MaxFaults
  BY <1>1, <1>2 DEF Ends, TypeOK
<1>10. QED BY <1>2, <1>4, <1>5, <1>6, <1>7, <1>8, <1>9, ExitInv DEF Ends

\* Killed: nothing is cleaned up but the sockets.
LEMMA KilledInv ==
  ASSUME ServiceInv, NEW p \in Procs, NEW why \in Killed, pc[p] \in Alive,
         pc' = [pc EXCEPT ![p] = "exited"], how' = [how EXCEPT ![p] = why],
         sock' = Without(p), faults' \in 0 .. MaxFaults,
         UNCHANGED <<tier, bound, dns, ens, sig, shut, status, runtime, nodeUp>>
  PROVE  ServiceInv'
<1>1. TypeOK /\ PhaseInv(p)
  BY DEF ServiceInv
<1>2. p \in Scm => status'[p] = "running"
  BY <1>1 DEF PhaseInv
<1>3. why # "graceful" /\ why # "failed" /\ why \in Killed \cup {"graceful", "failed"}
  BY DEF Killed
<1>4. status' \in [Procs -> {"pending", "running", "stopped0", "stopped1"}]
  BY <1>1 DEF TypeOK
<1>5. QED BY <1>2, <1>3, <1>4, ExitInv

\* Stop: the request is kept, or kills a process with no handler for it.
LEMMA StopInv ==
  ASSUME ServiceInv, NEW p \in Procs, Stop(p)
  PROVE  ServiceInv'
<1>1. /\ TypeOK /\ PhaseInv(p) /\ SocketsAccounted /\ RecordAccounted
      /\ p \in Scm => ScmTold(p)
  BY DEF ServiceInv, ScmToldTheTruth
<1>2. CASE sig[p] = "armed"
  <2>1. /\ sig' = [sig EXCEPT ![p] = "pending"]
        /\ UNCHANGED <<pc, tier, bound, dns, ens, shut, status, how, sock, runtime, nodeUp, faults>>
    BY <1>2 DEF Stop
  <2>2. sig'[p] = "pending" /\ \A q \in Procs : q # p => Same(q)
    BY <1>1, <2>1 DEF TypeOK, Same
  <2>3. sig' \in [Procs -> {"unarmed", "armed", "pending"}]
    BY <1>1, <2>1 DEF TypeOK
  <2>4. TypeOK'
    BY <1>1, <2>1, <2>3 DEF TypeOK
  <2>5. PhaseInv(p)'
    BY <1>1, <2>1, <2>2 DEF PhaseInv
  <2>6. OwnSockets(p)
    BY <1>1, <2>1 DEF OwnSockets, SocketsAccounted, Holds
  <2>7. OwnRecord(p)
    BY <1>1, <2>1 DEF OwnRecord, RecordAccounted, RecordRight
  <2>8. p \in Scm => ScmTold(p)'
    BY <1>1, <2>1, <2>2 DEF ScmTold
  <2>9. QED BY <2>2, <2>4, <2>5, <2>6, <2>7, <2>8, OneProcess
<1>3. CASE sig[p] # "armed"
  <2>1. pc[p] \in Alive /\ Dies(p, "interrupted")
    BY <1>3 DEF Stop
  <2>2. "interrupted" \in Killed
    BY DEF Killed
  <2>3. QED BY <1>1, <2>1, <2>2, KilledInv DEF Dies, TypeOK
<1>4. QED BY <1>2, <1>3

\* Terminate: SIGTERM kills.
LEMMA TerminateInv ==
  ASSUME ServiceInv, NEW p \in Procs, Terminate(p)
  PROVE  ServiceInv'
<1>1. TypeOK /\ "sigterm" \in Killed
  BY DEF ServiceInv, Killed
<1>2. QED BY <1>1, KilledInv DEF Terminate, Dies, TypeOK

\* Crash: so does a crash, and it is counted.
LEMMA CrashInv ==
  ASSUME ServiceInv, NEW p \in Procs, Crash(p)
  PROVE  ServiceInv'
<1>1. TypeOK /\ "crash" \in Killed
  BY DEF ServiceInv, Killed
<1>2. faults' \in 0 .. MaxFaults
  BY <1>1, ServiceBounds DEF Crash, TypeOK
<1>3. QED BY <1>1, <1>2, KilledInv DEF Crash

(***************************************************************************)
(* The rest of the bring-up, the environment, and the theorems.            *)
(***************************************************************************)
\* A step that only moves pc within the bring-up, before anything is bound.
LEMMA EarlyMoveInv ==
  ASSUME ServiceInv, NEW p \in Procs, pc[p] \in {"begin", "primary"},
         NEW to \in {"resolve", "second"}, pc' = [pc EXCEPT ![p] = to],
         UNCHANGED <<tier, bound, dns, ens, sig, shut, status, how, sock, runtime, nodeUp, faults>>
  PROVE  ServiceInv'
<1>1. /\ TypeOK /\ PhaseInv(p) /\ SocketsAccounted /\ RecordAccounted
      /\ p \in Scm => ScmTold(p)
  BY DEF ServiceInv, ScmToldTheTruth
<1>2. pc'[p] = to /\ \A q \in Procs : q # p => Same(q)
  BY <1>1 DEF TypeOK, Same
<1>3. TypeOK'
  <2>1. pc' \in [Procs -> Alive \cup {"off", "exited"}]
    BY <1>1 DEF TypeOK, Alive, Starting
  <2>2. QED BY <1>1, <2>1 DEF TypeOK
<1>4. PhaseInv(p)'
  BY <1>1, <1>2 DEF PhaseInv, Starting, Stopping, Alive
<1>5. OwnSockets(p)
  <2>1. \A s \in Sockets : Holds(p, s)' <=> Holds(p, s)
    BY <1>1, <1>2 DEF Holds, Starting, Stopping, Alive
  <2>2. QED BY <1>1, <2>1 DEF OwnSockets, SocketsAccounted
<1>6. OwnRecord(p)
  <2>1. runtime = NoRecord \/ runtime.pid # p
    BY <1>1 DEF PhaseInv, RecordAccounted, RecordRight
  <2>2. QED BY <2>1 DEF OwnRecord
<1>7. p \in Scm => ScmTold(p)'
  BY <1>1 DEF ScmTold
<1>8. QED BY <1>2, <1>3, <1>4, <1>5, <1>6, <1>7, OneProcess

\* Prepare: the bring-up goes on, or ends with nothing held.
LEMMA PrepareInv ==
  ASSUME ServiceInv, NEW p \in Procs, Prepare(p)
  PROVE  ServiceInv'
<1>1. CASE Goes(p, "resolve") /\ UNCHANGED <<procVars, sock, runtime, nodeUp, faults>>
  BY <1>1, EarlyMoveInv DEF Prepare, Goes, procVars
<1>2. CASE Ends(p, "stopped1", "failed")
  BY <1>2, FailsInv DEF Prepare
<1>3. QED BY <1>1, <1>2 DEF Prepare

\* Binds: the gateway's socket is taken from the free.
LEMMA BindsInv ==
  ASSUME ServiceInv, NEW p \in Procs, pc[p] \in {"primary", "second"},
         NEW s \in {"http", "fallback"}, Binds(p, s)
  PROVE  ServiceInv'
<1>1. /\ TypeOK /\ PhaseInv(p) /\ SocketsAccounted /\ RecordAccounted
      /\ p \in Scm => ScmTold(p)
  BY DEF ServiceInv, ScmToldTheTruth
<1>2. /\ sock[s] = "free" /\ sock' = [sock EXCEPT ![s] = p] /\ bound' = [bound EXCEPT ![p] = s]
      /\ pc' = [pc EXCEPT ![p] = "udp"]
      /\ UNCHANGED <<tier, dns, ens, sig, shut, status, how, runtime, nodeUp, faults>>
  BY DEF Binds, CanBind, Goes
<1>3. s \in Sockets
  BY DEF Sockets
<1>4. pc'[p] = "udp" /\ bound'[p] = s /\ sock'[s] = p
  BY <1>1, <1>2, <1>3 DEF TypeOK
<1>5. \A q \in Procs : q # p => Same(q)
  BY <1>1, <1>2 DEF TypeOK, Same
<1>6. TypeOK'
  <2>1. pc' \in [Procs -> Alive \cup {"off", "exited"}]
    BY <1>1, <1>2 DEF TypeOK, Alive, Starting
  <2>2. bound' \in [Procs -> {"none", "http", "fallback"}]
    BY <1>1, <1>2 DEF TypeOK
  <2>3. sock' \in [Sockets -> Procs \cup Others]
    BY <1>1, <1>2, <1>3 DEF TypeOK
  <2>4. QED BY <1>1, <1>2, <2>1, <2>2, <2>3 DEF TypeOK
<1>7. PhaseInv(p)'
  BY <1>1, <1>2, <1>4 DEF PhaseInv, Starting, Stopping, Alive
<1>8. OwnSockets(p)
  <2>1. Holds(p, s)'
    BY <1>4 DEF Holds, Alive, Starting, Stopping
  <2>2. ASSUME NEW t \in Sockets, t # s
        PROVE  sock'[t] = sock[t] /\ ~Holds(p, t)' /\ ~Holds(p, t)
    <3>1. sock'[t] = sock[t]
      BY <1>1, <1>2, <2>2 DEF TypeOK
    <3>2. bound[p] = "none" /\ dns[p] = "none" /\ ens[p] = "none"
      BY <1>1 DEF PhaseInv, Starting
    <3>3. ~Holds(p, t)
      BY <3>2 DEF Holds, Sockets
    <3>4. ~Holds(p, t)'
      BY <1>2, <1>4, <2>2, <3>2 DEF Holds, Sockets
    <3>5. QED BY <3>1, <3>3, <3>4
  <2>3. p # "free" /\ "free" \in Others
    BY NamesAssumption DEF Others
  <2>4. ASSUME NEW t \in Sockets
        PROVE  /\ sock'[t] # sock[t] => {sock[t], sock'[t]} \subseteq Others \cup {p}
               /\ sock'[t] = p <=> Holds(p, t)'
    <3>1. CASE t = s
      BY <1>2, <1>4, <2>1, <2>3, <3>1
    <3>2. CASE t # s
      BY <1>1, <2>2, <3>2 DEF SocketsAccounted
    <3>3. QED BY <3>1, <3>2
  <2>5. QED BY <2>4 DEF OwnSockets
<1>9. OwnRecord(p)
  <2>1. runtime = NoRecord \/ runtime.pid # p
    BY <1>1 DEF PhaseInv, RecordAccounted, RecordRight
  <2>2. QED BY <1>2, <2>1 DEF OwnRecord
<1>10. p \in Scm => ScmTold(p)'
  <2>1. p \in Scm => status[p] = "running" /\ how[p] = "none"
    BY <1>1 DEF PhaseInv, Alive, Starting
  <2>2. QED BY <1>1, <1>2, <2>1 DEF ScmTold
<1>11. QED BY <1>5, <1>6, <1>7, <1>8, <1>9, <1>10, OneProcess

\* BindPrimary: the address, or the next attempt.
LEMMA BindPrimaryInv ==
  ASSUME ServiceInv, NEW p \in Procs, BindPrimary(p)
  PROVE  ServiceInv'
<1>1. CASE Binds(p, "http")
  BY <1>1, BindsInv DEF BindPrimary
<1>2. CASE Goes(p, "second") /\ UNCHANGED <<procVars, sock, runtime, nodeUp, faults>>
  BY <1>2, EarlyMoveInv DEF BindPrimary, Goes, procVars
<1>3. QED BY <1>1, <1>2 DEF BindPrimary

\* BindFallback: the address, or a failed bring-up.
LEMMA BindFallbackInv ==
  ASSUME ServiceInv, NEW p \in Procs, BindFallback(p)
  PROVE  ServiceInv'
<1>1. CASE Binds(p, "fallback")
  BY <1>1, BindsInv DEF BindFallback
<1>2. CASE Ends(p, "stopped1", "failed")
  BY <1>2, FailsInv DEF BindFallback
<1>3. QED BY <1>1, <1>2 DEF BindFallback

\* The environment passes sockets only among the others, and no process moves.
LEMMA EnvironmentInv ==
  ASSUME ServiceInv, UNCHANGED <<pc, procVars, runtime>>,
         sock' \in [Sockets -> Procs \cup Others], nodeUp' \in BOOLEAN, faults' \in 0 .. MaxFaults,
         \A s \in Sockets : sock'[s] = sock[s] \/ {sock[s], sock'[s]} \subseteq Others
  PROVE  ServiceInv'
<1>1. TypeOK /\ SocketsAccounted /\ RecordAccounted /\ ScmToldTheTruth
  BY DEF ServiceInv
<1>2. UNCHANGED <<pc, tier, bound, dns, ens, sig, shut, status, how, runtime>>
  BY DEF procVars
<1>3. TypeOK'
  BY <1>1, <1>2 DEF TypeOK
<1>4. \A q \in Procs : PhaseInv(q)'
  BY <1>2 DEF ServiceInv, PhaseInv
<1>5. \A q \in Procs, s \in Sockets : sock'[s] = q <=> sock[s] = q
  BY NamesAssumption
<1>6. SocketsAccounted'
  BY <1>1, <1>2, <1>5 DEF SocketsAccounted, Holds
<1>7. RecordAccounted'
  BY <1>1, <1>2 DEF RecordAccounted, RecordRight
<1>8. ScmToldTheTruth'
  BY <1>1, <1>2, <1>5, ProcsAssumption DEF ScmToldTheTruth, ScmTold
<1>9. QED BY <1>3, <1>4, <1>6, <1>7, <1>8 DEF ServiceInv

\* The disturbances are such steps.
LEMMA DisturbsInv ==
  ASSUME ServiceInv,
         \/ NodeStarts \/ NodeStops
         \/ \E s \in Sockets : OtherTakes(s) \/ OtherLeaves(s)
  PROVE  ServiceInv'
<1>1. TypeOK /\ {"free", "node", "other"} \subseteq Others
  BY DEF ServiceInv, Others
<1>2. faults' \in 0 .. MaxFaults /\ UNCHANGED <<pc, procVars, runtime>>
  BY <1>1, ServiceBounds DEF TypeOK, NodeStarts, NodeStops, OtherTakes, OtherLeaves, Disturbs
<1>3. nodeUp' \in BOOLEAN
  BY <1>1 DEF TypeOK, NodeStarts, NodeStops, OtherTakes, OtherLeaves
<1>4. ASSUME NEW s \in Sockets, sock[s] \in Others, NEW v \in Others, sock' = [sock EXCEPT ![s] = v]
      PROVE  ServiceInv'
  <2>1. sock' \in [Sockets -> Procs \cup Others]
    BY <1>1, <1>4 DEF TypeOK
  <2>2. \A t \in Sockets : sock'[t] = sock[t] \/ {sock[t], sock'[t]} \subseteq Others
    BY <1>1, <1>4 DEF TypeOK
  <2>3. QED BY <1>2, <1>3, <2>1, <2>2, EnvironmentInv
<1>5. CASE sock' = sock
  BY <1>1, <1>2, <1>3, <1>5, EnvironmentInv DEF TypeOK
<1>6. CASE NodeStarts
  <2>1. CASE sock["digLocal"] = "free"
    <3>1. sock' = [sock EXCEPT !["digLocal"] = "node"] /\ "digLocal" \in Sockets
      BY <1>6, <2>1 DEF NodeStarts, Sockets
    <3>2. QED BY <1>1, <1>4, <2>1, <3>1
  <2>2. CASE sock["digLocal"] # "free"
    BY <1>5, <1>6, <2>2 DEF NodeStarts
  <2>3. QED BY <2>1, <2>2
<1>7. CASE NodeStops
  <2>1. sock' = [s \in Sockets |-> IF sock[s] = "node" THEN "free" ELSE sock[s]]
    BY <1>7 DEF NodeStops, Without
  <2>2. sock' \in [Sockets -> Procs \cup Others]
    BY <1>1, <2>1 DEF TypeOK
  <2>3. \A t \in Sockets : sock'[t] = sock[t] \/ {sock[t], sock'[t]} \subseteq Others
    BY <1>1, <2>1
  <2>4. QED BY <1>2, <1>3, <2>2, <2>3, EnvironmentInv
<1>8. CASE \E s \in Sockets : OtherTakes(s) \/ OtherLeaves(s)
  BY <1>1, <1>4, <1>8 DEF OtherTakes, OtherLeaves
<1>9. QED BY <1>6, <1>7, <1>8

\* Every step of the machine preserves the invariant.
LEMMA ServiceStep == ServiceInv /\ [Next]_vars => ServiceInv'
<1> SUFFICES ASSUME ServiceInv, [Next]_vars PROVE ServiceInv'
  OBVIOUS
<1>1. CASE UNCHANGED vars
  <2>1. TypeOK
    BY DEF ServiceInv
  <2>2. QED BY <1>1, <2>1, EnvironmentInv DEF vars, procVars, TypeOK
<1>2. ASSUME NEW p \in Procs, Main(p) PROVE ServiceInv'
  BY <1>2, PrepareInv, ResolveInv, BindPrimaryInv, BindFallbackInv, BindUdpInv, BindTcpInv,
     RecordInv, SpawnInv, AcceptStopsInv, DropGuardInv, LeaveInv DEF Main
<1>3. ASSUME NEW p \in Procs, Ensure(p) PROVE ServiceInv'
  BY <1>3, EnsureProbeInv, EnsureBindInv, EnsureRetryInv, EnsureStopsInv DEF Ensure
<1>4. CASE Next
  BY <1>2, <1>3, <1>4, StartInv, StartUnreportedInv, EnsureClientFailsInv, FlagInv, DnsStopsInv,
     ArmInv, StopInv, TerminateInv, CrashInv, DisturbsInv DEF Next
<1>5. QED BY <1>1, <1>4

\* The invariant holds of every behaviour, for any number of dig-dns processes on the
\* machine.
THEOREM ServiceInvariant == Spec => []ServiceInv
BY ServiceInit, ServiceStep, PTL DEF Spec

\* Type correctness of the processes and of what they share.
THEOREM ServiceTypes == Spec => []TypeOK
<1>1. ServiceInv => TypeOK
  BY DEF ServiceInv
<1>2. QED BY <1>1, ServiceInvariant, PTL

\* A process holds exactly the sockets its tasks serve (server.rs, bind_listener to
\* serve_on), however its binds and its end interleave with those of others.
THEOREM NoSocketLost == Spec => []SocketsAccounted
<1>1. ServiceInv => SocketsAccounted
  BY DEF ServiceInv
<1>2. QED BY <1>1, ServiceInvariant, PTL

\* runtime.json (state.rs, RuntimeGuard) tells the truth about the process that wrote
\* it, and outlives it only when the process was killed.
THEOREM RecordIsTrue == Spec => []RecordAccounted
<1>1. ServiceInv => RecordAccounted
  BY DEF ServiceInv
<1>2. QED BY <1>1, ServiceInvariant, PTL

\* What run_reporting tells the SCM is what happened (service_run.rs, win_service.rs).
THEOREM ScmIsToldTheTruth == Spec => []ScmToldTheTruth
<1>1. ServiceInv => ScmToldTheTruth
  BY DEF ServiceInv
<1>2. QED BY <1>1, ServiceInvariant, PTL

(***************************************************************************)
(* A process only moves on, and a stop is never lost.                      *)
(***************************************************************************)
\* The steps serve_with_shutdown has left, the rungs of the ladder included.
Left(p) ==
  CASE pc[p] = "begin" -> Len(Ladder) + 11
    [] pc[p] = "resolve" -> Len(Ladder) - tier[p] + 10
    [] pc[p] = "primary" -> 9
    [] pc[p] = "second" -> 8
    [] pc[p] = "udp" -> 7
    [] pc[p] = "tcp" -> 6
    [] pc[p] = "record" -> 5
    [] pc[p] = "spawn" -> 4
    [] pc[p] = "serving" -> 3
    [] pc[p] = "closing" -> 2
    [] pc[p] = "leaving" -> 1
    [] OTHER -> 0

\* A process has a bounded number of them.
LeftInv == \A p \in Procs : Left(p) \in 0..Len(Ladder) + 11

\* A step of p's main task leaves it less to do, and nothing that another task, another
\* process or the machine does sets it back; a stop that has reached it stays until it has
\* ended, and so does the watch it flips.
MovesOn ==
  \A p \in Procs :
    /\ Main(p) => Left(p)' < Left(p)
    /\ pc[p] # "off" => Left(p)' <= Left(p) /\ pc'[p] # "off"
    /\ pc[p] = "exited" => pc'[p] = "exited"
    /\ sig[p] = "pending" => sig'[p] = "pending"
    /\ shut[p] => shut'[p]

\* Where the main task of p can go from where it is.
MainMoves(p) ==
  \/ pc[p] = "begin" /\ pc'[p] \in {"resolve", "exited"} /\ tier'[p] = tier[p]
  \/ pc[p] = "resolve" /\ pc'[p] = "resolve" /\ tier'[p] = tier[p] + 1
  \/ pc[p] = "resolve" /\ pc'[p] = "primary"
  \/ pc[p] = "primary" /\ pc'[p] \in {"second", "udp"}
  \/ pc[p] = "second" /\ pc'[p] \in {"udp", "exited"}
  \/ pc[p] = "udp" /\ pc'[p] \in {"tcp", "record"}
  \/ pc[p] = "tcp" /\ pc'[p] = "record"
  \/ pc[p] = "record" /\ pc'[p] = "spawn"
  \/ pc[p] = "spawn" /\ pc'[p] = "serving"
  \/ pc[p] = "serving" /\ pc'[p] = "closing"
  \/ pc[p] = "closing" /\ pc'[p] = "leaving"
  \/ pc[p] = "leaving" /\ pc'[p] = "exited"

LEMMA MainMovesOn ==
  ASSUME TypeOK, NEW p \in Procs, Main(p)
  PROVE  /\ MainMoves(p)
         /\ \A q \in Procs \ {p} : pc'[q] = pc[q] /\ tier'[q] = tier[q]
         /\ sig' = sig /\ shut' = shut
<1>1. /\ pc = [q \in Procs |-> pc[q]] /\ tier = [q \in Procs |-> tier[q]]
      /\ DOMAIN pc = Procs /\ DOMAIN tier = Procs
  BY DEF TypeOK
<1>2. CASE Prepare(p)
  BY <1>1, <1>2 DEF Prepare, Goes, Ends, procVars, MainMoves
<1>3. CASE Resolve(p)
  BY <1>1, <1>3 DEF Resolve, Goes, MainMoves
<1>4. CASE BindPrimary(p)
  BY <1>1, <1>4 DEF BindPrimary, Binds, Goes, procVars, MainMoves
<1>5. CASE BindFallback(p)
  BY <1>1, <1>5 DEF BindFallback, Binds, Goes, Ends, procVars, MainMoves
<1>6. CASE BindUdp(p) \/ BindTcp(p)
  BY <1>1, <1>6 DEF BindUdp, BindTcp, Goes, MainMoves
<1>7. CASE Record(p) \/ Spawn(p)
  BY <1>1, <1>7 DEF Record, Spawn, Goes, procVars, MainMoves
<1>8. CASE AcceptStops(p) \/ DropGuard(p)
  BY <1>1, <1>8 DEF AcceptStops, DropGuard, Goes, procVars, MainMoves
<1>9. CASE Leave(p)
  BY <1>1, <1>9 DEF Leave, Ends, MainMoves
<1>10. QED BY <1>2, <1>3, <1>4, <1>5, <1>6, <1>7, <1>8, <1>9 DEF Main

LEMMA LeftNat ==
  ASSUME TypeOK, NEW p \in Procs
  PROVE  Left(p) \in Nat /\ Left(p) <= Len(Ladder) + 11
<1>1. tier[p] \in 1..Len(Ladder) /\ Len(Ladder) \in Nat
  BY LadderLen DEF TypeOK
<1>2. QED BY <1>1 DEF Left

LEMMA MainDescends ==
  ASSUME TypeOK, TypeOK', NEW p \in Procs, MainMoves(p)
  PROVE  Left(p)' < Left(p) /\ pc[p] # "off" /\ pc[p] # "exited" /\ pc'[p] # "off"
<1>1. /\ tier[p] \in 1..Len(Ladder) /\ tier'[p] \in 1..Len(Ladder)
      /\ Len(Ladder) \in Nat /\ Ladder' = Ladder
  BY LadderLen DEF TypeOK, Ladder
<1>2. QED BY <1>1 DEF MainMoves, Left

\* Every other step: the process stays where it is, ends, or was off.
Stays(q) ==
  /\ pc[q] # "off" => pc'[q] = "exited" \/ (pc'[q] = pc[q] /\ tier'[q] = tier[q])
  /\ pc'[q] = "off" => sig'[q] = sig[q]
  /\ sig[q] = "pending" => sig'[q] = "pending"
  /\ shut[q] => shut'[q]

\* No handler is installed before the process is started.
Fresh == \A p \in Procs : pc[p] = "off" => sig[p] = "unarmed"

LEMMA OthersStay ==
  ASSUME TypeOK, Fresh, NEW q \in Procs,
         \/ \E p \in Procs : \/ Start(p) \/ StartUnreported(p) \/ Ensure(p)
                             \/ EnsureClientFails(p) \/ Flag(p) \/ DnsStops(p) \/ Arm(p)
                             \/ Stop(p) \/ Terminate(p) \/ Crash(p)
         \/ NodeStarts \/ NodeStops
         \/ \E s \in Sockets : OtherTakes(s) \/ OtherLeaves(s)
         \/ UNCHANGED vars
  PROVE  Stays(q)
<1>1. /\ DOMAIN pc = Procs /\ DOMAIN tier = Procs /\ DOMAIN sig = Procs
      /\ DOMAIN shut = Procs /\ DOMAIN status = Procs
      /\ pc = [r \in Procs |-> pc[r]] /\ sig = [r \in Procs |-> sig[r]]
      /\ shut = [r \in Procs |-> shut[r]]
  BY DEF TypeOK
<1>2. ASSUME NEW p \in Procs, Start(p) PROVE Stays(q)
  BY <1>1, <1>2 DEF Fresh, Start, Goes, Stays
<1>3. ASSUME NEW p \in Procs, StartUnreported(p) PROVE Stays(q)
  BY <1>1, <1>3 DEF StartUnreported, Goes, Stays
<1>4. ASSUME NEW p \in Procs, Ensure(p) \/ EnsureClientFails(p) PROVE Stays(q)
  BY <1>4 DEF Ensure, EnsureProbe, EnsureBind, EnsureRetry, EnsureStops, EnsureClientFails,
              EnsureTo, Stays
<1>5. ASSUME NEW p \in Procs, Flag(p) \/ DnsStops(p) PROVE Stays(q)
  BY <1>1, <1>5 DEF Flag, DnsStops, Stays
<1>6. ASSUME NEW p \in Procs, Arm(p) PROVE Stays(q)
  BY <1>1, <1>6 DEF Arm, TasksLive, Stopping, Stays
<1>7. ASSUME NEW p \in Procs, Stop(p) \/ Terminate(p) \/ Crash(p) PROVE Stays(q)
  <2>1. CASE pc' = [pc EXCEPT ![p] = "exited"] /\ UNCHANGED <<tier, sig, shut>>
    BY <1>1, <2>1 DEF Stays
  <2>2. CASE sig' = [sig EXCEPT ![p] = "pending"] /\ UNCHANGED <<pc, tier, shut>>
    <3>1. pc[p] # "off"
      BY <1>7 DEF Stop, Terminate, Crash, Alive, Starting, Stopping
    <3>2. QED BY <1>1, <2>2, <3>1 DEF Stays
  <2>3. QED BY <1>7, <2>1, <2>2, Zenon DEF Stop, Terminate, Crash, Dies
<1>8. CASE NodeStarts \/ NodeStops \/ (\E s \in Sockets : OtherTakes(s) \/ OtherLeaves(s))
  BY <1>8 DEF NodeStarts, NodeStops, OtherTakes, OtherLeaves, Disturbs, procVars, Stays
<1>9. CASE UNCHANGED vars
  BY <1>9 DEF vars, Stays
<1>10. QED BY <1>2, <1>3, <1>4, <1>5, <1>6, <1>7, <1>8, <1>9

LEMMA StaysMovesOn ==
  ASSUME TypeOK, TypeOK', NEW q \in Procs, Stays(q)
  PROVE  /\ pc[q] # "off" => Left(q)' <= Left(q) /\ pc'[q] # "off"
         /\ pc[q] = "exited" => pc'[q] = "exited"
<1>1. Left(q) \in Nat
  BY LeftNat
<1>2. CASE pc[q] # "off" /\ pc'[q] = "exited"
  <2>1. Left(q)' = 0
    BY <1>2 DEF Left
  <2>2. QED BY <1>1, <1>2, <2>1
<1>3. CASE pc[q] # "off" /\ pc'[q] = pc[q] /\ tier'[q] = tier[q]
  <2>1. Left(q)' = Left(q)
    BY <1>3 DEF Left, Ladder
  <2>2. QED BY <1>1, <1>3, <2>1
<1>4. QED BY <1>2, <1>3 DEF Stays

\* A bring-up and a shutdown take at most Len(Ladder) + 11 steps of the main task, which
\* nothing undoes, and a stop is kept through all of them: BringUpSettles and StopCompletes
\* rest on this.  (serve_with_shutdown, wait_for_shutdown, ReqwestNodeClient::resolve)
THEOREM ProcessMovesOn == Spec => []LeftInv /\ [][MovesOn]_vars
<1>1. TypeOK /\ TypeOK' /\ Fresh /\ [Next]_vars => MovesOn /\ Fresh'
  <2> SUFFICES ASSUME TypeOK, TypeOK', Fresh, [Next]_vars, NEW q \in Procs
               PROVE  /\ Main(q) => Left(q)' < Left(q)
                      /\ pc[q] # "off" => Left(q)' <= Left(q) /\ pc'[q] # "off"
                      /\ pc[q] = "exited" => pc'[q] = "exited"
                      /\ sig[q] = "pending" => sig'[q] = "pending"
                      /\ shut[q] => shut'[q]
                      /\ pc'[q] = "off" => sig'[q] = "unarmed"
    BY DEF MovesOn, Fresh
  <2>1. Left(q) \in Nat /\ Left(q)' \in Int
    <3>1. tier'[q] \in 1..Len(Ladder') /\ Len(Ladder') \in Nat
      BY LadderLen DEF TypeOK, Ladder
    <3>2. Left(q)' \in Int
      BY <3>1 DEF Left
    <3>3. QED BY <3>2, LeftNat
  <2>2. CASE Main(q)
    <3>1. MainMoves(q) /\ sig' = sig /\ shut' = shut
      BY <2>2, MainMovesOn
    <3>2. Left(q)' < Left(q) /\ pc[q] # "off" /\ pc[q] # "exited" /\ pc'[q] # "off"
      BY <3>1, MainDescends
    <3>3. QED BY <2>1, <3>1, <3>2
  <2>3. ASSUME NEW p \in Procs, p # q, Main(p)
        PROVE  Stays(q)
    BY <2>3, MainMovesOn DEF Stays
  <2>4. CASE ~Main(q)
    <3>1. Stays(q)
      <4>1. CASE \E p \in Procs : Main(p)
        BY <2>3, <2>4, <4>1
      <4>2. CASE ~\E p \in Procs : Main(p)
        BY <4>2, OthersStay DEF Next
      <4>3. QED BY <4>1, <4>2
    <3>2. QED BY <2>4, <3>1, StaysMovesOn DEF Stays, Fresh
  <2>5. QED BY <2>2, <2>4
<1>2. Init => Fresh
  BY DEF Init, Fresh
<1>3. TypeOK => LeftInv
  <2>1. ASSUME TypeOK, NEW p \in Procs PROVE Left(p) \in 0..Len(Ladder) + 11
    <3> HIDE DEF Left
    <3>1. Left(p) \in Nat /\ Left(p) <= Len(Ladder) + 11
      BY <2>1, LeftNat
    <3>2. QED BY <3>1, LadderLen
  <2>2. QED BY <2>1 DEF LeftInv
<1>4. QED BY <1>1, <1>2, <1>3, ServiceTypes, PTL DEF Spec
=============================================================================
