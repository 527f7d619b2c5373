--------------------------- MODULE UpstreamProofs ---------------------------
(***************************************************************************)
(* Theorems about Upstream, for any number of lookups and any timeouts.    *)
(***************************************************************************)
EXTENDS Upstream, SequenceTheorems, TLAPS

(***************************************************************************)
(* Prefixes and the ladder.                                                *)
(***************************************************************************)
LEMMA PrefixIs ==
  ASSUME NEW S, NEW s \in Seq(S), NEW n \in 0..Len(s)
  PROVE  /\ SubSeq(s, 1, n) \in Seq(S) /\ Len(SubSeq(s, 1, n)) = n
         /\ n > 0 => SubSeq(s, 1, n)[n] = s[n]
BY SubSeqProperties

LEMMA PrefixNext ==
  ASSUME NEW S, NEW s \in Seq(S), NEW n \in Nat, n < Len(s)
  PROVE  Append(SubSeq(s, 1, n), s[n + 1]) = SubSeq(s, 1, n + 1)
OBVIOUS

LEMMA ConcatOfTwo ==
  ASSUME NEW S, NEW s \in Seq(S), NEW p \in Seq(S), Len(p) = 2
  PROVE  /\ s \o p \in Seq(S) /\ Len(s \o p) = Len(s) + 2
         /\ \A i \in 1..Len(s) : (s \o p)[i] = s[i]
         /\ (s \o p)[Len(s) + 1] = p[1] /\ (s \o p)[Len(s) + 2] = p[2]
<1> DEFINE t == s \o p
<1>1. /\ t \in Seq(S) /\ Len(t) = Len(s) + Len(p)
      /\ \A i \in 1..Len(s) + Len(p) :
           t[i] = IF i <= Len(s) THEN s[i] ELSE p[i - Len(s)]
  BY ConcatProperties, Zenon
<1> HIDE DEF t
<1>2. /\ t \in Seq(S) /\ Len(t) = Len(s) + 2
      /\ \A i \in 1..Len(s) : t[i] = s[i]
      /\ t[Len(s) + 1] = p[1] /\ t[Len(s) + 2] = p[2]
  BY <1>1
<1>3. QED BY <1>2, Zenon DEF t

Rungs == Server \cup {Os}

LEMMA LadderIs ==
  /\ Ladder \in Seq(Rungs) /\ Len(Ladder) = 7
  /\ Ladder[7] = Os
  /\ \A i \in 1..6 : Ladder[i] \in Server /\ Ladder[i].tier \in Tier
BY DEF Ladder, Os, Rungs, Server, Tier, Family

LEMMA ChainIs ==
  /\ Len(Chain) = 6
  /\ \A i \in 1..6 : Chain[i] = Ladder[i] /\ Chain[i].tier \in Tier
<1>1. /\ provider_name_servers("MullvadDoh") = <<Ladder[1], Ladder[2]>>
      /\ provider_name_servers("MullvadDot") = <<Ladder[3], Ladder[4]>>
      /\ provider_name_servers("Quad9Dot") = <<Ladder[5], Ladder[6]>>
  BY DEF provider_name_servers, Ladder
<1>2. /\ PROVIDER_CHAIN[1] = "MullvadDoh" /\ PROVIDER_CHAIN[2] = "MullvadDot"
      /\ PROVIDER_CHAIN[3] = "Quad9Dot"
  BY DEF PROVIDER_CHAIN
<1> DEFINE a == <<Ladder[1], Ladder[2]>>
           p == <<Ladder[3], Ladder[4]>>
           q == <<Ladder[5], Ladder[6]>>
           b == a \o p
<1>3. Chain = b \o q
  BY <1>1, <1>2 DEF Chain
<1>4. /\ Ladder[1] \in Server /\ Ladder[2] \in Server /\ Ladder[3] \in Server
      /\ Ladder[4] \in Server /\ Ladder[5] \in Server /\ Ladder[6] \in Server
  BY LadderIs
<1>5. /\ a \in Seq(Server) /\ Len(a) = 2 /\ a[1] = Ladder[1] /\ a[2] = Ladder[2]
      /\ p \in Seq(Server) /\ Len(p) = 2 /\ p[1] = Ladder[3] /\ p[2] = Ladder[4]
      /\ q \in Seq(Server) /\ Len(q) = 2 /\ q[1] = Ladder[5] /\ q[2] = Ladder[6]
  BY <1>4
<1> HIDE DEF a, p, q
<1>6. /\ b \in Seq(Server) /\ Len(b) = Len(a) + 2
      /\ \A i \in 1..Len(a) : b[i] = a[i]
      /\ b[Len(a) + 1] = p[1] /\ b[Len(a) + 2] = p[2]
  BY <1>5, ConcatOfTwo, Zenon
<1> HIDE DEF b
<1>7. /\ b \o q \in Seq(Server) /\ Len(b \o q) = Len(b) + 2
      /\ \A i \in 1..Len(b) : (b \o q)[i] = b[i]
      /\ (b \o q)[Len(b) + 1] = q[1] /\ (b \o q)[Len(b) + 2] = q[2]
  BY <1>5, <1>6, ConcatOfTwo, Zenon
<1>8. /\ Len(Chain) = Len(b) + 2
      /\ \A i \in 1..Len(b) : Chain[i] = b[i]
      /\ Chain[Len(b) + 1] = q[1] /\ Chain[Len(b) + 2] = q[2]
  BY <1>3, <1>7, Zenon
<1>9. /\ Len(b) = 4 /\ b[1] = Ladder[1] /\ b[2] = Ladder[2]
      /\ b[3] = Ladder[3] /\ b[4] = Ladder[4]
  BY <1>5, <1>6
<1>10. /\ Len(Chain) = 6
       /\ Chain[1] = Ladder[1] /\ Chain[2] = Ladder[2] /\ Chain[3] = Ladder[3]
       /\ Chain[4] = Ladder[4] /\ Chain[5] = Ladder[5] /\ Chain[6] = Ladder[6]
  BY <1>5, <1>8, <1>9
<1>11. QED BY <1>10, LadderIs

\* The first n servers of the ladder.
Asked(n) == SubSeq(Ladder, 1, n)

LEMMA AskedIs ==
  ASSUME NEW n \in 0..7
  PROVE  /\ Asked(n) \in Seq(Rungs) /\ Len(Asked(n)) = n
         /\ n > 0 => Asked(n)[n] = Ladder[n]
BY LadderIs, PrefixIs DEF Asked

LEMMA AskedNext ==
  ASSUME NEW n \in 0..6
  PROVE  Append(Asked(n), Ladder[n + 1]) = Asked(n + 1)
BY LadderIs, PrefixNext DEF Asked

LEMMA AskedEnds == Asked(0) = <<>> /\ Asked(7) = Ladder
BY LadderIs, SubSeqEmpty, SubSeqFull DEF Asked

(***************************************************************************)
(* Types.                                                                  *)
(***************************************************************************)
Pcs == {"idle", "ask", "wait", "os", "done", "unbuilt"}
Verdicts == {None, "info", "pass", "warn", "fail"}

LEMMA EvaluateType ==
  ASSUME NEW e, NEW a
  PROVE  evaluate_secure_upstream(e, a) \in Verdicts
BY DEF evaluate_secure_upstream, Verdicts

LEMMA ReturnsType ==
  ASSUME TypeOK, NEW c \in Callers, NEW a \in Tier \cup {"os", None}, Returns(c, a),
         cached' \subseteq Tier
  PROVE  TypeOK'
<1>1. pc' \in [Callers -> Pcs]
  BY DEF TypeOK, Returns, Pcs
<1>2. answer' \in [Callers -> Tier \cup {"os", None}]
  BY DEF TypeOK, Returns
<1>3. verdict' \in [Callers -> Verdicts]
  BY EvaluateType, Zenon DEF TypeOK, Returns, Verdicts
<1>4. QED BY <1>1, <1>2, <1>3 DEF TypeOK, Returns, lookupVars, Pcs, Verdicts

LEMMA FallsThroughType ==
  ASSUME TypeOK, NEW c \in Callers, FallsThrough(c)
  PROVE  TypeOK'
<1>1. CASE at[c] < Len(Chain) /\ AsksNext(c)
  <2>1. at' \in [Callers -> 1..6]
    <3>1. at \in [Callers -> 1..6] /\ at' = [at EXCEPT ![c] = @ + 1]
      BY <1>1 DEF TypeOK, AsksNext
    <3>2. at[c] + 1 \in 1..6
      BY <1>1, <3>1, ChainIs
    <3>3. QED BY <3>1, <3>2
  <2>2. QED BY <1>1, <2>1 DEF TypeOK, AsksNext
<1>2. CASE AsksOs(c)
  <2>1. dialled' \in [Callers -> Seq(Server \cup {Os})]
    BY <1>2 DEF TypeOK, AsksOs
  <2>2. QED BY <1>2, <2>1 DEF TypeOK, AsksOs
<1>3. QED BY <1>1, <1>2 DEF FallsThrough

LEMMA ServerAsked ==
  ASSUME TypeOK, NEW c \in Callers
  PROVE  /\ Chain[at[c]] = Ladder[at[c]] /\ Chain[at[c]] \in Server
         /\ Chain[at[c]].tier \in Tier
         /\ at[c] \in 1..6
<1>1. at[c] \in 1..6
  BY DEF TypeOK
<1>2. QED BY <1>1, ChainIs, LadderIs

LEMMA AskType ==
  ASSUME TypeOK, NEW c \in Callers, Ask(c)
  PROVE  TypeOK'
<1>1. CASE Returns(c, Chain[at[c]].tier) /\ UNCHANGED cached
  <2>1. cached' \subseteq Tier
    BY <1>1 DEF TypeOK
  <2>2. QED BY <1>1, <2>1, ServerAsked, ReturnsType
<1>2. CASE /\ pc' = [pc EXCEPT ![c] = "wait"]
           /\ waited' = [waited EXCEPT ![c] = 0]
           /\ dialled' = [dialled EXCEPT ![c] = Append(@, Chain[at[c]])]
           /\ UNCHANGED <<secure, host, at, elapsed, answer, verdict, silent, cached>>
  <2>1. dialled' \in [Callers -> Seq(Server \cup {Os})]
    BY <1>2, ServerAsked DEF TypeOK
  <2>2. waited' \in [Callers -> 0..TIER_TIMEOUT]
    BY <1>2, TimeoutAssumption DEF TypeOK
  <2>3. QED BY <1>2, <2>1, <2>2 DEF TypeOK
<1>3. QED BY <1>1, <1>2 DEF Ask

LEMMA BeginType ==
  ASSUME TypeOK, NEW c \in Callers, NEW h \in Hosts, Begin(c, h)
  PROVE  TypeOK'
<1>1. pc' \in [Callers -> Pcs]
  BY DEF TypeOK, Begin, Pcs
<1>2. dialled' \in [Callers -> Seq(Server \cup {Os})]
  <2>1. <<>> \in Seq(Server \cup {Os}) /\ <<Os>> \in Seq(Server \cup {Os})
    OBVIOUS
  <2>2. QED BY <2>1, Zenon DEF TypeOK, Begin
<1>3. at' \in [Callers -> 1..6] /\ waited' \in [Callers -> 0..TIER_TIMEOUT]
  BY TimeoutAssumption DEF TypeOK, Begin
<1>4. elapsed' \in [Callers -> 0..PROBE_TIMEOUT]
  BY TimeoutAssumption DEF TypeOK, Begin
<1>5. host' \in [Callers -> Hosts] /\ answer' \in [Callers -> Tier \cup {"os", None}]
      /\ silent' \in [Callers -> BOOLEAN]
  BY Zenon DEF TypeOK, Begin
<1>6. QED BY <1>1, <1>2, <1>3, <1>4, <1>5 DEF TypeOK, Begin, Pcs

LEMMA ProbeType ==
  ASSUME TypeOK, NEW c \in Callers, Probe(c) \/ ProbeUnbuilt(c)
  PROVE  TypeOK'
<1>1. UPSTREAM_HOST \in Hosts
  BY DEF UPSTREAM_HOST, Hosts
<1>2. pc' \in [Callers -> Pcs]
  BY DEF TypeOK, Probe, ProbeUnbuilt, Pcs
<1>3. host' \in [Callers -> Hosts]
  BY <1>1, Zenon DEF TypeOK, Probe, ProbeUnbuilt, lookupVars
<1>4. verdict' \in [Callers -> Verdicts]
  <2>1. verdict \in [Callers -> Verdicts]
    BY DEF TypeOK, Verdicts
  <2>2. CASE Probe(c)
    BY <2>1, <2>2, EvaluateType, Zenon DEF Probe
  <2>3. CASE ProbeUnbuilt(c)
    BY <2>1, <2>3, EvaluateType, Zenon DEF ProbeUnbuilt
  <2>4. QED BY <2>2, <2>3
<1>5. QED BY <1>2, <1>3, <1>4 DEF TypeOK, Probe, ProbeUnbuilt, lookupVars, Pcs, Verdicts

LEMMA TickType ==
  ASSUME TypeOK, NEW c \in Callers, Tick(c)
  PROVE  TypeOK'
<1>1. elapsed' \in [Callers -> 0..PROBE_TIMEOUT]
  <2>1. elapsed \in [Callers -> 0..PROBE_TIMEOUT]
    BY DEF TypeOK
  <2>2. CASE elapsed[c] < PROBE_TIMEOUT /\ elapsed' = [elapsed EXCEPT ![c] = @ + 1]
    <3>1. elapsed[c] + 1 \in 0..PROBE_TIMEOUT
      BY <2>1, <2>2, TimeoutAssumption
    <3>2. QED BY <2>1, <2>2, <3>1
  <2>3. QED BY <2>1, <2>2 DEF Tick
<1>2. waited' \in [Callers -> 0..TIER_TIMEOUT]
  BY TimeoutAssumption DEF TypeOK, Tick
<1>3. QED BY <1>1, <1>2 DEF TypeOK, Tick

LEMMA TypeStep ==
  ASSUME TypeOK, [Next]_vars
  PROVE  TypeOK'
<1>1. ASSUME NEW c \in Callers, NEW h \in Hosts, Begin(c, h) PROVE TypeOK'
  BY <1>1, BeginType
<1>2. ASSUME NEW c \in Callers, Probe(c) \/ ProbeUnbuilt(c) PROVE TypeOK'
  BY <1>2, ProbeType
<1>3. ASSUME NEW c \in Callers, Ask(c) PROVE TypeOK'
  BY <1>3, AskType
<1>4. ASSUME NEW c \in Callers, Answers(c) PROVE TypeOK'
  <2>1. cached' \subseteq Tier
    BY <1>4, ServerAsked DEF TypeOK, Answers
  <2>2. QED BY <1>4, <2>1, ServerAsked, ReturnsType DEF Answers
<1>5. ASSUME NEW c \in Callers, Refuses(c) \/ TierTimeout(c) PROVE TypeOK'
  BY <1>5, FallsThroughType DEF Refuses, TierTimeout
<1>6. ASSUME NEW c \in Callers, Tick(c) PROVE TypeOK'
  BY <1>6, TickType
<1>7. ASSUME NEW c \in Callers, ConnectTimeout(c) \/ os_resolve(c) PROVE TypeOK'
  <2>1. PICK a \in {"os", None} : Returns(c, a)
    BY <1>7 DEF ConnectTimeout, os_resolve
  <2>2. cached' \subseteq Tier
    BY <1>7 DEF TypeOK, ConnectTimeout, os_resolve
  <2>3. QED BY <2>1, <2>2, ReturnsType
<1>8. ASSUME NEW t \in Tier, Expires(t) PROVE TypeOK'
  BY <1>8 DEF TypeOK, Expires, lookupVars
<1>9. CASE UNCHANGED vars
  BY <1>9 DEF TypeOK, vars
<1>10. QED
  BY <1>1, <1>2, <1>3, <1>4, <1>5, <1>6, <1>7, <1>8, <1>9 DEF Next, Step

LEMMA TypeInit == Init => TypeOK
<1> SUFFICES ASSUME Init PROVE TypeOK
  OBVIOUS
<1>1. UPSTREAM_HOST \in Hosts
  BY DEF UPSTREAM_HOST, Hosts
<1>2. /\ at \in [Callers -> 1..6] /\ waited \in [Callers -> 0..TIER_TIMEOUT]
      /\ elapsed \in [Callers -> 0..PROBE_TIMEOUT]
  BY TimeoutAssumption DEF Init
<1>3. QED BY <1>1, <1>2 DEF Init, TypeOK

\* Every lookup of the service and of the doctor stays within its types, whatever the
\* servers do: the walk of resolve_with_fallback never leaves the chain.
THEOREM LookupTypes == Spec => []TypeOK
BY TypeInit, TypeStep, PTL DEF Spec

(***************************************************************************)
(* The inductive invariant of one lookup.                                  *)
(***************************************************************************)
\* How far down the ladder a lookup is, as its place in the code determines.
Walk(c) ==
  /\ pc[c] \in {"ask", "wait"} => Scoped(c)
  /\ pc[c] = "ask" => dialled[c] = Asked(at[c] - 1)
  /\ pc[c] = "wait" => dialled[c] = Asked(at[c])
  /\ pc[c] = "os" /\ Scoped(c) => dialled[c] = Ladder
  /\ Scoped(c) => \E n \in 0..7 : dialled[c] = Asked(n)
  /\ ~Scoped(c) => dialled[c] \in {<<>>, <<Os>>}

\* A lookup that failed asked everybody, or its connection's clock ran out.
Told(c) ==
  /\ elapsed[c] > 0 => silent[c]
  /\ Failed(c) => dialled[c] = Ladder \/ (c \in Requests /\ elapsed[c] = PROBE_TIMEOUT)

\* What the doctor's verdict rests on.
Judged(c) ==
  c \in Doctors =>
    /\ host[c] = UPSTREAM_HOST
    /\ pc[c] = "idle" => dialled[c] = <<>> /\ at[c] = 1
    /\ pc[c] \in {"ask", "wait", "os"} => secure
    /\ pc[c] = "done" /\ ~secure => dialled[c] = <<>> /\ verdict[c] = "info"
    /\ pc[c] = "done" /\ secure =>
         /\ verdict[c] = evaluate_secure_upstream(TRUE, answer[c])
         /\ answer[c] \in Tier => dialled[c] = Asked(at[c]) /\ answer[c] = Ladder[at[c]].tier
         /\ answer[c] \notin Tier => dialled[c] = Ladder

Lookup(c) == Walk(c) /\ Told(c) /\ Judged(c)

\* A step leaves the lookup of d as it is.
Same(d) ==
  /\ pc'[d] = pc[d] /\ host'[d] = host[d] /\ at'[d] = at[d] /\ elapsed'[d] = elapsed[d]
  /\ answer'[d] = answer[d] /\ verdict'[d] = verdict[d] /\ dialled'[d] = dialled[d]
  /\ silent'[d] = silent[d] /\ secure' = secure

LEMMA SameLookup ==
  ASSUME NEW d \in Callers, Lookup(d), Same(d)
  PROVE  Lookup(d)'
<1>1. Scoped(d)' = Scoped(d)
  BY DEF Same, Scoped
<1>2. Walk(d)'
  BY <1>1 DEF Lookup, Walk, Same
<1>3. Told(d)'
  BY <1>1 DEF Lookup, Told, Same, Failed
<1>4. Judged(d)'
  BY DEF Lookup, Judged, Same
<1>5. QED BY <1>2, <1>3, <1>4 DEF Lookup

LEMMA Fields ==
  ASSUME TypeOK
  PROVE  /\ DOMAIN pc = Callers /\ DOMAIN host = Callers /\ DOMAIN at = Callers
         /\ DOMAIN waited = Callers /\ DOMAIN elapsed = Callers /\ DOMAIN answer = Callers
         /\ DOMAIN verdict = Callers /\ DOMAIN dialled = Callers /\ DOMAIN silent = Callers
         /\ pc = [d \in Callers |-> pc[d]] /\ host = [d \in Callers |-> host[d]]
         /\ at = [d \in Callers |-> at[d]] /\ elapsed = [d \in Callers |-> elapsed[d]]
         /\ answer = [d \in Callers |-> answer[d]] /\ verdict = [d \in Callers |-> verdict[d]]
         /\ dialled = [d \in Callers |-> dialled[d]] /\ silent = [d \in Callers |-> silent[d]]
BY DEF TypeOK

\* A place on the ladder follows from the place in the code.
LEMMA WalkIs ==
  ASSUME TypeOK, NEW c \in Callers, Walk(c)
  PROVE  /\ pc[c] = "ask" => /\ Scoped(c) /\ dialled[c] = Asked(at[c] - 1)
                             /\ Append(dialled[c], Chain[at[c]]) = Asked(at[c])
         /\ pc[c] = "wait" => Scoped(c) /\ dialled[c] = Asked(at[c])
<1>1. at[c] \in 1..6 /\ Chain[at[c]] = Ladder[at[c]]
  BY ServerAsked
<1>2. at[c] - 1 \in 0..6 /\ (at[c] - 1) + 1 = at[c]
  BY <1>1
<1>3. Append(Asked(at[c] - 1), Ladder[at[c]]) = Asked(at[c])
  BY <1>2, AskedNext
<1>4. QED BY <1>1, <1>3 DEF Walk

(***************************************************************************)
(* One lemma for each action: the lookup that acts.                        *)
(***************************************************************************)
LEMMA ReturnsOthers ==
  ASSUME TypeOK, NEW c \in Callers, NEW a, Returns(c, a)
  PROVE  /\ \A d \in Callers \ {c} : Same(d)
         /\ pc'[c] = "done" /\ answer'[c] = a
         /\ verdict'[c] = IF c \in Doctors THEN evaluate_secure_upstream(TRUE, a) ELSE verdict[c]
         /\ host'[c] = host[c] /\ at'[c] = at[c] /\ elapsed'[c] = elapsed[c]
         /\ dialled'[c] = dialled[c] /\ silent'[c] = silent[c] /\ secure' = secure
BY Fields DEF Returns, Same, lookupVars

\* A server answers, or its tier's cache does.
LEMMA AnsweredLookup ==
  ASSUME TypeOK, NEW c \in Callers, Lookup(c), Returns(c, Chain[at[c]].tier),
         pc[c] = "wait" \/ (pc[c] = "ask" /\ c \in Requests)
  PROVE  Lookup(c)'
<1> DEFINE a == Chain[at[c]].tier
<1>1. a \in Tier /\ a # None /\ at[c] \in 1..6 /\ a = Ladder[at[c]].tier
  BY ServerAsked, NoneAssumption DEF Tier
<1>2. /\ pc'[c] = "done" /\ answer'[c] = a
      /\ verdict'[c] = IF c \in Doctors THEN evaluate_secure_upstream(TRUE, a) ELSE verdict[c]
      /\ host'[c] = host[c] /\ at'[c] = at[c] /\ elapsed'[c] = elapsed[c]
      /\ dialled'[c] = dialled[c] /\ silent'[c] = silent[c] /\ secure' = secure
  BY ReturnsOthers
<1> HIDE DEF a
<1>3. Scoped(c) /\ Scoped(c)' /\ ~Failed(c)'
  BY <1>1, <1>2, WalkIs DEF Lookup, Scoped, Failed
<1>4. Walk(c)'
  BY <1>2, <1>3 DEF Lookup, Walk
<1>5. Told(c)'
  BY <1>2, <1>3 DEF Lookup, Told
<1>6. Judged(c)'
  <2>1. c \in Doctors => pc[c] = "wait"
    BY CallersAssumption
  <2>2. c \in Doctors => dialled[c] = Asked(at[c]) /\ secure
    BY <2>1, WalkIs DEF Lookup, Scoped
  <2>3. QED BY <1>1, <1>2, <2>2 DEF Lookup, Judged
<1>7. QED BY <1>4, <1>5, <1>6 DEF Lookup

\* The OS resolver answers or fails, or the connection's clock runs out.
LEMMA EndedLookup ==
  ASSUME TypeOK, NEW c \in Callers, Lookup(c), NEW a \in {"os", None}, Returns(c, a),
         \/ pc[c] = "os"
         \/ c \in Requests /\ pc[c] = "wait" /\ elapsed[c] = PROBE_TIMEOUT
  PROVE  Lookup(c)'
<1>1. a \notin Tier
  BY NoneAssumption DEF Tier
<1>2. /\ pc'[c] = "done" /\ answer'[c] = a
      /\ verdict'[c] = IF c \in Doctors THEN evaluate_secure_upstream(TRUE, a) ELSE verdict[c]
      /\ host'[c] = host[c] /\ at'[c] = at[c] /\ elapsed'[c] = elapsed[c]
      /\ dialled'[c] = dialled[c] /\ silent'[c] = silent[c] /\ secure' = secure
  BY ReturnsOthers
<1>3. Scoped(c)' = Scoped(c)
  BY <1>2 DEF Scoped
<1>4. Walk(c)'
  BY <1>2, <1>3 DEF Lookup, Walk
<1>5. Told(c)'
  <2>1. Scoped(c) => dialled[c] = Ladder \/ (c \in Requests /\ elapsed[c] = PROBE_TIMEOUT)
    BY DEF Lookup, Walk
  <2>2. QED BY <1>2, <1>3, <2>1 DEF Lookup, Told, Failed
<1>6. Judged(c)'
  <2>1. c \in Doctors => pc[c] = "os"
    BY CallersAssumption
  <2>2. is_scoped_host(UPSTREAM_HOST)
    BY DEF is_scoped_host, UPSTREAM_HOST
  <2>3. c \in Doctors => secure /\ host[c] = UPSTREAM_HOST /\ Scoped(c)
    BY <2>1, <2>2 DEF Lookup, Judged, Scoped
  <2>4. c \in Doctors => dialled[c] = Ladder
    BY <2>1, <2>3 DEF Lookup, Walk
  <2>5. QED BY <1>1, <1>2, <2>3, <2>4 DEF Judged
<1>7. QED BY <1>4, <1>5, <1>6 DEF Lookup

\* A server is asked: it is the next one of the ladder.
LEMMA AskedLookup ==
  ASSUME TypeOK, NEW c \in Callers, Lookup(c), pc[c] = "ask",
         pc' = [pc EXCEPT ![c] = "wait"],
         dialled' = [dialled EXCEPT ![c] = Append(@, Chain[at[c]])],
         UNCHANGED <<secure, host, at, elapsed, answer, verdict, silent>>
  PROVE  Lookup(c)' /\ \A d \in Callers \ {c} : Same(d)
<1>1. /\ \A d \in Callers \ {c} : Same(d)
      /\ pc'[c] = "wait" /\ dialled'[c] = Append(dialled[c], Chain[at[c]])
  BY Fields DEF Same
<1>2. Scoped(c) /\ dialled'[c] = Asked(at[c]) /\ at[c] \in 1..6
  BY <1>1, WalkIs, ServerAsked DEF Lookup
<1>3. Scoped(c)' /\ ~Failed(c)'
  BY <1>1, <1>2 DEF Scoped, Failed
<1>4. Walk(c)'
  BY <1>1, <1>2, <1>3 DEF Walk
<1>5. Told(c)'
  BY <1>3 DEF Lookup, Told
<1>6. Judged(c)'
  BY <1>1, <1>2 DEF Lookup, Judged, Scoped
<1>7. QED BY <1>1, <1>4, <1>5, <1>6 DEF Lookup

\* A server has failed: the next one, or the OS resolver after the sixth.
LEMMA FallenLookup ==
  ASSUME TypeOK, NEW c \in Callers, Lookup(c), pc[c] = "wait", FallsThrough(c)
  PROVE  Lookup(c)' /\ \A d \in Callers \ {c} : Same(d)
<1>1. Scoped(c) /\ dialled[c] = Asked(at[c]) /\ at[c] \in 1..6 /\ secure
  BY WalkIs, ServerAsked DEF Lookup, Scoped
<1>2. CASE at[c] < Len(Chain) /\ AsksNext(c)
  <2>1. /\ \A d \in Callers \ {c} : Same(d)
        /\ pc'[c] = "ask" /\ at'[c] = at[c] + 1 /\ dialled'[c] = dialled[c]
        /\ host'[c] = host[c] /\ secure' = secure
    BY <1>2, Fields DEF AsksNext, Same
  <2>2. dialled'[c] = Asked(at'[c] - 1)
    <3>1. at'[c] - 1 = at[c]
      BY <1>1, <2>1
    <3>2. QED BY <1>1, <2>1, <3>1
  <2>3. Scoped(c)' /\ ~Failed(c)'
    BY <1>1, <2>1 DEF Scoped, Failed
  <2>4. Walk(c)'
    <3>1. at[c] \in 0..7
      BY <1>1
    <3>2. QED BY <1>1, <2>1, <2>2, <2>3, <3>1 DEF Walk
  <2>5. Told(c)'
    BY <1>2, <2>3 DEF Lookup, Told, AsksNext
  <2>6. Judged(c)'
    BY <1>1, <2>1 DEF Lookup, Judged
  <2>7. QED BY <2>1, <2>4, <2>5, <2>6 DEF Lookup
<1>3. CASE ~(at[c] < Len(Chain)) /\ AsksOs(c)
  <2>1. /\ \A d \in Callers \ {c} : Same(d)
        /\ pc'[c] = "os" /\ dialled'[c] = Append(dialled[c], Os)
        /\ host'[c] = host[c] /\ secure' = secure
    BY <1>3, Fields DEF AsksOs, Same
  <2>2. at[c] = 6
    BY <1>1, <1>3, ChainIs
  <2>3. dialled'[c] = Ladder /\ Ladder = Asked(7)
    <3>1. Append(Asked(6), Ladder[7]) = Asked(7)
      BY AskedNext
    <3>2. QED BY <1>1, <2>1, <2>2, <3>1, AskedEnds, LadderIs
  <2>4. Scoped(c)' /\ ~Failed(c)'
    BY <1>1, <2>1 DEF Scoped, Failed
  <2>5. Walk(c)'
    BY <2>1, <2>3, <2>4 DEF Walk
  <2>6. Told(c)'
    BY <1>3, <2>4 DEF Lookup, Told, AsksOs
  <2>7. Judged(c)'
    BY <1>1, <2>1 DEF Lookup, Judged
  <2>8. QED BY <2>1, <2>5, <2>6, <2>7 DEF Lookup
<1>4. QED BY <1>2, <1>3 DEF FallsThrough

LEMMA BegunLookup ==
  ASSUME TypeOK, NEW c \in Callers, NEW h \in Hosts, Begin(c, h)
  PROVE  Lookup(c)' /\ \A d \in Callers \ {c} : Same(d)
<1> DEFINE scoped == secure /\ is_scoped_host(h)
<1>1. \A d \in Callers \ {c} : Same(d)
  BY Fields DEF Begin, Same
<1>2. /\ host'[c] = h /\ at'[c] = 1 /\ elapsed'[c] = 0 /\ secure' = secure
      /\ pc'[c] = (IF scoped THEN "ask" ELSE "os")
      /\ dialled'[c] = (IF scoped THEN <<>> ELSE <<Os>>)
  BY Fields DEF Begin
<1>3. Scoped(c)' = scoped
  BY <1>2 DEF Scoped
<1> HIDE DEF scoped
<1>4. Walk(c)'
  <2>1. CASE scoped
    <3>1. at'[c] - 1 = 0 /\ 0 \in 0..7
      BY <1>2
    <3>2. dialled'[c] = Asked(0) /\ pc'[c] = "ask"
      BY <1>2, <2>1, AskedEnds
    <3>3. QED BY <1>3, <2>1, <3>1, <3>2 DEF Walk
  <2>2. CASE ~scoped
    BY <1>2, <1>3, <2>2 DEF Walk
  <2>3. QED BY <2>1, <2>2
<1>5. Told(c)'
  <2>1. pc'[c] # "done" /\ ~(elapsed'[c] > 0)
    BY <1>2
  <2>2. QED BY <2>1 DEF Told, Failed
<1>6. Judged(c)'
  BY CallersAssumption DEF Begin, Judged
<1>7. QED BY <1>1, <1>4, <1>5, <1>6 DEF Lookup

LEMMA ProbedLookup ==
  ASSUME TypeOK, NEW c \in Callers, Lookup(c), Probe(c)
  PROVE  Lookup(c)' /\ \A d \in Callers \ {c} : Same(d)
<1>1. /\ c \in Doctors /\ dialled[c] = <<>> /\ at[c] = 1 /\ pc[c] = "idle"
      /\ host[c] = UPSTREAM_HOST
  BY DEF Lookup, Judged, Probe
<1>2. /\ \A d \in Callers \ {c} : Same(d)
      /\ host'[c] = UPSTREAM_HOST /\ at'[c] = 1 /\ dialled'[c] = <<>> /\ secure' = secure
      /\ pc'[c] = (IF secure THEN "ask" ELSE "done")
      /\ secure \/ verdict'[c] = evaluate_secure_upstream(FALSE, None)
  BY <1>1, Fields DEF Probe, Same
<1>3. is_scoped_host(UPSTREAM_HOST)
  BY DEF is_scoped_host, UPSTREAM_HOST
<1>4. Scoped(c)' = secure
  BY <1>2, <1>3 DEF Scoped, TypeOK
<1>5. Walk(c)'
  <2>1. at'[c] - 1 = 0 /\ 0 \in 0..7
    BY <1>2
  <2>2. QED BY <1>2, <1>4, <2>1, AskedEnds DEF Walk
<1>6. Told(c)'
  BY <1>2, <1>4 DEF Lookup, Told, Failed, Probe
<1>7. Judged(c)'
  BY <1>2 DEF Judged, evaluate_secure_upstream
<1>8. QED BY <1>2, <1>5, <1>6, <1>7 DEF Lookup

LEMMA UnbuiltLookup ==
  ASSUME TypeOK, NEW c \in Callers, Lookup(c), ProbeUnbuilt(c)
  PROVE  Lookup(c)' /\ \A d \in Callers \ {c} : Same(d)
<1>1. /\ \A d \in Callers \ {c} : Same(d)
      /\ pc'[c] = "unbuilt" /\ host'[c] = host[c] /\ dialled'[c] = dialled[c]
      /\ secure' = secure
  BY Fields DEF ProbeUnbuilt, Same, lookupVars
<1>2. Scoped(c)' = Scoped(c) /\ ~Failed(c)'
  BY <1>1 DEF Scoped, Failed
<1>3. Walk(c)'
  BY <1>1, <1>2 DEF Lookup, Walk
<1>4. Told(c)'
  BY <1>2 DEF Lookup, Told, ProbeUnbuilt, lookupVars
<1>5. Judged(c)'
  BY <1>1 DEF Lookup, Judged
<1>6. QED BY <1>1, <1>3, <1>4, <1>5 DEF Lookup

LEMMA TickedLookup ==
  ASSUME TypeOK, NEW c \in Callers, Lookup(c), Tick(c)
  PROVE  Lookup(c)' /\ \A d \in Callers \ {c} : Same(d)
<1>1. \A d \in Callers \ {c} : Same(d)
  BY Fields DEF Tick, Same
<1>2. silent'[c] = TRUE /\ pc[c] # "done"
  BY Fields DEF Tick
<1>3. UNCHANGED <<secure, pc, host, at, answer, verdict, dialled>>
  BY DEF Tick
<1>4. Scoped(c)' = Scoped(c) /\ ~Failed(c)'
  BY <1>2, <1>3 DEF Scoped, Failed
<1>5. Walk(c)'
  BY <1>3, <1>4 DEF Lookup, Walk
<1>6. Told(c)'
  BY <1>2, <1>4 DEF Told
<1>7. Judged(c)'
  BY <1>3 DEF Lookup, Judged
<1>8. QED BY <1>1, <1>5, <1>6, <1>7 DEF Lookup

(***************************************************************************)
(* The invariant.                                                          *)
(***************************************************************************)
AllLookups == \A c \in Callers : Lookup(c)

LEMMA LookupInit == Init => AllLookups
<1> SUFFICES ASSUME Init, NEW c \in Callers PROVE Lookup(c)
  BY DEF AllLookups
<1>1. /\ pc[c] = "idle" /\ host[c] = UPSTREAM_HOST /\ at[c] = 1 /\ elapsed[c] = 0
      /\ dialled[c] = <<>> /\ secure \in BOOLEAN
  BY DEF Init
<1>2. Walk(c)
  <2>1. 0 \in 0..7
    OBVIOUS
  <2>2. QED BY <1>1, <2>1, AskedEnds DEF Walk
<1>3. Told(c)
  <2>1. ~(elapsed[c] > 0)
    BY <1>1
  <2>2. QED BY <1>1, <2>1 DEF Told, Failed
<1>4. Judged(c)
  BY <1>1 DEF Judged
<1>5. QED BY <1>2, <1>3, <1>4 DEF Lookup

LEMMA Elsewhere ==
  ASSUME AllLookups, NEW c \in Callers, Lookup(c)', \A d \in Callers \ {c} : Same(d)
  PROVE  AllLookups'
<1>1. \A d \in Callers : Lookup(d)'
  BY SameLookup DEF AllLookups
<1>2. QED BY <1>1 DEF AllLookups

LEMMA LookupStep ==
  ASSUME TypeOK, AllLookups, [Next]_vars
  PROVE  AllLookups'
<1>1. ASSUME NEW c \in Callers, NEW h \in Hosts, Begin(c, h) PROVE AllLookups'
  BY <1>1, BegunLookup, Elsewhere
<1>2. ASSUME NEW c \in Callers, Probe(c) PROVE AllLookups'
  BY <1>2, ProbedLookup, Elsewhere DEF AllLookups
<1>3. ASSUME NEW c \in Callers, ProbeUnbuilt(c) PROVE AllLookups'
  BY <1>3, UnbuiltLookup, Elsewhere DEF AllLookups
<1>4. ASSUME NEW c \in Callers, Ask(c) PROVE AllLookups'
  <2>1. Lookup(c) /\ pc[c] = "ask"
    BY <1>4 DEF AllLookups, Ask
  <2>2. CASE Chain[at[c]].tier \in Cache(c) /\ Returns(c, Chain[at[c]].tier)
    <3>1. c \in Requests
      BY <2>2 DEF Cache
    <3>2. Lookup(c)'
      BY <2>1, <2>2, <3>1, AnsweredLookup
    <3>3. QED BY <2>2, <3>2, ReturnsOthers, Elsewhere
  <2>3. CASE /\ pc' = [pc EXCEPT ![c] = "wait"]
             /\ dialled' = [dialled EXCEPT ![c] = Append(@, Chain[at[c]])]
             /\ UNCHANGED <<secure, host, at, elapsed, answer, verdict, silent>>
    <3>1. Lookup(c)' /\ \A d \in Callers \ {c} : Same(d)
      BY <2>1, <2>3, AskedLookup
    <3>2. QED BY <3>1, Elsewhere
  <2>4. QED BY <1>4, <2>2, <2>3 DEF Ask
<1>5. ASSUME NEW c \in Callers, Answers(c) PROVE AllLookups'
  <2>1. Lookup(c) /\ pc[c] = "wait" /\ Returns(c, Chain[at[c]].tier)
    BY <1>5 DEF AllLookups, Answers
  <2>2. Lookup(c)'
    BY <2>1, AnsweredLookup
  <2>3. QED BY <2>1, <2>2, ReturnsOthers, Elsewhere
<1>6. ASSUME NEW c \in Callers, Refuses(c) \/ TierTimeout(c) PROVE AllLookups'
  <2>1. Lookup(c) /\ pc[c] = "wait" /\ FallsThrough(c)
    BY <1>6 DEF AllLookups, Refuses, TierTimeout
  <2>2. QED BY <2>1, FallenLookup, Elsewhere
<1>7. ASSUME NEW c \in Callers, Tick(c) PROVE AllLookups'
  BY <1>7, TickedLookup, Elsewhere DEF AllLookups
<1>8. ASSUME NEW c \in Callers, ConnectTimeout(c) \/ os_resolve(c) PROVE AllLookups'
  <2>1. PICK a \in {"os", None} : Returns(c, a)
    BY <1>8 DEF ConnectTimeout, os_resolve
  <2>2. \/ pc[c] = "os"
        \/ c \in Requests /\ pc[c] = "wait" /\ elapsed[c] = PROBE_TIMEOUT
    BY <1>8 DEF ConnectTimeout, os_resolve
  <2>3. Lookup(c)'
    BY <2>1, <2>2, EndedLookup DEF AllLookups
  <2>4. QED BY <2>1, <2>3, ReturnsOthers, Elsewhere
<1>9. CASE (\E t \in Tier : Expires(t)) \/ UNCHANGED vars
  <2>1. \A d \in Callers : Same(d)
    BY <1>9 DEF Expires, Same, lookupVars, vars
  <2>2. \A d \in Callers : Lookup(d)'
    BY <2>1, SameLookup DEF AllLookups
  <2>3. QED BY <2>2 DEF AllLookups
<1>10. QED
  BY <1>1, <1>2, <1>3, <1>4, <1>5, <1>6, <1>7, <1>8, <1>9 DEF Next, Step

LEMMA AlwaysLookup == Spec => [](TypeOK /\ AllLookups)
BY TypeInit, TypeStep, LookupInit, LookupStep, PTL DEF Spec

(***************************************************************************)
(* The properties.                                                         *)
(***************************************************************************)
\* For any number of concurrent lookups, any timeouts and any behaviour of the servers, a
\* lookup of rpc.dig.net asks the six encrypted servers in order and the OS resolver only
\* after all of them, and no other lookup asks an encrypted server (resolve_with_fallback).
THEOREM LadderInOrder == Spec => []PlaintextIsLast
<1>1. ASSUME AllLookups PROVE PlaintextIsLast
  <2> SUFFICES ASSUME NEW c \in Callers
               PROVE  IF Scoped(c) THEN dialled[c] = SubSeq(Ladder, 1, Len(dialled[c]))
                      ELSE dialled[c] \in {<<>>, <<Os>>}
    BY DEF PlaintextIsLast
  <2>1. Walk(c)
    BY <1>1 DEF AllLookups, Lookup
  <2>2. CASE Scoped(c)
    <3>1. PICK n \in 0..7 : dialled[c] = Asked(n)
      BY <2>1, <2>2 DEF Walk
    <3>2. Len(dialled[c]) = n
      BY <3>1, AskedIs
    <3>3. QED BY <2>2, <3>1, <3>2 DEF Asked
  <2>3. CASE ~Scoped(c)
    BY <2>1, <2>3 DEF Walk
  <2>4. QED BY <2>2, <2>3
<1>2. QED BY <1>1, AlwaysLookup, PTL

\* The doctor's verdict is what happened to its lookup, whatever the service's lookups and
\* caches do meanwhile (probe_secure_upstream, evaluate_secure_upstream).
THEOREM DoctorTells == Spec => []VerdictTrue
<1>1. ASSUME TypeOK, AllLookups PROVE VerdictTrue
  <2> SUFFICES ASSUME NEW c \in Doctors, pc[c] = "done"
      PROVE  CASE verdict[c] = "pass" -> dialled[c] # <<>> /\ LastDialled(c).tier = answer[c]
                                           /\ answer[c] \in Tier
               [] verdict[c] = "warn" -> dialled[c] = Ladder /\ answer[c] = "os"
               [] verdict[c] = "fail" -> dialled[c] = Ladder /\ answer[c] = None
               [] verdict[c] = "info" -> dialled[c] = <<>> /\ ~secure
               [] OTHER -> FALSE
    BY DEF VerdictTrue
  <2>1. c \in Callers /\ Judged(c)
    BY <1>1 DEF Callers, AllLookups, Lookup
  <2>2. CASE ~secure
    <3>1. dialled[c] = <<>> /\ verdict[c] = "info"
      BY <2>1, <2>2 DEF Judged
    <3>2. QED BY <2>2, <3>1
  <2>3. CASE secure
    <3>1. /\ verdict[c] = evaluate_secure_upstream(TRUE, answer[c])
          /\ answer[c] \in Tier => dialled[c] = Asked(at[c]) /\ answer[c] = Ladder[at[c]].tier
          /\ answer[c] \notin Tier => dialled[c] = Ladder
      BY <2>1, <2>3 DEF Judged
    <3>2. answer[c] \in Tier \cup {"os", None} /\ None \notin Tier /\ None # "os"
          /\ "os" \notin Tier
      BY <1>1, <2>1, NoneAssumption DEF TypeOK, Tier
    <3>3. CASE answer[c] \in Tier
      <4>1. verdict[c] = "pass"
        BY <3>1, <3>2, <3>3 DEF evaluate_secure_upstream
      <4>2. at[c] \in 1..6
        BY <1>1, <2>1 DEF TypeOK
      <4>3. Len(dialled[c]) = at[c] /\ dialled[c][at[c]] = Ladder[at[c]]
        <5>1. at[c] \in 0..7 /\ at[c] > 0
          BY <4>2
        <5>2. Len(Asked(at[c])) = at[c] /\ Asked(at[c])[at[c]] = Ladder[at[c]]
          BY <5>1, AskedIs
        <5>3. QED BY <3>1, <3>3, <5>2
      <4>4. LastDialled(c).tier = answer[c]
        BY <3>1, <3>3, <4>3 DEF LastDialled
      <4>5. dialled[c] # <<>>
        BY <4>2, <4>3
      <4>6. QED BY <3>3, <4>1, <4>4, <4>5
    <3>4. CASE answer[c] = "os"
      <4>1. verdict[c] = "warn"
        BY <3>1, <3>2, <3>4 DEF evaluate_secure_upstream
      <4>2. QED BY <3>1, <3>2, <3>4, <4>1
    <3>5. CASE answer[c] = None
      <4>1. verdict[c] = "fail"
        BY <3>1, <3>2, <3>5 DEF evaluate_secure_upstream
      <4>2. QED BY <3>1, <3>2, <3>5, <4>1
    <3>6. QED BY <3>2, <3>3, <3>4, <3>5
  <2>4. secure \in BOOLEAN
    BY <1>1 DEF TypeOK
  <2>5. QED BY <2>2, <2>3, <2>4
<1>2. QED BY <1>1, AlwaysLookup, PTL

\* A lookup of rpc.dig.net fails only when everybody was asked, or when its connection's
\* time ran out behind a silent server: a chain of prompt failures always reaches the OS
\* resolver (resolve_scoped, build_http_client).
THEOREM FailureHasCause == Spec => []FailureExplained
<1>1. ASSUME AllLookups PROVE FailureExplained
  <2> SUFFICES ASSUME NEW c \in Callers, Failed(c)
      PROVE  dialled[c] = Ladder \/ (c \in Requests /\ silent[c] /\ elapsed[c] = PROBE_TIMEOUT)
    BY DEF FailureExplained
  <2>1. Told(c)
    BY <1>1 DEF AllLookups, Lookup
  <2>2. elapsed[c] = PROBE_TIMEOUT => elapsed[c] > 0
    BY TimeoutAssumption
  <2>3. QED BY <2>1, <2>2 DEF Told
<1>2. QED BY <1>1, AlwaysLookup, PTL

(***************************************************************************)
(* How much of a lookup is left.                                           *)
(***************************************************************************)
\* The steps it takes, at most, to go down the ladder from the n-th server on: each is
\* asked, may be silent for as long as its timeout, and fails.
Rung(n) == (7 - n) * (TIER_TIMEOUT + 2)

\* The steps of the OS resolver: the seconds the connection has left, and its answer.
AtOs(c) == PROBE_TIMEOUT - elapsed[c] + 1

Left(c) ==
  CASE pc[c] = "ask" -> Rung(at[c]) + AtOs(c)
    [] pc[c] = "wait" -> Rung(at[c]) - 1 - waited[c] + AtOs(c)
    [] pc[c] = "os" -> AtOs(c)
    [] OTHER -> 0

\* A lookup has a bounded number of steps.
LeftInv == \A c \in Callers : Left(c) \in 0..6 * (TIER_TIMEOUT + 2) + PROBE_TIMEOUT + 1

\* A step of a lookup leaves it less to do; the other lookups, and the caches' expiry,
\* give it no more.
Descends ==
  \A c \in Callers :
    /\ Step(c) => Left(c)' < Left(c)
    /\ pc[c] \notin {"idle", "done"} => Left(c)' <= Left(c)

LEMMA RungIs ==
  ASSUME NEW n \in 1..6
  PROVE  /\ Rung(n) \in Nat
         /\ Rung(n) >= TIER_TIMEOUT + 2 /\ Rung(n) <= 6 * (TIER_TIMEOUT + 2)
         /\ n < 6 => Rung(n + 1) = Rung(n) - TIER_TIMEOUT - 2
<1>1. TIER_TIMEOUT \in Nat
  BY TimeoutAssumption
<1>2. n = 1 \/ n = 2 \/ n = 3 \/ n = 4 \/ n = 5 \/ n = 6
  OBVIOUS
<1>3. QED BY <1>1, <1>2 DEF Rung

LEMMA LeftIs ==
  ASSUME TypeOK, NEW c \in Callers
  PROVE  /\ Left(c) \in 0..6 * (TIER_TIMEOUT + 2) + PROBE_TIMEOUT + 1
         /\ pc[c] \in {"ask", "wait", "os"} => Left(c) > 0
<1>1. /\ at[c] \in 1..6 /\ waited[c] \in 0..TIER_TIMEOUT /\ elapsed[c] \in 0..PROBE_TIMEOUT
      /\ TIER_TIMEOUT \in Nat /\ PROBE_TIMEOUT \in Nat
  BY TimeoutAssumption DEF TypeOK
<1>2. /\ Rung(at[c]) \in Nat
      /\ Rung(at[c]) >= TIER_TIMEOUT + 2 /\ Rung(at[c]) <= 6 * (TIER_TIMEOUT + 2)
  BY <1>1, RungIs
<1>3. QED BY <1>1, <1>2 DEF Left, AtOs

\* The step of the lookup itself.
LEMMA LeftStep ==
  ASSUME TypeOK, TypeOK', NEW c \in Callers, Step(c)
  PROVE  /\ Left(c)' < Left(c) /\ pc[c] \in {"ask", "wait", "os"}
         /\ \A d \in Callers \ {c} : Left(d)' = Left(d) /\ pc'[d] = pc[d]
<1>1. /\ at[c] \in 1..6 /\ waited[c] \in 0..TIER_TIMEOUT /\ elapsed[c] \in 0..PROBE_TIMEOUT
      /\ TIER_TIMEOUT \in Nat /\ PROBE_TIMEOUT \in Nat
  BY TimeoutAssumption DEF TypeOK
<1>2. /\ Rung(at[c]) \in Nat /\ Rung(at[c]) >= TIER_TIMEOUT + 2
      /\ at[c] < 6 => Rung(at[c] + 1) = Rung(at[c]) - TIER_TIMEOUT - 2
  BY <1>1, RungIs
<1>3. ASSUME NEW a, Returns(c, a), pc[c] \in {"ask", "wait", "os"}
      PROVE  Left(c)' < Left(c)
  <2>1. pc'[c] = "done"
    BY <1>3, Fields DEF Returns
  <2>2. Left(c)' = 0
    BY <2>1 DEF Left
  <2>3. Left(c) \in Int /\ Left(c) > 0
    BY <1>1, <1>3, LeftIs
  <2>4. QED BY <2>2, <2>3
<1>4. ASSUME pc'[c] = "wait", pc[c] = "ask", at'[c] = at[c], elapsed'[c] = elapsed[c],
             waited'[c] = 0
      PROVE  Left(c)' < Left(c)
  BY <1>1, <1>2, <1>4 DEF Left, AtOs
<1>5. ASSUME pc[c] = "wait", FallsThrough(c)
      PROVE  Left(c)' < Left(c)
  <2>1. CASE at[c] < 6 /\ AsksNext(c)
    <3>1. pc'[c] = "ask" /\ at'[c] = at[c] + 1 /\ elapsed'[c] = elapsed[c]
      BY <2>1, Fields DEF AsksNext
    <3>2. QED BY <1>1, <1>2, <1>5, <2>1, <3>1 DEF Left, AtOs
  <2>2. CASE AsksOs(c)
    <3>1. pc'[c] = "os" /\ elapsed'[c] = elapsed[c]
      BY <2>2, Fields DEF AsksOs
    <3>2. QED BY <1>1, <1>2, <1>5, <3>1 DEF Left, AtOs
  <2>3. QED BY <1>5, <2>1, <2>2, ChainIs DEF FallsThrough
<1>6. ASSUME Tick(c)
      PROVE  Left(c)' < Left(c) /\ pc[c] \in {"wait", "os"}
  <2>1. /\ pc'[c] = pc[c] /\ at'[c] = at[c] /\ pc[c] \in {"wait", "os"}
        /\ \/ elapsed'[c] = elapsed[c] + 1
           \/ elapsed'[c] = elapsed[c] /\ pc[c] = "wait"
        /\ waited'[c] = IF pc[c] = "wait" THEN waited[c] + 1 ELSE waited[c]
    BY <1>6, Fields DEF Tick
  <2>2. QED BY <1>1, <1>2, <2>1 DEF Left, AtOs
<1>7. Left(c)' < Left(c) /\ pc[c] \in {"ask", "wait", "os"}
  <2>1. CASE Ask(c)
    <3>1. pc[c] = "ask"
      BY <2>1 DEF Ask
    <3>2. CASE Returns(c, Chain[at[c]].tier)
      BY <1>3, <3>1, <3>2
    <3>3. CASE /\ pc' = [pc EXCEPT ![c] = "wait"]
               /\ waited' = [waited EXCEPT ![c] = 0]
               /\ UNCHANGED <<at, elapsed>>
      <4>1. pc'[c] = "wait" /\ waited'[c] = 0 /\ at'[c] = at[c] /\ elapsed'[c] = elapsed[c]
        BY <3>3, Fields
      <4>2. QED BY <1>4, <3>1, <4>1
    <3>4. QED BY <2>1, <3>1, <3>2, <3>3 DEF Ask
  <2>2. CASE Answers(c)
    BY <1>3, <2>2 DEF Answers
  <2>3. CASE Refuses(c) \/ TierTimeout(c)
    BY <1>5, <2>3 DEF Refuses, TierTimeout
  <2>4. CASE Tick(c)
    BY <1>6, <2>4
  <2>5. CASE ConnectTimeout(c) \/ os_resolve(c)
    BY <1>3, <2>5 DEF ConnectTimeout, os_resolve
  <2>6. QED BY <2>1, <2>2, <2>3, <2>4, <2>5 DEF Step
<1>8. ASSUME NEW d \in Callers \ {c}
      PROVE  Left(d)' = Left(d) /\ pc'[d] = pc[d]
  <2>1. pc'[d] = pc[d] /\ at'[d] = at[d] /\ waited'[d] = waited[d] /\ elapsed'[d] = elapsed[d]
    <3>1. CASE Ask(c)
      BY <3>1, Fields DEF Ask, Returns, lookupVars
    <3>2. CASE Answers(c) \/ ConnectTimeout(c) \/ os_resolve(c)
      BY <3>2, Fields DEF Answers, ConnectTimeout, os_resolve, Returns, lookupVars
    <3>3. CASE Refuses(c) \/ TierTimeout(c)
      BY <3>3, Fields DEF Refuses, TierTimeout, FallsThrough, AsksNext, AsksOs
    <3>4. CASE Tick(c)
      BY <3>4, Fields DEF Tick
    <3>5. QED BY <3>1, <3>2, <3>3, <3>4 DEF Step
  <2>2. QED BY <2>1 DEF Left, AtOs
<1>9. QED BY <1>7, <1>8

\* A step that is no lookup's own: one begins, or an answer expires.
LEMMA LeftOther ==
  ASSUME TypeOK, NEW d \in Callers, pc[d] \notin {"idle", "done"},
         \/ \E c \in Callers, h \in Hosts : Begin(c, h)
         \/ \E c \in Callers : Probe(c) \/ ProbeUnbuilt(c)
         \/ \E t \in Tier : Expires(t)
         \/ UNCHANGED vars
  PROVE  Left(d)' = Left(d)
<1>1. pc'[d] = pc[d] /\ at'[d] = at[d] /\ waited'[d] = waited[d] /\ elapsed'[d] = elapsed[d]
  <2>1. ASSUME NEW c \in Callers, NEW h \in Hosts, Begin(c, h)
        PROVE  pc'[d] = pc[d] /\ at'[d] = at[d] /\ waited'[d] = waited[d]
                 /\ elapsed'[d] = elapsed[d]
    BY <2>1, Fields DEF Begin
  <2>2. ASSUME NEW c \in Callers, Probe(c) \/ ProbeUnbuilt(c)
        PROVE  pc'[d] = pc[d] /\ at'[d] = at[d] /\ waited'[d] = waited[d]
                 /\ elapsed'[d] = elapsed[d]
    BY <2>2, Fields DEF Probe, ProbeUnbuilt, lookupVars
  <2>3. ((\E t \in Tier : Expires(t)) \/ UNCHANGED vars) =>
          pc'[d] = pc[d] /\ at'[d] = at[d] /\ waited'[d] = waited[d] /\ elapsed'[d] = elapsed[d]
    BY DEF Expires, lookupVars, vars
  <2>4. QED BY <2>1, <2>2, <2>3
<1>2. QED BY <1>1 DEF Left, AtOs

\* Each step of a lookup, a second of silence included, uses up one of at most
\* 6 * (TIER_TIMEOUT + 2) + PROBE_TIMEOUT + 1, whoever is silent and whatever the other
\* lookups do: the timeout of a server and the single attempt bound the doctor's lookup,
\* which has no deadline of its own.  EveryLookupEnds rests on this.
\* (build_tier_resolver, build_http_client)
THEOREM LookupsDescend == Spec => []LeftInv /\ [][Descends]_vars
<1>1. TypeOK => LeftInv
  BY LeftIs DEF LeftInv
<1>2. TypeOK /\ TypeOK' /\ [Next]_vars => Descends
  <2> SUFFICES ASSUME TypeOK, TypeOK', [Next]_vars, NEW c \in Callers
               PROVE  /\ Step(c) => Left(c)' < Left(c)
                      /\ pc[c] \notin {"idle", "done"} => Left(c)' <= Left(c)
    BY DEF Descends
  <2>1. Left(c) \in Int
    BY LeftIs, TimeoutAssumption
  <2>2. CASE Step(c)
    <3>1. Left(c)' < Left(c)
      BY <2>2, LeftStep
    <3>2. Left(c)' \in Int
      <4>1. /\ at'[c] \in 1..6 /\ waited'[c] \in 0..TIER_TIMEOUT
            /\ elapsed'[c] \in 0..PROBE_TIMEOUT /\ TIER_TIMEOUT \in Nat /\ PROBE_TIMEOUT \in Nat
        BY TimeoutAssumption DEF TypeOK
      <4>2. Rung(at'[c]) \in Nat
        BY <4>1, RungIs
      <4>3. QED BY <4>1, <4>2 DEF Left, AtOs
    <3>3. QED BY <2>1, <3>1, <3>2
  <2>3. CASE ~Step(c)
    <3>1. ASSUME pc[c] \notin {"idle", "done"} PROVE Left(c)' = Left(c)
      <4>1. ASSUME NEW d \in Callers, Step(d) PROVE Left(c)' = Left(c)
        BY <2>3, <4>1, LeftStep
      <4>2. QED BY <3>1, <4>1, LeftOther DEF Next
    <3>2. QED BY <2>1, <2>3, <3>1
  <2>4. QED BY <2>2, <2>3
<1>3. QED BY <1>1, <1>2, LookupTypes, PTL DEF Spec
=============================================================================
