------------------------------ MODULE Upstream ------------------------------
(***************************************************************************)
(* The lookup of rpc.dig.net (secure_dns.rs): a ladder of encrypted DNS    *)
(* servers with the operating system's resolver below it, walked by the    *)
(* HTTP client of the service (transport.rs), which gives a connection a   *)
(* deadline that the lookup is part of, and by the doctor (doctor.rs),     *)
(* which has none.                                                         *)
(*                                                                         *)
(* The servers, the resolver library and the OS resolver are external.  A  *)
(* server that is asked answers, fails at once (refusal, TLS failure, no   *)
(* address) or stays silent; time passes in seconds while it is silent.    *)
(* The library's queries for the two address families are one query here,  *)
(* so a silent server costs what its timeout says and never more.          *)
(***************************************************************************)
EXTENDS Integers, Sequences

CONSTANTS
  Requests,        \* lookups made for a connection of the service's HTTP client
  Doctors,         \* lookups made by the doctor
  None,            \* nobody answered, no verdict
  TIER_TIMEOUT,    \* how long a server may stay silent
  PROBE_TIMEOUT    \* how long a connection may take, its lookup included

ASSUME CallersAssumption == Requests \cap Doctors = {}
ASSUME TimeoutAssumption == TIER_TIMEOUT \in Nat \ {0} /\ PROBE_TIMEOUT \in Nat \ {0}
ASSUME NoneAssumption == None \notin {"MullvadDoh", "MullvadDot", "Quad9Dot", "os"}

Callers == Requests \cup Doctors

Tier == {"MullvadDoh", "MullvadDot", "Quad9Dot"}
Family == {"ipv6", "ipv4"}
Server == [tier : Tier, family : Family]
Os == [tier |-> "os", family |-> "any"]

\* The two servers of a tier, in the order they are tried.
provider_name_servers(t) == <<[tier |-> t, family |-> "ipv6"], [tier |-> t, family |-> "ipv4"]>>

PROVIDER_CHAIN == <<"MullvadDoh", "MullvadDot", "Quad9Dot">>

\* Every server, in the order resolve_with_fallback and the tiers' resolvers ask them.
Chain ==
  provider_name_servers(PROVIDER_CHAIN[1]) \o provider_name_servers(PROVIDER_CHAIN[2])
    \o provider_name_servers(PROVIDER_CHAIN[3])

\* Names a client resolves: the public gateway however it is spelled, a name that only
\* contains it, and a local one.
Hosts == {"rpc.dig.net", "RPC.DIG.NET.", "rpc.dig.net.example", "dig.local"}
UPSTREAM_HOST == "rpc.dig.net"

is_scoped_host(h) == h \in {"rpc.dig.net", "RPC.DIG.NET."}

VARIABLES
  secure,    \* config.secure_upstream
  pc,        \* of a lookup: "idle", "ask" a server, "wait" for it, "os", "done"
  host,      \* the name it is for
  at,        \* the place in Chain of the server it asks
  waited,    \* seconds that server has been silent
  elapsed,   \* seconds since its connection began
  answer,    \* who answered: a tier, "os", or None
  verdict,   \* the doctor's check
  cached,    \* tiers whose resolver, in the service, holds an answer still in its TTL
  dialled,   \* history: the servers this lookup asked
  silent     \* history: whether one of them kept it waiting

lookupVars == <<host, at, waited, elapsed, dialled, silent>>
vars == <<secure, pc, host, at, waited, elapsed, answer, verdict, cached, dialled, silent>>

-----------------------------------------------------------------------------
(* doctor.rs *)

\* The check's status: what answered, or that nothing did.
evaluate_secure_upstream(enabled, a) ==
  IF ~enabled THEN "info"
  ELSE IF a = None THEN "fail"
  ELSE IF a \in Tier THEN "pass"
  ELSE "warn"

-----------------------------------------------------------------------------
(* One lookup. *)

\* Variant: the doctor is told of the last tier tried, whoever answered.
ReturnsLastTier(c, a) ==
  /\ pc' = [pc EXCEPT ![c] = "done"]
  /\ answer' = [answer EXCEPT ![c] = a]
  /\ verdict' = [verdict EXCEPT ![c] = IF c \in Doctors
                                       THEN evaluate_secure_upstream(TRUE, Chain[at[c]].tier)
                                       ELSE @]
  /\ UNCHANGED <<secure, lookupVars>>

\* The lookup is over: answered by a, or failed.  The doctor reports it.
Returns(c, a) ==
  /\ pc' = [pc EXCEPT ![c] = "done"]
  /\ answer' = [answer EXCEPT ![c] = a]
  /\ verdict' = [verdict EXCEPT ![c] = IF c \in Doctors
                                       THEN evaluate_secure_upstream(TRUE, a) ELSE @]
  /\ UNCHANGED <<secure, lookupVars>>

\* Resolve::resolve, reached only through a client built with the resolver
\* (with_secure_upstream): the one scoped name takes the chain.
Begin(c, h) ==
  /\ c \in Requests /\ pc[c] \in {"idle", "done"}
  /\ host' = [host EXCEPT ![c] = h]
  /\ pc' = [pc EXCEPT ![c] = IF secure /\ is_scoped_host(h) THEN "ask" ELSE "os"]
  /\ at' = [at EXCEPT ![c] = 1]
  /\ waited' = [waited EXCEPT ![c] = 0]
  /\ elapsed' = [elapsed EXCEPT ![c] = 0]
  /\ answer' = [answer EXCEPT ![c] = None]
  /\ dialled' = [dialled EXCEPT ![c] = IF secure /\ is_scoped_host(h) THEN <<>> ELSE <<Os>>]
  /\ silent' = [silent EXCEPT ![c] = FALSE]
  /\ UNCHANGED <<secure, verdict, cached>>

\* probe_secure_upstream: with the feature off nothing is resolved.
Probe(c) ==
  /\ c \in Doctors /\ pc[c] = "idle"
  /\ host' = [host EXCEPT ![c] = UPSTREAM_HOST]
  /\ pc' = [pc EXCEPT ![c] = IF secure THEN "ask" ELSE "done"]
  /\ verdict' = [verdict EXCEPT ![c] = IF secure THEN @
                                       ELSE evaluate_secure_upstream(FALSE, None)]
  /\ UNCHANGED <<secure, at, waited, elapsed, answer, cached, dialled, silent>>

\* Its own resolver cannot be built.
ProbeUnbuilt(c) ==
  /\ c \in Doctors /\ pc[c] = "idle" /\ secure
  /\ pc' = [pc EXCEPT ![c] = "unbuilt"]
  /\ verdict' = [verdict EXCEPT ![c] = evaluate_secure_upstream(TRUE, None)]
  /\ UNCHANGED <<secure, answer, cached, lookupVars>>

\* The doctor's resolver is new, the service's lives as long as its client.
Cache(c) == IF c \in Requests THEN cached ELSE {}

\* A tier's resolver answers from its cache, which it looks at once, or asks its server.
Ask(c) ==
  /\ pc[c] = "ask"
  /\ UNCHANGED cached
  /\ IF Chain[at[c]].family = "ipv6" /\ Chain[at[c]].tier \in Cache(c)
     THEN Returns(c, Chain[at[c]].tier)
     ELSE /\ pc' = [pc EXCEPT ![c] = "wait"]
          /\ waited' = [waited EXCEPT ![c] = 0]
          /\ dialled' = [dialled EXCEPT ![c] = Append(@, Chain[at[c]])]
          /\ UNCHANGED <<secure, host, at, elapsed, answer, verdict, silent>>

Answers(c) ==
  /\ pc[c] = "wait"
  /\ Returns(c, Chain[at[c]].tier)
  /\ cached' = IF c \in Requests THEN cached \cup {Chain[at[c]].tier} ELSE cached

AsksNext(c) ==
  /\ at' = [at EXCEPT ![c] = @ + 1]
  /\ pc' = [pc EXCEPT ![c] = "ask"]
  /\ UNCHANGED <<secure, host, waited, elapsed, answer, verdict, cached, dialled, silent>>

AsksOs(c) ==
  /\ pc' = [pc EXCEPT ![c] = "os"]
  /\ dialled' = [dialled EXCEPT ![c] = Append(@, Os)]
  /\ UNCHANGED <<secure, host, at, waited, elapsed, answer, verdict, cached, silent>>

\* Variant: one server too many.
FallsThroughPastEnd(c) == IF at[c] <= Len(Chain) THEN AsksNext(c) ELSE AsksOs(c)

\* Variant: a lookup whose encrypted tiers all failed fails, without the OS resolver.
FallsThroughNoNet(c) ==
  IF at[c] < Len(Chain) THEN AsksNext(c) ELSE Returns(c, None) /\ UNCHANGED cached

\* Variant: the OS resolver is asked as soon as one tier has failed.
FallsThroughEarly(c) == IF Chain[at[c]].family = "ipv6" THEN AsksNext(c) ELSE AsksOs(c)

\* Variant: a chain that failed is walked again.
FallsThroughRound(c) ==
  IF at[c] < Len(Chain) THEN AsksNext(c)
  ELSE /\ at' = [at EXCEPT ![c] = 1]
       /\ pc' = [pc EXCEPT ![c] = "ask"]
       /\ dialled' = [dialled EXCEPT ![c] = <<>>]
       /\ UNCHANGED <<secure, host, waited, elapsed, answer, verdict, cached, silent>>

\* The next server, then the next tier, then the OS resolver.
FallsThrough(c) == IF at[c] < Len(Chain) THEN AsksNext(c) ELSE AsksOs(c)

\* Refused, unreachable, malformed, or no address.
Refuses(c) == pc[c] = "wait" /\ FallsThrough(c)

TierTimeout(c) == pc[c] = "wait" /\ waited[c] = TIER_TIMEOUT /\ FallsThrough(c)

\* A second without an answer: the connection's clock runs beside the server's.
Tick(c) ==
  /\ pc[c] \in {"wait", "os"}
  /\ pc[c] = "wait" => waited[c] < TIER_TIMEOUT
  /\ IF c \in Requests
     THEN elapsed[c] < PROBE_TIMEOUT /\ elapsed' = [elapsed EXCEPT ![c] = @ + 1]
     ELSE pc[c] = "wait" /\ UNCHANGED elapsed
  /\ waited' = [waited EXCEPT ![c] = IF pc[c] = "wait" THEN @ + 1 ELSE @]
  /\ silent' = [silent EXCEPT ![c] = TRUE]
  /\ UNCHANGED <<secure, pc, host, at, answer, verdict, cached, dialled>>

\* connect_timeout, and the total timeout of a probe: the lookup is dropped where it is.
ConnectTimeout(c) ==
  /\ c \in Requests /\ pc[c] \in {"wait", "os"} /\ elapsed[c] = PROBE_TIMEOUT
  /\ Returns(c, None)
  /\ UNCHANGED cached

\* os_resolve: an empty answer is an error.
os_resolve(c) ==
  /\ pc[c] = "os"
  /\ \E a \in {"os", None} : Returns(c, a)
  /\ UNCHANGED cached

Expires(t) ==
  /\ t \in cached
  /\ cached' = cached \ {t}
  /\ UNCHANGED <<secure, pc, answer, verdict, lookupVars>>

-----------------------------------------------------------------------------
Init ==
  /\ secure \in BOOLEAN
  /\ pc = [c \in Callers |-> "idle"]
  /\ host = [c \in Callers |-> UPSTREAM_HOST]
  /\ at = [c \in Callers |-> 1]
  /\ waited = [c \in Callers |-> 0]
  /\ elapsed = [c \in Callers |-> 0]
  /\ answer = [c \in Callers |-> None]
  /\ verdict = [c \in Callers |-> None]
  /\ cached = {}
  /\ dialled = [c \in Callers |-> <<>>]
  /\ silent = [c \in Callers |-> FALSE]

Step(c) ==
  \/ Ask(c)
  \/ Answers(c)
  \/ Refuses(c)
  \/ TierTimeout(c)
  \/ Tick(c)
  \/ ConnectTimeout(c)
  \/ os_resolve(c)

Next ==
  \/ \E c \in Callers, h \in Hosts : Begin(c, h)
  \/ \E c \in Callers : Probe(c)
  \/ \E c \in Callers : ProbeUnbuilt(c)
  \/ \E c \in Callers : Step(c)
  \/ \E t \in Tier : Expires(t)

Spec == Init /\ [][Next]_vars

\* Clocks run, the library's and the client's timers fire, and getaddrinfo returns.
FairSpec == Spec /\ \A c \in Callers : WF_vars(Step(c))

-----------------------------------------------------------------------------
\* Type invariant of the lookups.
TypeOK ==
  /\ secure \in BOOLEAN
  /\ pc \in [Callers -> {"idle", "ask", "wait", "os", "done", "unbuilt"}]
  /\ host \in [Callers -> Hosts]
  /\ at \in [Callers -> 1 .. 6]
  /\ waited \in [Callers -> 0 .. TIER_TIMEOUT]
  /\ elapsed \in [Callers -> 0 .. PROBE_TIMEOUT]
  /\ answer \in [Callers -> Tier \cup {"os", None}]
  /\ verdict \in [Callers -> {None, "info", "pass", "warn", "fail"}]
  /\ cached \subseteq Tier
  /\ dialled \in [Callers -> Seq(Server \cup {Os})]
  /\ silent \in [Callers -> BOOLEAN]

Ladder ==
  <<[tier |-> "MullvadDoh", family |-> "ipv6"], [tier |-> "MullvadDoh", family |-> "ipv4"],
    [tier |-> "MullvadDot", family |-> "ipv6"], [tier |-> "MullvadDot", family |-> "ipv4"],
    [tier |-> "Quad9Dot", family |-> "ipv6"], [tier |-> "Quad9Dot", family |-> "ipv4"], Os>>

Scoped(c) == secure /\ is_scoped_host(host[c])

\* Every lookup asks the servers in the documented order, IPv6 first, none twice and none
\* left out, whatever the caches hold and however the earlier ones failed; the plaintext
\* lookup of rpc.dig.net comes only after all six; and no other name, and no lookup with
\* the feature off, asks an encrypted server.  (resolve_with_fallback, resolve_scoped)
PlaintextIsLast ==
  \A c \in Callers :
    IF Scoped(c) THEN dialled[c] = SubSeq(Ladder, 1, Len(dialled[c]))
    ELSE dialled[c] \in {<<>>, <<Os>>}

LastDialled(c) == dialled[c][Len(dialled[c])]

\* The doctor's secure_upstream check is what happened to its lookup: "pass" when the last
\* server it asked is the one that answered, "warn" when all six failed and the address
\* came in plaintext, "fail" when the OS resolver failed too, "info" when nothing was asked
\* of anyone.  (probe_secure_upstream, evaluate_secure_upstream)
VerdictTrue ==
  \A c \in Doctors :
    pc[c] = "done" =>
      CASE verdict[c] = "pass" -> dialled[c] # <<>> /\ LastDialled(c).tier = answer[c]
                                    /\ answer[c] \in Tier
        [] verdict[c] = "warn" -> dialled[c] = Ladder /\ answer[c] = "os"
        [] verdict[c] = "fail" -> dialled[c] = Ladder /\ answer[c] = None
        [] verdict[c] = "info" -> dialled[c] = <<>> /\ ~secure
        [] OTHER -> FALSE

Failed(c) == pc[c] = "done" /\ answer[c] = None /\ Scoped(c)

\* Why a lookup of rpc.dig.net fails: every server was asked and then the OS resolver
\* failed, or it belonged to a connection whose time ran out while somebody was silent.
\* Prompt failures alone never keep a lookup from the OS resolver, and the doctor always
\* gets there.  (resolve_scoped, build_http_client)
FailureExplained ==
  \A c \in Callers :
    Failed(c) =>
      dialled[c] = Ladder \/ (c \in Requests /\ silent[c] /\ elapsed[c] = PROBE_TIMEOUT)

\* Every lookup ends, however many servers stay silent.  (build_tier_resolver: the timeout
\* and the single attempt; build_http_client)
EveryLookupEnds == \A c \in Callers : pc[c] \in {"ask", "os"} ~> pc[c] = "done"

\* SPEC 6.4, of the encrypted tiers: "A tier is skipped on ANY failure (timeout, refusal,
\* malformed answer) and the NEXT tier is tried": a lookup that failed has tried them all.
NextTierIsTried == \A c \in Callers : Failed(c) => dialled[c] = Ladder
=============================================================================
