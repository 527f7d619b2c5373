------------------------------ MODULE Gateway ------------------------------
(***************************************************************************)
(* The HTTP gateway (gateway.rs) over the node client (transport.rs):      *)
(* connections serving requests concurrently, each request a sequence of   *)
(* segments between awaits, against a dig-node that answers JSON-RPC calls *)
(* while the chain anchors new roots and the node fetches resources.       *)
(*                                                                         *)
(* A step of a connection is what `handle` runs from one await to the      *)
(* next; an await on the node is one step, the moment the node answers.    *)
(* The node is external.  With NodeHonest it answers as the read contract  *)
(* says and its resource set only grows; otherwise it answers anything in  *)
(* FaultyRoots, FaultyWindows and Errors.                                  *)
(***************************************************************************)
EXTENDS Content, ByteRange

CONSTANTS
  Conns,                \* the connections being served
  MaxRequests,          \* bound: requests per connection
  Requests,             \* the requests clients may send
  Lens,                 \* the chunk_lens arrays a node may send
  History,              \* History[s]: the roots of store s, in anchoring order
  InitHeld,             \* the resources the node holds at the start
  WindowSize,           \* bytes per window of an honest node
  MAX_CONTENT_WINDOWS,  \* transport.rs: 100_000; a small one for TLC
  NodeHonest,           \* whether the node follows the read contract
  FaultyRoots, FaultyWindows  \* what a misbehaving node may answer

Keys == {resource_key_for_path(q.path) : q \in Requests} \cup {IndexKey}

Proof == [decodes : BOOLEAN, leaf : Seq(Byte), root : Id]

Window == [bytes : Seq(Byte) \cup {None}, complete : BOOLEAN, next : Nat \cup {None},
           proof : Proof \cup {None}, lens : Lens \cup {None}, root : Id \cup {None}]

Host == [labels : Seq(STRING), tld : BOOLEAN, dots : Nat, port : BOOLEAN]

Request == [method : {"GET", "HEAD", "POST", "CONNECT"}, proxy : BOOLEAN,
            host : Host, path : Seq(STRING), range : Header]

ASSUME RequestsAssumption ==
  Requests # {} /\ Requests \subseteq Request /\ \A q \in Requests : q.path # <<>>
ASSUME HistoryAssumption == \A s \in DOMAIN History : s \in Id /\ History[s] \in Seq(Id)
ASSUME BoundsAssumption ==
  /\ MaxRequests \in Nat /\ MAX_CONTENT_WINDOWS \in Nat /\ WindowSize \in Nat \ {0}
  /\ NodeHonest \in BOOLEAN
ASSUME NodeAssumption ==
  /\ InitHeld \subseteq Docs /\ Lens \subseteq Seq(Nat)
  /\ FaultyRoots \subseteq Id \cup {None} /\ FaultyWindows \subseteq Window
  /\ \A d \in Docs : ChunkLens(d) \in Lens

\* A field that is absent is none of the values it can have.
ASSUME AbsentAssumption == None \notin Proof /\ None \notin Lens /\ None \notin Seq(Byte)

\* AES-GCM-SIV and the merkle tree bind: committed bytes that open under the key of
\* (s, k), however they are cut, are the resource k of s under that root.
ASSUME BindingAssumption ==
  \A d \in Docs, lens \in Lens, s \in Id, k \in Keys :
    LET r == verify_and_decrypt(s, k, d.ct, [decodes |-> TRUE, leaf |-> d.ct, root |-> d.root],
                                d.root, lens)
    IN  r.err = "none" =>
          \E e \in Docs : e.store = s /\ e.key = k /\ e.root = d.root /\ e.pt = r.pt

\* A tree is built from a map of keys to resources: it has one resource for a key.
ASSUME OneResourceAssumption ==
  \A d, e \in Docs : d.store = e.store /\ d.root = e.root /\ d.key = e.key => d = e

VARIABLES
  pc,        \* where each connection's request stands
  req,       \* the request
  trusted,   \* trusted_root, once known
  job,       \* get_content: key, whether it is the SPA fallback, windows, offset
  fetched,   \* the Fetched outcome of fetch_and_decrypt
  resp,      \* the GatewayResponse
  sent,      \* requests received so far on each connection
  anchored,  \* chain: how many roots of each store are anchored
  held,      \* node: the resources it holds
  up,        \* node: whether it answers HTTP at all
  hist,      \* history, per request: what the properties compare with
  cached     \* history: the bodies clients were told to keep for ever

connVars == <<pc, req, trusted, job, fetched, resp, sent>>
nodeVars == <<anchored, held, up>>
vars == <<pc, req, trusted, job, fetched, resp, sent, anchored, held, up, hist, cached>>

(***************************************************************************)
(* The node (external): what a call may be answered with.                  *)
(***************************************************************************)
Stores == DOMAIN History
Errors == {"Transport", "Malformed", "RESOURCE_UNAVAILABLE", "ROOT_NOT_ANCHORED", "OTHER_RPC"}

Error(e) == [tag |-> "error", code |-> e]
RootIs(r) == [tag |-> "root", root |-> r]
WindowIs(w) == [tag |-> "window", window |-> w]

AnchoredRoots(s) == IF s \in Stores THEN {History[s][i] : i \in 1 .. anchored[s]} ELSE {}

RootAnswers(s) ==
  IF ~NodeHonest
  THEN {Error(e) : e \in Errors} \cup {RootIs(r) : r \in FaultyRoots}
  ELSE IF ~up THEN {Error("Transport")}
  ELSE IF AnchoredRoots(s) = {} THEN {Error("ROOT_NOT_ANCHORED")}
  ELSE {RootIs(History[s][anchored[s]])}

\* The window of resource d at an offset; the first one carries the proof.
HonestWindow(d, off) ==
  [bytes |-> SubSeq(d.ct, off + 1, MinOf(off + WindowSize, Len(d.ct))),
   complete |-> off + WindowSize >= Len(d.ct),
   next |-> IF off + WindowSize >= Len(d.ct) THEN None ELSE off + WindowSize,
   proof |-> IF off = 0 THEN [decodes |-> TRUE, leaf |-> d.ct, root |-> d.root] ELSE None,
   lens |-> IF off = 0 THEN ChunkLens(d) ELSE None,
   root |-> d.root]

\* An honest node serves what it holds; for an unknown key it reports the miss or
\* serves a decoy, another resource of the same root that the key cannot open.
ContentAnswers(s, k, root, off) ==
  LET match == {d \in held : d.store = s /\ d.key = k /\ d.root = root}
      others == {d \in Docs : d.store = s /\ d.key # k /\ d.root = root}
      decoys == IF others = {} THEN {} ELSE {CHOOSE d \in others : TRUE}
  IN  IF ~NodeHonest
      THEN {Error(e) : e \in Errors} \cup {WindowIs(w) : w \in FaultyWindows}
      ELSE IF ~up THEN {Error("Transport")}
      ELSE IF root \notin AnchoredRoots(s) THEN {Error("ROOT_NOT_ANCHORED")}
      ELSE IF match # {} THEN {WindowIs(HonestWindow(d, off)) : d \in match}
      ELSE {Error("RESOURCE_UNAVAILABLE")} \cup {WindowIs(HonestWindow(d, off)) : d \in decoys}

\* The chain anchors the next root of a store.
Anchor(s) ==
  /\ anchored[s] < Len(History[s])
  /\ anchored' = [anchored EXCEPT ![s] = @ + 1]
  /\ UNCHANGED <<held, up, hist, cached, connVars>>

\* The node obtains a resource of an anchored root.
Sync(d) ==
  /\ d \notin held
  /\ d.root \in AnchoredRoots(d.store)
  /\ held' = held \cup {d}
  /\ UNCHANGED <<anchored, up, hist, cached, connVars>>

\* The node goes away, or comes back.
NodeFlips ==
  /\ up' = ~up
  /\ UNCHANGED <<anchored, held, hist, cached, connVars>>

(***************************************************************************)
(* Responses.                                                              *)
(***************************************************************************)
Text(status) == [status |-> status, cache |-> "none", body |-> <<>>, reachable |-> FALSE]
NoResponse == Text(0)

ok_body_response(pt, range, pinned) ==
  LET spec == parse_range(range, Len(pt))
      reply(status, body) ==
        [status |-> status, cache |-> IF pinned THEN "immutable" ELSE "no-cache",
         body |-> body, reachable |-> FALSE]
  IN  IF spec.kind = "Satisfiable" THEN reply(206, SubSeq(pt, spec.start + 1, spec.end + 1))
      ELSE IF spec.kind = "Unsatisfiable" THEN reply(416, <<>>)
      ELSE reply(200, pt)

\* The host classify looks at: a proxy request's authority, which comes without its
\* port, or the Host header as it is.
host_of(q) == IF q.proxy THEN [q.host EXCEPT !.port = FALSE] ELSE q.host

Target(c) == parse_dig_host(host_of(req[c]))

\* Variant: every store response is marked as if its root were pinned.
IsPinnedAlways(c) == Target(c).kind \in {"Pinned", "Latest"}

IsPinned(c) == Target(c).kind = "Pinned"

\* The response leaves handle(); a whole immutable body is one a cache keeps for ever.
Respond(c, r) ==
  /\ pc' = [pc EXCEPT ![c] = "done"]
  /\ resp' = [resp EXCEPT ![c] = r]
  /\ cached' = IF r.status = 200 /\ r.cache = "immutable"
               THEN cached \cup {[target |-> Target(c), path |-> req[c].path, body |-> r.body]}
               ELSE cached

(***************************************************************************)
(* handle: from a request to its first await.                              *)
(***************************************************************************)
\* Variant: the control namespace is routed before the open-proxy guard.
classify_control_first(q) ==
  IF control_endpoint_for(q.path) # "none" THEN "Control"
  ELSE IF q.proxy /\ ~host_is_under_tld(host_of(q)) THEN "NonDigProxy"
  ELSE IF parse_dig_host(host_of(q)).kind = "Err" THEN "BadHost"
  ELSE "Store"

classify(q) ==
  IF q.proxy /\ ~host_is_under_tld(host_of(q)) THEN "NonDigProxy"
  ELSE IF control_endpoint_for(q.path) # "none" THEN "Control"
  ELSE IF parse_dig_host(host_of(q)).kind = "Err" THEN "BadHost"
  ELSE "Store"

IsRead(q) == q.method \in {"GET", "HEAD"}

control_status(ep) ==
  CASE ep = "ResolveProbe" -> 204
    [] ep = "ProxyPac" -> 200
    [] ep = "Health" -> 0
    [] OTHER -> 404

\* The status answered without touching the node, or 0 when the node is asked.
handle(q) ==
  IF q.method = "CONNECT" THEN 405
  ELSE IF classify(q) = "NonDigProxy" THEN 403
  ELSE IF classify(q) = "BadHost" THEN 404
  ELSE IF ~IsRead(q) THEN 405
  ELSE IF classify(q) = "Control" THEN control_status(control_endpoint_for(q.path))
  ELSE IF resource_key_for_path(q.path) = InvalidPath THEN 400
  ELSE 0

NoJob == [key |-> IndexKey, fallback |-> FALSE, windows |-> <<>>, offset |-> 0]
FetchJob(k, fallback) == [key |-> k, fallback |-> fallback, windows |-> <<>>, offset |-> 0]
NotFetched == [tag |-> "none", pt |-> <<>>]

Receive(c, q) ==
  LET t == parse_dig_host(host_of(q))
      status == handle(q)
  IN  /\ pc[c] = "idle" /\ sent[c] < MaxRequests
      /\ sent' = [sent EXCEPT ![c] = @ + 1]
      /\ req' = [req EXCEPT ![c] = q]
      /\ hist' = [hist EXCEPT ![c] = [hurt |-> FALSE, floor |-> anchored, had |-> held]]
      /\ pc' = [pc EXCEPT ![c] = IF status # 0 THEN "done"
                                 ELSE IF classify(q) = "Control" THEN "health"
                                 ELSE IF t.kind = "Latest" THEN "root" ELSE "content"]
      /\ resp' = [resp EXCEPT ![c] = Text(status)]
      /\ trusted' = [trusted EXCEPT ![c] = IF status = 0 THEN t.root ELSE None]
      /\ job' = [job EXCEPT ![c] = FetchJob(resource_key_for_path(q.path), FALSE)]
      /\ UNCHANGED <<fetched, cached, nodeVars>>

\* control_response(Health): the await on healthy(); any HTTP answer is health.
Health(c) ==
  /\ pc[c] = "health"
  /\ \E reachable \in IF NodeHonest THEN {up} ELSE BOOLEAN :
       Respond(c, [Text(200) EXCEPT !.reachable = reachable])
  /\ UNCHANGED <<req, trusted, job, fetched, sent, hist, nodeVars>>

\* Variant: a transport failure counts as a miss.
is_any_miss(e) == e \in {"RESOURCE_UNAVAILABLE", "ROOT_NOT_ANCHORED", "Transport"}

is_not_found(e) == e \in {"RESOURCE_UNAVAILABLE", "ROOT_NOT_ANCHORED"}

\* A call that got no answer at all; the history remembers it.
NoteHurt(c, a) ==
  hist' = [hist EXCEPT ![c].hurt = @ \/ (a.tag = "error" /\ a.code = "Transport")]

\* parse_anchored_root: 64 hex digits, or the answer is malformed.
parse_anchored_root(a) ==
  IF a.tag = "root" /\ a.root = None THEN Error("Malformed") ELSE a

\* Variant: the first root ever resolved for the store is kept for good.
ResolveRootOnce(c) ==
  /\ pc[c] = "root"
  /\ up /\ AnchoredRoots(Target(c).store) # {}
  /\ trusted' = [trusted EXCEPT ![c] = History[Target(c).store][1]]
  /\ pc' = [pc EXCEPT ![c] = "content"]
  /\ UNCHANGED <<req, job, fetched, resp, sent, hist, cached, nodeVars>>

\* serve_store, Latest: the await on get_anchored_root.
ResolveRoot(c) ==
  /\ pc[c] = "root"
  /\ \E answer \in RootAnswers(Target(c).store) :
       LET a == parse_anchored_root(answer)
       IN  /\ NoteHurt(c, a)
           /\ IF a.tag = "root"
              THEN /\ trusted' = [trusted EXCEPT ![c] = a.root]
                   /\ pc' = [pc EXCEPT ![c] = "content"]
                   /\ UNCHANGED <<resp, cached>>
              ELSE /\ Respond(c, Text(IF is_not_found(a.code) THEN 404 ELSE 502))
                   /\ UNCHANGED trusted
  /\ UNCHANGED <<req, job, fetched, sent, nodeVars>>

(***************************************************************************)
(* fetch_and_decrypt: the paging loop of get_content, then the gate.       *)
(***************************************************************************)
Fetched(tag) == [tag |-> tag, pt |-> <<>>]

OfError(e) == Fetched(IF is_not_found(e) THEN "NotFound" ELSE "NodeUnreachable")

\* Variant: a decoy that does not open is an integrity failure, not a miss.
OfWindowsNoDecoy(c, ws) ==
  LET f == assemble_windows(ws)
      r == verify_and_decrypt(Target(c).store, job[c].key, f.ciphertext, f.proof,
                              trusted[c], f.lens)
  IN  IF ~f.ok THEN OfError("Malformed")
      ELSE IF r.err = "none" THEN [tag |-> "Ok", pt |-> r.pt]
      ELSE Fetched("IntegrityFail")

\* The loop broke on a complete window: assemble, verify, decrypt.
OfWindows(c, ws) ==
  LET f == assemble_windows(ws)
      r == verify_and_decrypt(Target(c).store, job[c].key, f.ciphertext, f.proof,
                              trusted[c], f.lens)
  IN  IF ~f.ok THEN OfError("Malformed")
      ELSE IF r.err = "none" THEN [tag |-> "Ok", pt |-> r.pt]
      ELSE Fetched(IF r.err = "Decrypt" THEN "NotFound" ELSE "IntegrityFail")

FetchEnds(c, f) ==
  /\ fetched' = [fetched EXCEPT ![c] = f]
  /\ pc' = [pc EXCEPT ![c] = "fetched"]
  /\ UNCHANGED job

\* Variant: a missing next_offset is taken for progress.
AdvancesOrMissing(c, w) == w.next = None \/ w.next > job[c].offset

\* A window that is not the last one must move the offset forward.
Advances(c, w) == w.next # None /\ w.next > job[c].offset

\* Variant: a window that does not advance starts the resource over.
PageRetries(c, w) ==
  LET ws == Append(job[c].windows, w)
  IN  IF w.complete THEN FetchEnds(c, OfWindows(c, ws))
      ELSE IF Advances(c, w)
           THEN /\ job' = [job EXCEPT ![c] = [@ EXCEPT !.windows = ws, !.offset = w.next]]
                /\ UNCHANGED <<fetched, pc>>
           ELSE /\ job' = [job EXCEPT ![c] = FetchJob(job[c].key, job[c].fallback)]
                /\ UNCHANGED <<fetched, pc>>

Page(c, w) ==
  LET ws == Append(job[c].windows, w)
  IN  IF w.complete THEN FetchEnds(c, OfWindows(c, ws))
      ELSE IF Advances(c, w)
           THEN /\ job' = [job EXCEPT ![c] = [@ EXCEPT !.windows = ws, !.offset = w.next]]
                /\ UNCHANGED <<fetched, pc>>
           ELSE FetchEnds(c, OfError("Malformed"))

WithinCap(c) == Len(job[c].windows) < MAX_CONTENT_WINDOWS

GetContent(c) ==
  /\ pc[c] = "content"
  /\ IF WithinCap(c)
     THEN \E a \in ContentAnswers(Target(c).store, job[c].key, trusted[c], job[c].offset) :
            /\ NoteHurt(c, a)
            /\ IF a.tag = "window" THEN Page(c, a.window) ELSE FetchEnds(c, OfError(a.code))
     ELSE FetchEnds(c, OfError("Malformed")) /\ UNCHANGED hist
  /\ UNCHANGED <<req, trusted, resp, sent, cached, nodeVars>>

(***************************************************************************)
(* serve_store and spa_or_404: what becomes of the outcome.                *)
(***************************************************************************)
\* The fallback page is served whole; the requested resource by its Range.
RangeOf(c) == IF job[c].fallback THEN WholeHeader ELSE req[c].range

FallsBack(c) ==
  fetched[c].tag = "NotFound" /\ ~job[c].fallback /\ is_extensionless(req[c].path)

FetchedStatus(tag) == IF tag = "NotFound" THEN 404 ELSE 502

Serve(c) ==
  /\ pc[c] = "fetched"
  /\ \/ /\ FallsBack(c)
        /\ job' = [job EXCEPT ![c] = FetchJob(IndexKey, TRUE)]
        /\ pc' = [pc EXCEPT ![c] = "content"]
        /\ UNCHANGED <<resp, cached>>
     \/ /\ ~FallsBack(c)
        /\ Respond(c, IF fetched[c].tag = "Ok"
                      THEN ok_body_response(fetched[c].pt, RangeOf(c), IsPinned(c))
                      ELSE Text(FetchedStatus(fetched[c].tag)))
        /\ UNCHANGED job
  /\ fetched' = [fetched EXCEPT ![c] = NotFetched]
  /\ UNCHANGED <<req, trusted, sent, hist, nodeVars>>

AnyRequest == CHOOSE q \in Requests : TRUE
NoHist == [hurt |-> FALSE, floor |-> [s \in Stores |-> 0], had |-> {}]

\* Every local of the request's future is dropped with it.
Forget(c) ==
  /\ pc' = [pc EXCEPT ![c] = "idle"]
  /\ resp' = [resp EXCEPT ![c] = NoResponse]
  /\ trusted' = [trusted EXCEPT ![c] = None]
  /\ job' = [job EXCEPT ![c] = NoJob]
  /\ req' = [req EXCEPT ![c] = AnyRequest]
  /\ hist' = [hist EXCEPT ![c] = NoHist]
  /\ UNCHANGED <<fetched, sent, cached, nodeVars>>

\* The response is written; the connection is ready for the next request.
Deliver(c) == pc[c] = "done" /\ Forget(c)

\* The client goes away: hyper drops the request's future at an await.
Disconnect(c) == pc[c] \in {"health", "root", "content"} /\ Forget(c)

(***************************************************************************)
(* The specification.                                                      *)
(***************************************************************************)
Init ==
  /\ pc = [c \in Conns |-> "idle"]
  /\ req = [c \in Conns |-> AnyRequest]
  /\ trusted = [c \in Conns |-> None]
  /\ job = [c \in Conns |-> NoJob]
  /\ fetched = [c \in Conns |-> NotFetched]
  /\ resp = [c \in Conns |-> NoResponse]
  /\ sent = [c \in Conns |-> 0]
  /\ anchored \in [Stores -> {0, 1}]
  /\ \A s \in Stores : anchored[s] <= Len(History[s])
  /\ held = {d \in InitHeld : d.root \in AnchoredRoots(d.store)}
  /\ up \in BOOLEAN
  /\ hist = [c \in Conns |-> NoHist]
  /\ cached = {}

\* What the gateway itself does once a request is in.
Step(c) == Health(c) \/ ResolveRoot(c) \/ GetContent(c) \/ Serve(c)

Next ==
  \/ \E c \in Conns, q \in Requests : Receive(c, q)
  \/ \E c \in Conns : Health(c)
  \/ \E c \in Conns : ResolveRoot(c)
  \/ \E c \in Conns : GetContent(c)
  \/ \E c \in Conns : Serve(c)
  \/ \E c \in Conns : Deliver(c)
  \/ \E c \in Conns : Disconnect(c)
  \/ \E s \in Stores : Anchor(s)
  \/ \E d \in Docs : Sync(d)
  \/ NodeFlips

Spec == Init /\ [][Next]_vars

\* Every call returns: reqwest's REQUEST_TIMEOUT ends one the node never answers.
FairSpec == Spec /\ \A c \in Conns : WF_vars(Step(c))

(***************************************************************************)
(* Properties.                                                             *)
(***************************************************************************)
Phases == {"idle", "health", "root", "content", "fetched", "done"}

Response == [status : Nat, cache : {"none", "immutable", "no-cache"},
             body : Seq(Byte), reachable : BOOLEAN]

\* Type invariant of the gateway's request state, the node and the history.
TypeOK ==
  /\ pc \in [Conns -> Phases]
  /\ req \in [Conns -> Requests]
  /\ trusted \in [Conns -> Id \cup {None}]
  /\ job \in [Conns -> [key : Keys, fallback : BOOLEAN, windows : Seq(Window), offset : Nat]]
  /\ fetched \in [Conns -> [tag : {"none", "Ok", "NotFound", "NodeUnreachable", "IntegrityFail"},
                            pt : Seq(Byte)]]
  /\ resp \in [Conns -> Response]
  /\ sent \in [Conns -> 0 .. MaxRequests]
  /\ anchored \in [Stores -> Nat] /\ \A s \in Stores : anchored[s] <= Len(History[s])
  /\ held \subseteq Docs
  /\ up \in BOOLEAN
  /\ hist \in [Conns -> [hurt : BOOLEAN, floor : [Stores -> Nat], had : SUBSET Docs]]

\* The resources under a store, root and key: at most one in an anchored tree.
Under(s, r, k) == {d \in Docs : d.store = s /\ d.root = r /\ d.key = k}

Answered(c) == pc[c] = "done" /\ classify(req[c]) = "Store"
Body(c) == resp[c].status \in {200, 206}

\* The bytes of a plaintext that a Range header selects, and nothing else.
IsRangeOf(body, h, pt) ==
  \E s, e \in 0 .. Len(pt) - 1 :
    s .. e = Selected(h, Len(pt)) /\ body = SubSeq(pt, s + 1, e + 1)

\* The key being fetched: the path's own, or index.html for a route.
KeyRight(c) ==
  \/ ~job[c].fallback /\ job[c].key = resource_key_for_path(req[c].path)
  \/ job[c].fallback /\ job[c].key = IndexKey /\ is_extensionless(req[c].path)

AuthenticAt(c) ==
  Answered(c) /\ Body(c) =>
    /\ IsPinned(c) => trusted[c] = Target(c).root
    /\ KeyRight(c)
    /\ \E d \in Under(Target(c).store, trusted[c], job[c].key) :
         \/ resp[c].status = 200 /\ resp[c].body = d.pt
         \/ resp[c].status = 206 /\ ~job[c].fallback /\ IsRangeOf(resp[c].body, req[c].range, d.pt)

\* Whatever the node answers, a body the gateway serves is the plaintext of a resource
\* of the requested store that the request's trusted root commits to (the host's own
\* root when it pins one): the resource the path names, or index.html for a route
\* without extension; a 206 body is exactly the bytes the Range header asks for.
Authentic == \A c \in Conns : AuthenticAt(c)

\* Why Authentic is inductive: what each phase of a request has established, up to the
\* outcome of fetch_and_decrypt.
PhaseInv(c) ==
  /\ pc[c] = "health" => classify(req[c]) = "Control"
  /\ pc[c] \in {"root", "content", "fetched"} => classify(req[c]) = "Store" /\ KeyRight(c)
  /\ pc[c] = "root" => Target(c).kind = "Latest"
  /\ pc[c] \in {"content", "fetched"} =>
       trusted[c] \in Id /\ (IsPinned(c) => trusted[c] = Target(c).root)
  /\ pc[c] = "fetched" /\ fetched[c].tag = "Ok" =>
       \E d \in Under(Target(c).store, trusted[c], job[c].key) : fetched[c].pt = d.pt

ConnInv(c) == PhaseInv(c) /\ AuthenticAt(c)

AuthenticInv == TypeOK /\ \A c \in Conns : ConnInv(c)

\* A proxy request for an authority outside the tld is refused, whatever its method and
\* path, and no step of it asks the node.
NeverOpenProxy ==
  \A c \in Conns : pc[c] # "idle" /\ req[c].proxy /\ ~req[c].host.tld =>
    pc[c] = "done" /\ resp[c].status \in {403, 405}

\* A bare-store host is served from a generation no older than the one anchored when
\* the request arrived, and from one that is anchored.
FreshRoot ==
  \A c \in Conns : Answered(c) /\ Target(c).kind = "Latest" /\ (Body(c) \/ resp[c].status = 416) =>
    LET s == Target(c).store
    IN  \E i \in hist[c].floor[s] .. anchored[s] : i > 0 /\ trusted[c] = History[s][i]

\* A call the node never answered is a 502, never a 404, a fallback page or a body.
UnreachableIs502 ==
  \A c \in Conns : Answered(c) /\ hist[c].hurt => resp[c].status = 502

\* Which key a resolved request must end on: its own, or index.html for a route.
ExpectedKey(c) ==
  LET own == resource_key_for_path(req[c].path)
  IN  IF Under(Target(c).store, trusted[c], own) = {} /\ is_extensionless(req[c].path)
      THEN IndexKey ELSE own

\* A resource the gateway can serve: sealed in at least one chunk, and small enough for
\* its arithmetic and for the cap on the number of windows.
Servable(d) ==
  /\ d.chunks # <<>>
  /\ Len(d.ct) <= UsizeMax /\ Len(d.ct) <= MAX_CONTENT_WINDOWS * WindowSize

AllServable == MAX_CONTENT_WINDOWS > 0 /\ \A d \in Docs : Servable(d)

\* What an honest node held when the request arrived is served, through any number of
\* windows and past decoys, unless the node became unreachable; a path with an
\* extension that names nothing is a 404.
HeldIsServed ==
  \A c \in Conns :
    Answered(c) /\ IsRead(req[c]) /\ ~hist[c].hurt /\ trusted[c] # None
        /\ trusted[c] \in AnchoredRoots(Target(c).store) =>
      LET found == Under(Target(c).store, trusted[c], ExpectedKey(c))
      IN  /\ found # {} /\ found \subseteq hist[c].had =>
               resp[c].status \in {200, 206, 416} /\ job[c].key = ExpectedKey(c)
          /\ found = {} => resp[c].status = 404

\* Every request comes to a response (or its client leaves), even when the node never
\* completes a resource: each window advances and the number of windows is capped.
EveryRequestEnds ==
  \A c \in Conns : pc[c] # "idle" ~> pc[c] \in {"done", "idle"}

FallbackBodies(t) == {d.pt : d \in Under(t.store, t.root, IndexKey)}

\* Only a response for a pinned root is ever one that a cache keeps for ever, and two of
\* them for one host and path are the same, while requests, new roots and what the node
\* obtains interleave; except that, for a route, one may be the index page sent in place of
\* a resource the node did not have yet.  (ok_body_response, spa_or_404)
ImmutableUpToFallback ==
  \A x, y \in cached :
    /\ x.target.kind = "Pinned"
    /\ (x.target = y.target /\ x.path = y.path /\ x.body # y.body) =>
         is_extensionless(x.path) /\ {x.body, y.body} \cap FallbackBodies(x.target) # {}
=============================================================================
