--------------------------- MODULE GatewayProofs ---------------------------
(***************************************************************************)
(* Theorems about Gateway, for every value of its constants.               *)
(***************************************************************************)
EXTENDS Gateway, TLAPS, WellFoundedInduction, SequenceTheorems

(***************************************************************************)
(* parse_range.                                                            *)
(***************************************************************************)

\* For every Range header and every size, parse_range answers the bytes the header
\* names: never one outside the resource, and 416 only when there is none.
THEOREM ParseRangeExact ==
  ASSUME NEW h \in Header, NEW total \in Nat
  PROVE  RangeExact(h, total)
<1> DEFINE r == parse_range(h, total)
<1> USE U64MaxAssumption, FieldAssumption
<1>1. CASE ~WellFormed(h)
  BY <1>1 DEF RangeExact, parse_range, WellFormed, Parses, Header, Field
<1>2. CASE WellFormed(h) /\ h.a = Empty
  <2>1. h.single /\ h.b \in Nat /\ Parses(h.b)
    BY <1>2 DEF WellFormed, Parses, Header, Field
  <2>2. r = SuffixRange(h.b, total)
    BY <1>2, <2>1 DEF parse_range
  <2>3. CASE h.b = 0 \/ total = 0
    <3>1. Selected(h, total) = {}
      BY <1>2, <2>1, <2>3 DEF Selected
    <3>2. QED BY <1>2, <2>2, <2>3, <3>1 DEF RangeExact, SuffixRange
  <2>4. CASE h.b # 0 /\ total # 0
    <3>1. r = Satisfiable(total - MinOf(h.b, total), total - 1)
      BY <2>2, <2>4 DEF SuffixRange
    <3>2. MinOf(h.b, total) \in 1 .. total
      BY <2>1, <2>4 DEF MinOf
    <3>3. (total - MinOf(h.b, total)) .. (total - 1) = Selected(h, total)
      BY <1>2, <2>1, <2>4 DEF Selected, MinOf
    <3>4. QED BY <1>2, <3>1, <3>2, <3>3 DEF RangeExact, Satisfiable
  <2>5. QED BY <2>3, <2>4
<1>3. CASE WellFormed(h) /\ h.a # Empty
  <2> DEFINE end == IF h.b = Empty THEN LastIndex(total) ELSE MinOf(h.b, LastIndex(total))
  <2>1. h.single /\ h.a \in Nat /\ Parses(h.a)
    BY <1>3 DEF WellFormed, Parses, Header, Field
  <2>2. h.b = Empty \/ (h.b \in Nat /\ Parses(h.b))
    BY <1>3 DEF WellFormed, Parses, Header, Field
  <2>3. r = FromRange(h.a, end, total)
    BY <1>3, <2>1, <2>2 DEF parse_range
  <2>4. end \in Nat /\ (total # 0 => end \in 0 .. total - 1)
    BY <2>2 DEF LastIndex, MinOf
  <2>5. Selected(h, total) = {i \in 0 .. total - 1 : i >= h.a /\ i <= end}
    BY <1>3, <2>1, <2>2 DEF Selected, LastIndex, MinOf
  <2> HIDE DEF end
  <2>6. CASE total = 0 \/ h.a >= total \/ h.a > end
    <3>1. Selected(h, total) = {}
      BY <2>1, <2>4, <2>5, <2>6
    <3>2. QED BY <1>3, <2>3, <2>6, <3>1 DEF RangeExact, FromRange
  <2>7. CASE ~(total = 0 \/ h.a >= total \/ h.a > end)
    <3>1. r = Satisfiable(h.a, end)
      BY <2>3, <2>7 DEF FromRange
    <3>2. h.a .. end = Selected(h, total)
      BY <2>1, <2>4, <2>5, <2>7
    <3>3. Selected(h, total) # {}
      BY <2>1, <2>4, <2>7, <3>2
    <3>4. QED BY <1>3, <2>1, <2>4, <2>7, <3>1, <3>2, <3>3 DEF RangeExact, Satisfiable
  <2>8. QED BY <2>6, <2>7
<1>4. QED BY <1>1, <1>2, <1>3

(***************************************************************************)
(* The pure parts of the request path: their results have the right type.  *)
(***************************************************************************)

\* handle answers a status of its own or 0, never a body status for a store.
LEMMA HandleStatus ==
  ASSUME NEW q \in Requests
  PROVE  /\ handle(q) \in Nat
         /\ classify(q) = "Store" => handle(q) \in {0, 400, 405}
         /\ handle(q) = 0 => classify(q) \in {"Control", "Store"}
BY DEF handle, control_status, classify

\* A parsed host names ids.
LEMMA TargetIds ==
  ASSUME NEW q \in Requests
  PROVE  LET t == parse_dig_host(host_of(q))
         IN  /\ t.kind \in {"Err", "Latest", "Pinned"}
             /\ t.root \in Id \cup {None}
             /\ t.kind # "Err" => t.store \in Id
             /\ t.kind = "Pinned" => t.root \in Id
<1> DEFINE h == host_of(q)
<1>1. h.labels \in Seq(STRING)
  BY RequestsAssumption DEF Request, Host, host_of
<1>2. CASE parse_dig_host(h) = NotDig
  BY <1>2 DEF NotDig
<1>3. CASE parse_dig_host(h) # NotDig
  <2>1. /\ Len(h.labels) \in {1, 2}
        /\ \A i \in DOMAIN h.labels : label_to_store_hex(h.labels[i]) # None
    BY <1>3 DEF parse_dig_host
  <2>2. \A i \in DOMAIN h.labels : label_to_store_hex(h.labels[i]) \in Id
    BY <2>1 DEF label_to_store_hex
  <2>3. CASE Len(h.labels) = 1
    <3>1. parse_dig_host(h) = Latest(label_to_store_hex(h.labels[1]))
      BY <1>3, <2>3 DEF parse_dig_host
    <3>2. label_to_store_hex(h.labels[1]) \in Id
      BY <1>1, <2>2, <2>3
    <3>3. QED BY <3>1, <3>2 DEF Latest
  <2>4. CASE Len(h.labels) = 2
    <3>1. parse_dig_host(h) = Pinned(label_to_store_hex(h.labels[1]), label_to_store_hex(h.labels[2]))
      BY <1>3, <2>4 DEF parse_dig_host
    <3>2. label_to_store_hex(h.labels[1]) \in Id /\ label_to_store_hex(h.labels[2]) \in Id
      BY <1>1, <2>2, <2>4
    <3>3. QED BY <3>1, <3>2 DEF Pinned
  <2>5. QED BY <2>1, <2>3, <2>4
<1>4. QED BY <1>2, <1>3

\* The answer to a byte range is a response: the slice stays inside the plaintext.
LEMMA OkBodyType ==
  ASSUME NEW pt \in Seq(Byte), NEW h \in Header, NEW pinned \in BOOLEAN,
         NEW r, r = ok_body_response(pt, h, pinned)
  PROVE  /\ r \in Response
         /\ \/ r.status = 200 /\ r.body = pt
            \/ r.status = 416
            \/ r.status = 206 /\ h.single /\ IsRangeOf(r.body, h, pt)
<1> DEFINE spec == parse_range(h, Len(pt))
<1>1. Len(pt) \in Nat
  OBVIOUS
<1>2. RangeExact(h, Len(pt))
  BY <1>1, ParseRangeExact
<1>3. CASE spec.kind = "Satisfiable"
  <2>1. /\ spec.start \in 0 .. Len(pt) - 1 /\ spec.end \in spec.start .. Len(pt) - 1
        /\ spec.start .. spec.end = Selected(h, Len(pt))
    BY <1>2, <1>3 DEF RangeExact, Whole, Unsatisfiable
  <2> DEFINE slice == SubSeq(pt, spec.start + 1, spec.end + 1)
  <2>2. slice \in Seq(Byte)
    BY <1>1, <2>1
  <2>3. r = [status |-> 206, cache |-> IF pinned THEN "immutable" ELSE "no-cache",
             body |-> slice, reachable |-> FALSE]
    BY <1>3 DEF ok_body_response
  <2>4. spec.start \in 0 .. Len(pt) - 1 /\ spec.end \in 0 .. Len(pt) - 1
    BY <1>1, <2>1
  <2>5. IsRangeOf(slice, h, pt)
    BY <2>1, <2>4, Zenon DEF IsRangeOf
  <2> HIDE DEF slice
  <2>6. r \in Response /\ r.status = 206 /\ r.body = slice
    BY <2>2, <2>3 DEF Response
  <2>7. h.single
    BY <1>3 DEF parse_range, Whole
  <2>8. QED BY <2>5, <2>6, <2>7
<1>4. CASE spec.kind = "Unsatisfiable"
  <2>1. <<>> \in Seq(Byte)
    OBVIOUS
  <2>2. QED BY <1>4, <2>1 DEF ok_body_response, Response
<1>5. CASE spec.kind # "Satisfiable" /\ spec.kind # "Unsatisfiable"
  BY <1>5 DEF ok_body_response, Response
<1>6. QED BY <1>3, <1>4, <1>5

\* Text responses are responses.
LEMMA TextType ==
  ASSUME NEW n \in Nat
  PROVE  Text(n) \in Response /\ Text(n).status = n /\ Text(n).cache = "none"
BY DEF Text, Response

\* What the gate lets through is a resource of that store, key and trusted root.
LEMMA VerifySound ==
  ASSUME NEW s \in Id, NEW k \in Keys, NEW ct, NEW proof \in Proof, NEW trustedRoot,
         NEW lens \in Lens,
         verify_and_decrypt(s, k, ct, proof, trustedRoot, lens).err = "none"
  PROVE  \E d \in Under(s, trustedRoot, k) :
           d.pt = verify_and_decrypt(s, k, ct, proof, trustedRoot, lens).pt
<1> DEFINE r == verify_and_decrypt(s, k, ct, proof, trustedRoot, lens)
<1>1. /\ proof.decodes = TRUE /\ ct = proof.leaf /\ Folds(proof)
      /\ proof.root = trustedRoot
  BY DEF verify_and_decrypt, Failed, Proof
<1>2. PICK d \in Docs : d.root = proof.root /\ d.ct = proof.leaf
  BY <1>1 DEF Folds
<1>3. proof = [decodes |-> TRUE, leaf |-> d.ct, root |-> d.root]
  BY <1>1, <1>2 DEF Proof
<1>4. r = verify_and_decrypt(s, k, d.ct, [decodes |-> TRUE, leaf |-> d.ct, root |-> d.root],
                             d.root, lens)
  BY <1>1, <1>2, <1>3
<1>5. r.err = "none"
  OBVIOUS
<1> HIDE DEF r
<1>6. \E e \in Docs : e.store = s /\ e.key = k /\ e.root = d.root /\ e.pt = r.pt
  BY <1>4, <1>5, BindingAssumption
<1>7. QED BY <1>1, <1>2, <1>6 DEF Under, r

(***************************************************************************)
(* The node's answers are typed, whoever it is.                            *)
(***************************************************************************)

\* The keys a request can lead to.
LEMMA KeysTyped ==
  /\ IndexKey \in Keys
  /\ \A q \in Requests : resource_key_for_path(q.path) \in Keys
BY DEF Keys

\* A root answer, parsed, is an id or an error.
LEMMA RootAnswerTyped ==
  ASSUME TypeOK, NEW s \in Id, NEW x \in RootAnswers(s), NEW a, a = parse_anchored_root(x)
  PROVE  a.tag = "root" => a.root \in Id
<1>1. CASE ~NodeHonest
  <2>1. x \in {Error(e) : e \in Errors} \cup {RootIs(r) : r \in FaultyRoots}
    BY <1>1 DEF RootAnswers
  <2>2. QED BY <2>1, NodeAssumption DEF Error, RootIs, parse_anchored_root
<1>2. CASE NodeHonest /\ (~up \/ AnchoredRoots(s) = {})
  BY <1>2 DEF RootAnswers, Error, parse_anchored_root
<1>3. CASE NodeHonest /\ up /\ AnchoredRoots(s) # {}
  <2>1. x = RootIs(History[s][anchored[s]])
    BY <1>3 DEF RootAnswers
  <2>2. s \in Stores /\ anchored[s] \in 1 .. Len(History[s])
    BY <1>3 DEF AnchoredRoots, TypeOK
  <2>3. History[s][anchored[s]] \in Id
    BY <2>2, HistoryAssumption DEF Stores
  <2>4. QED BY <2>1, <2>3 DEF RootIs, parse_anchored_root, Error
<1>4. QED BY <1>1, <1>2, <1>3, BoundsAssumption DEF TypeOK

\* A window of an honest node is a window.
LEMMA HonestWindowTyped ==
  ASSUME NEW d \in Docs, NEW off \in Nat
  PROVE  HonestWindow(d, off) \in Window
<1>1. d.ct \in Seq(Byte) /\ d.root \in Id /\ ChunkLens(d) \in Lens
  BY DocsAssumption, NodeAssumption
<1>2. Len(d.ct) \in Nat /\ WindowSize \in Nat \ {0}
  BY <1>1, BoundsAssumption
<1> DEFINE last == MinOf(off + WindowSize, Len(d.ct))
<1>3. last \in Nat /\ last <= Len(d.ct)
  BY <1>2 DEF MinOf
<1>4. SubSeq(d.ct, off + 1, last) \in Seq(Byte)
  BY <1>1, <1>2, <1>3
<1>5. off + WindowSize \in Nat /\ (off + WindowSize >= Len(d.ct)) \in BOOLEAN
  BY <1>2
<1> HIDE DEF last
<1>6. QED BY <1>1, <1>4, <1>5 DEF HonestWindow, Window, Proof, last

\* Every window the node answers with is a window.
LEMMA ContentAnswerTyped ==
  ASSUME TypeOK, NEW s, NEW k, NEW root, NEW off \in Nat,
         NEW a \in ContentAnswers(s, k, root, off), a.tag = "window"
  PROVE  a.window \in Window
<1>1. CASE ~NodeHonest
  <2>1. a \in {Error(e) : e \in Errors} \cup {WindowIs(w) : w \in FaultyWindows}
    BY <1>1 DEF ContentAnswers
  <2>2. QED BY <2>1, NodeAssumption DEF Error, WindowIs
<1>2. CASE NodeHonest
  <2> DEFINE match == {d \in held : d.store = s /\ d.key = k /\ d.root = root}
             others == {d \in Docs : d.store = s /\ d.key # k /\ d.root = root}
             decoys == IF others = {} THEN {} ELSE {CHOOSE d \in others : TRUE}
  <2>1. match \subseteq Docs /\ decoys \subseteq Docs
    BY DEF TypeOK
  <2>2. \/ \E e \in Errors : a = Error(e)
        \/ a \in {WindowIs(HonestWindow(d, off)) : d \in match}
        \/ a \in {WindowIs(HonestWindow(d, off)) : d \in decoys}
    BY <1>2 DEF ContentAnswers, Errors
  <2> HIDE DEF match, decoys
  <2>3. \E d \in Docs : a = WindowIs(HonestWindow(d, off))
    BY <2>1, <2>2 DEF Error
  <2>4. QED BY <2>3, HonestWindowTyped DEF WindowIs
<1>3. QED BY <1>1, <1>2, BoundsAssumption

(***************************************************************************)
(* The inductive invariant.                                                *)
(***************************************************************************)
FetchedType == [tag : {"none", "Ok", "NotFound", "NodeUnreachable", "IntegrityFail"},
                pt : Seq(Byte)]

\* The outcome of a fetch: only verified plaintext of the wanted resource is Ok.
LEMMA OfWindowsSound ==
  ASSUME NEW c, Target(c).store \in Id, job[c].key \in Keys, NEW ws \in Seq(Window), ws # <<>>
  PROVE  /\ OfWindows(c, ws) \in FetchedType
         /\ OfWindows(c, ws).tag = "Ok" =>
              \E d \in Under(Target(c).store, trusted[c], job[c].key) :
                OfWindows(c, ws).pt = d.pt
<1> DEFINE f == assemble_windows(ws)
           r == verify_and_decrypt(Target(c).store, job[c].key, f.ciphertext, f.proof,
                                   trusted[c], f.lens)
<1>1. ws[1] \in Window
  OBVIOUS
<1>2. f.ok => f.proof \in Proof /\ f.lens \in Lens
  BY <1>1 DEF assemble_windows, Malformed, Window
<1>3. <<>> \in Seq(Byte)
  OBVIOUS
<1>4. \A e : OfError(e) \in FetchedType /\ OfError(e).tag # "Ok"
  BY <1>3 DEF OfError, Fetched, FetchedType
<1>5. CASE f.ok /\ r.err = "none"
  <2>1. \E d \in Under(Target(c).store, trusted[c], job[c].key) : d.pt = r.pt
    BY <1>2, <1>5, VerifySound
  <2>2. OfWindows(c, ws) = [tag |-> "Ok", pt |-> r.pt]
    BY <1>5 DEF OfWindows
  <2>3. r.pt \in Seq(Byte)
    BY <2>1, DocsAssumption DEF Under
  <2> HIDE DEF r
  <2>4. QED BY <2>1, <2>2, <2>3 DEF FetchedType
<1>6. CASE ~f.ok
  <2>1. OfWindows(c, ws) = OfError("Malformed")
    BY <1>6 DEF OfWindows
  <2>2. QED BY <2>1, <1>4
<1>7. CASE f.ok /\ r.err # "none"
  <2>1. OfWindows(c, ws) = Fetched(IF r.err = "Decrypt" THEN "NotFound" ELSE "IntegrityFail")
    BY <1>7 DEF OfWindows
  <2>2. QED BY <2>1, <1>3 DEF Fetched, FetchedType
<1>8. QED BY <1>5, <1>6, <1>7

\* What a step leaves alone of a connection stays right about it.
LEMMA Frame ==
  ASSUME NEW d \in Conns, ConnInv(d),
         pc'[d] = pc[d], req'[d] = req[d], trusted'[d] = trusted[d], job'[d] = job[d],
         fetched'[d] = fetched[d], resp'[d] = resp[d]
  PROVE  ConnInv(d)'
BY DEF ConnInv, PhaseInv, AuthenticAt, Target, IsPinned, Answered, Body, KeyRight

\* The initial states satisfy the invariant.
LEMMA InitInv == Init => AuthenticInv
<1> SUFFICES ASSUME Init PROVE AuthenticInv
  OBVIOUS
<1>1. AnyRequest \in Requests
  BY RequestsAssumption DEF AnyRequest
<1>2. <<>> \in Seq(Byte) /\ <<>> \in Seq(Window)
  OBVIOUS
<1>3. NoJob \in [key : Keys, fallback : BOOLEAN, windows : Seq(Window), offset : Nat]
  BY <1>2, KeysTyped DEF NoJob
<1>4. NotFetched \in FetchedType
  BY <1>2 DEF NotFetched, FetchedType
<1>5. NoResponse \in Response
  BY TextType DEF NoResponse
<1>6. NoHist \in [hurt : BOOLEAN, floor : [Stores -> Nat], had : SUBSET Docs]
  BY DEF NoHist
<1>7. anchored \in [Stores -> Nat] /\ \A s \in Stores : anchored[s] <= Len(History[s])
  BY DEF Init
<1>8. held \subseteq Docs /\ up \in BOOLEAN
  BY NodeAssumption DEF Init
<1>9. TypeOK
  BY <1>1, <1>3, <1>4, <1>5, <1>6, <1>7, <1>8, BoundsAssumption
     DEF Init, TypeOK, Phases, FetchedType
<1>10. \A c \in Conns : ConnInv(c)
  BY DEF Init, ConnInv, PhaseInv, AuthenticAt, Answered
<1>11. QED BY <1>9, <1>10 DEF AuthenticInv

\* Receive: the early returns carry no body for a store, the others start right.
LEMMA ReceiveInv ==
  ASSUME AuthenticInv, NEW c \in Conns, NEW q \in Requests, Receive(c, q)
  PROVE  AuthenticInv'
<1> DEFINE t == parse_dig_host(host_of(q))
           k == resource_key_for_path(q.path)
           status == handle(q)
<1>1. TypeOK
  BY DEF AuthenticInv
<1>2. status \in Nat /\ (classify(q) = "Store" => status \in {0, 400, 405})
      /\ (status = 0 => classify(q) \in {"Control", "Store"})
  BY HandleStatus
<1>3. t.kind \in {"Err", "Latest", "Pinned"} /\ t.root \in Id \cup {None}
      /\ (t.kind = "Pinned" => t.root \in Id)
  BY TargetIds
<1>4. classify(q) = "Store" => t.kind # "Err"
  BY DEF classify
<1>5. k \in Keys
  BY KeysTyped
<1>6. Text(status) \in Response /\ Text(status).status = status
  BY <1>2, TextType
<1>7. FetchJob(k, FALSE) \in [key : Keys, fallback : BOOLEAN, windows : Seq(Window), offset : Nat]
  BY <1>5 DEF FetchJob
<1> HIDE DEF t, k, status
<1>8. TypeOK'
  <2>1. pc' \in [Conns -> Phases]
    BY <1>1 DEF Receive, TypeOK, Phases
  <2>2. req' \in [Conns -> Requests] /\ trusted' \in [Conns -> Id \cup {None}]
    BY <1>1, <1>3 DEF Receive, TypeOK, t
  <2>3. job' \in [Conns -> [key : Keys, fallback : BOOLEAN, windows : Seq(Window), offset : Nat]]
    BY <1>1, <1>7 DEF Receive, TypeOK, k
  <2>4. resp' \in [Conns -> Response]
    BY <1>1, <1>6 DEF Receive, TypeOK, status
  <2>5. sent' \in [Conns -> 0 .. MaxRequests]
    BY <1>1, BoundsAssumption DEF Receive, TypeOK
  <2>6. hist' \in [Conns -> [hurt : BOOLEAN, floor : [Stores -> Nat], had : SUBSET Docs]]
    BY <1>1 DEF Receive, TypeOK
  <2>7. UNCHANGED <<fetched, anchored, held, up>>
    BY DEF Receive, nodeVars
  <2>8. QED BY <1>1, <2>1, <2>2, <2>3, <2>4, <2>5, <2>6, <2>7 DEF TypeOK
<1>9. ConnInv(c)'
  <2>1. req'[c] = q /\ trusted'[c] = (IF status = 0 THEN t.root ELSE None)
        /\ job'[c] = FetchJob(k, FALSE) /\ resp'[c] = Text(status)
    BY <1>1 DEF Receive, TypeOK, t, k, status
  <2>2. pc'[c] = (IF status # 0 THEN "done"
                  ELSE IF classify(q) = "Control" THEN "health"
                  ELSE IF t.kind = "Latest" THEN "root" ELSE "content")
    BY <1>1 DEF Receive, TypeOK, t, status
  <2>3. KeyRight(c)'
    BY <2>1 DEF KeyRight, FetchJob, k
  <2>4. Target(c)' = t
    BY <2>1 DEF Target, t
  <2>5. PhaseInv(c)'
    BY <1>2, <1>3, <1>4, <2>1, <2>2, <2>3, <2>4 DEF PhaseInv, IsPinned
  <2>6. AuthenticAt(c)'
    BY <1>2, <1>6, <2>1, <2>2 DEF AuthenticAt, Answered, Body
  <2>7. QED BY <2>5, <2>6 DEF ConnInv
<1>10. ASSUME NEW d \in Conns, d # c
       PROVE  ConnInv(d)'
  BY <1>1, <1>10, Frame DEF AuthenticInv, TypeOK, Receive
<1>11. QED BY <1>8, <1>9, <1>10 DEF AuthenticInv

\* Respond: the connection's response, with everything else of it untouched.
LEMMA RespondInv ==
  ASSUME AuthenticInv, NEW c \in Conns, NEW r \in Response, Respond(c, r),
         UNCHANGED <<req, trusted, job, sent, nodeVars>>,
         fetched' \in [Conns -> FetchedType],
         \A d \in Conns : d # c => fetched'[d] = fetched[d],
         hist' \in [Conns -> [hurt : BOOLEAN, floor : [Stores -> Nat], had : SUBSET Docs]],
         classify(req[c]) = "Store" /\ r.status \in {200, 206} =>
           /\ IsPinned(c) => trusted[c] = Target(c).root
           /\ KeyRight(c)
           /\ \E d \in Under(Target(c).store, trusted[c], job[c].key) :
                \/ r.status = 200 /\ r.body = d.pt
                \/ r.status = 206 /\ ~job[c].fallback /\ IsRangeOf(r.body, req[c].range, d.pt)
  PROVE  AuthenticInv'
<1>1. TypeOK
  BY DEF AuthenticInv
<1>2. TypeOK'
  <2>1. pc' \in [Conns -> Phases] /\ resp' \in [Conns -> Response]
    BY <1>1 DEF Respond, TypeOK, Phases
  <2>2. QED BY <1>1, <2>1 DEF TypeOK, nodeVars, FetchedType
<1>3. ConnInv(c)'
  <2>1. pc'[c] = "done" /\ resp'[c] = r
    BY <1>1 DEF Respond, TypeOK
  <2>2. PhaseInv(c)'
    BY <2>1 DEF PhaseInv
  <2>3. AuthenticAt(c)'
    BY <2>1 DEF AuthenticAt, Answered, Body, IsPinned, Target, KeyRight
  <2>4. QED BY <2>2, <2>3 DEF ConnInv
<1>4. ASSUME NEW d \in Conns, d # c
      PROVE  ConnInv(d)'
  BY <1>1, <1>4, Frame DEF AuthenticInv, TypeOK, Respond
<1>5. QED BY <1>2, <1>3, <1>4 DEF AuthenticInv

\* Health: a control request, so its 200 is no store's body.
LEMMA HealthInv ==
  ASSUME AuthenticInv, NEW c \in Conns, Health(c)
  PROVE  AuthenticInv'
<1>1. TypeOK /\ PhaseInv(c)
  BY DEF AuthenticInv, ConnInv
<1>2. classify(req[c]) = "Control"
  BY <1>1 DEF Health, PhaseInv
<1>3. PICK b \in BOOLEAN : Respond(c, [Text(200) EXCEPT !.reachable = b])
  BY <1>1 DEF Health, TypeOK
<1>4. [Text(200) EXCEPT !.reachable = b] \in Response
  <2>1. Text(200) \in Response
    BY TextType
  <2>2. QED BY <2>1 DEF Response
<1>5. hist' \in [Conns -> [hurt : BOOLEAN, floor : [Stores -> Nat], had : SUBSET Docs]]
  BY <1>1 DEF Health, TypeOK
<1>6. fetched' \in [Conns -> FetchedType] /\ fetched' = fetched
  BY <1>1 DEF Health, TypeOK, FetchedType
<1>7. QED BY <1>2, <1>3, <1>4, <1>5, <1>6, RespondInv DEF Health

\* NoteHurt only adds to a request's history.
LEMMA HurtTyped ==
  ASSUME TypeOK, NEW c \in Conns, NEW a, NoteHurt(c, a)
  PROVE  hist' \in [Conns -> [hurt : BOOLEAN, floor : [Stores -> Nat], had : SUBSET Docs]]
<1>1. hist[c].hurt \in BOOLEAN
  BY DEF TypeOK
<1>2. (hist[c].hurt \/ (a.tag = "error" /\ a.code = "Transport")) \in BOOLEAN
  OBVIOUS
<1>3. QED BY <1>2 DEF NoteHurt, TypeOK

\* The requested store, once the host parsed.
LEMMA TargetTyped ==
  ASSUME TypeOK, NEW c \in Conns, classify(req[c]) = "Store"
  PROVE  Target(c).store \in Id
<1>1. req[c] \in Requests
  BY DEF TypeOK
<1>2. parse_dig_host(host_of(req[c])).kind # "Err"
  BY DEF classify
<1>3. QED BY <1>1, <1>2, TargetIds DEF Target

\* ResolveRoot: an id becomes the trusted root of a host that pins none.
LEMMA ResolveRootInv ==
  ASSUME AuthenticInv, NEW c \in Conns, ResolveRoot(c)
  PROVE  AuthenticInv'
<1>1. TypeOK /\ PhaseInv(c)
  BY DEF AuthenticInv, ConnInv
<1>2. pc[c] = "root" /\ classify(req[c]) = "Store" /\ Target(c).kind = "Latest" /\ KeyRight(c)
  BY <1>1 DEF ResolveRoot, PhaseInv
<1>3. Target(c).store \in Id
  BY <1>1, <1>2, TargetTyped
<1>4. PICK x \in RootAnswers(Target(c).store) :
        LET a == parse_anchored_root(x)
        IN  /\ NoteHurt(c, a)
            /\ IF a.tag = "root"
               THEN /\ trusted' = [trusted EXCEPT ![c] = a.root]
                    /\ pc' = [pc EXCEPT ![c] = "content"]
                    /\ UNCHANGED <<resp, cached>>
               ELSE /\ Respond(c, Text(IF is_not_found(a.code) THEN 404 ELSE 502))
                    /\ UNCHANGED trusted
  BY DEF ResolveRoot
<1> DEFINE a == parse_anchored_root(x)
<1>5. a.tag = "root" => a.root \in Id
  BY <1>1, <1>3, RootAnswerTyped
<1>6. hist' \in [Conns -> [hurt : BOOLEAN, floor : [Stores -> Nat], had : SUBSET Docs]]
  BY <1>1, <1>4, HurtTyped
<1>7. UNCHANGED <<req, job, fetched, sent, nodeVars>>
  BY DEF ResolveRoot
<1> HIDE DEF a
<1>8. CASE a.tag = "root"
  <2>1. /\ trusted' = [trusted EXCEPT ![c] = a.root]
        /\ pc' = [pc EXCEPT ![c] = "content"]
        /\ UNCHANGED <<resp, cached>>
    BY <1>4, <1>8 DEF a
  <2>2. TypeOK'
    <3>1. trusted' \in [Conns -> Id \cup {None}] /\ pc' \in [Conns -> Phases]
      BY <1>1, <1>5, <1>8, <2>1 DEF TypeOK, Phases
    <3>2. QED BY <1>1, <1>6, <1>7, <2>1, <3>1 DEF TypeOK, nodeVars
  <2>3. ConnInv(c)'
    <3>1. pc'[c] = "content" /\ trusted'[c] = a.root
      BY <1>1, <2>1 DEF TypeOK
    <3>2. Target(c)' = Target(c) /\ KeyRight(c)'
      BY <1>2, <1>7 DEF Target, KeyRight
    <3>3. QED
      BY <1>2, <1>5, <1>7, <1>8, <3>1, <3>2
         DEF ConnInv, PhaseInv, AuthenticAt, Answered, IsPinned
  <2>4. ASSUME NEW d \in Conns, d # c
        PROVE  ConnInv(d)'
    BY <1>1, <1>7, <2>1, <2>4, Frame DEF AuthenticInv, TypeOK
  <2>5. QED BY <2>2, <2>3, <2>4 DEF AuthenticInv
<1>9. CASE a.tag # "root"
  <2>1. PICK n \in {404, 502} : Respond(c, Text(n)) /\ UNCHANGED trusted
    BY <1>4, <1>9 DEF a
  <2>2. Text(n) \in Response /\ Text(n).status = n
    BY TextType
  <2>3. fetched' \in [Conns -> FetchedType]
    BY <1>1, <1>7 DEF TypeOK, FetchedType
  <2>4. QED BY <1>6, <1>7, <2>1, <2>2, <2>3, RespondInv
<1>10. QED BY <1>8, <1>9

\* FetchEnds: an outcome is recorded for the connection, right if it is Ok.
LEMMA FetchEndsInv ==
  ASSUME AuthenticInv, NEW c \in Conns, pc[c] = "content", NEW f \in FetchedType,
         FetchEnds(c, f), UNCHANGED <<req, trusted, resp, sent, nodeVars>>,
         hist' \in [Conns -> [hurt : BOOLEAN, floor : [Stores -> Nat], had : SUBSET Docs]],
         f.tag = "Ok" =>
           \E d \in Under(Target(c).store, trusted[c], job[c].key) : f.pt = d.pt
  PROVE  AuthenticInv'
<1>1. TypeOK /\ PhaseInv(c)
  BY DEF AuthenticInv, ConnInv
<1>2. TypeOK'
  <2>1. pc' \in [Conns -> Phases]
    BY <1>1 DEF FetchEnds, TypeOK, Phases
  <2>2. fetched \in [Conns -> FetchedType]
    BY <1>1 DEF TypeOK, FetchedType
  <2>3. fetched' \in [Conns -> FetchedType]
    BY <2>2 DEF FetchEnds
  <2>4. QED BY <1>1, <2>1, <2>3 DEF TypeOK, FetchEnds, nodeVars, FetchedType
<1>3. ConnInv(c)'
  <2>1. pc'[c] = "fetched" /\ fetched'[c] = f /\ job' = job
    BY <1>1 DEF FetchEnds, TypeOK
  <2>2. Target(c)' = Target(c) /\ (KeyRight(c)' <=> KeyRight(c))
    BY <2>1 DEF Target, KeyRight
  <2>3. QED
    BY <1>1, <2>1, <2>2 DEF ConnInv, PhaseInv, AuthenticAt, Answered, IsPinned, Target
<1>4. ASSUME NEW d \in Conns, d # c
      PROVE  ConnInv(d)'
  <2>1. pc'[d] = pc[d] /\ fetched'[d] = fetched[d]
    BY <1>1, <1>4 DEF FetchEnds, TypeOK
  <2>2. QED BY <2>1, Frame DEF AuthenticInv, FetchEnds
<1>5. QED BY <1>2, <1>3, <1>4 DEF AuthenticInv

\* GetContent: pages are collected; the last one decides the outcome.
LEMMA GetContentInv ==
  ASSUME AuthenticInv, NEW c \in Conns, GetContent(c)
  PROVE  AuthenticInv'
<1>1. TypeOK /\ PhaseInv(c)
  BY DEF AuthenticInv, ConnInv
<1>2. pc[c] = "content" /\ classify(req[c]) = "Store" /\ KeyRight(c) /\ trusted[c] \in Id
  BY <1>1 DEF GetContent, PhaseInv
<1>3. Target(c).store \in Id
  BY <1>1, <1>2, TargetTyped
<1>4. job[c].key \in Keys /\ job[c].windows \in Seq(Window) /\ job[c].offset \in Nat
  BY <1>1 DEF TypeOK
<1>5. UNCHANGED <<req, trusted, resp, sent, nodeVars>>
  BY DEF GetContent
<1>6. \A e : OfError(e) \in FetchedType /\ OfError(e).tag # "Ok"
  <2>1. <<>> \in Seq(Byte)
    OBVIOUS
  <2>2. QED BY <2>1 DEF OfError, Fetched, FetchedType
<1>7. CASE ~WithinCap(c)
  <2>1. FetchEnds(c, OfError("Malformed")) /\ UNCHANGED hist
    BY <1>7 DEF GetContent
  <2>2. hist' \in [Conns -> [hurt : BOOLEAN, floor : [Stores -> Nat], had : SUBSET Docs]]
    BY <1>1, <2>1 DEF TypeOK
  <2>3. QED BY <1>2, <1>5, <1>6, <2>1, <2>2, FetchEndsInv
<1>8. CASE WithinCap(c)
  <2>1. PICK a \in ContentAnswers(Target(c).store, job[c].key, trusted[c], job[c].offset) :
          /\ NoteHurt(c, a)
          /\ IF a.tag = "window" THEN Page(c, a.window) ELSE FetchEnds(c, OfError(a.code))
    BY <1>8 DEF GetContent
  <2>2. hist' \in [Conns -> [hurt : BOOLEAN, floor : [Stores -> Nat], had : SUBSET Docs]]
    BY <1>1, <2>1, HurtTyped
  <2>3. CASE a.tag # "window"
    <3>1. FetchEnds(c, OfError(a.code))
      BY <2>1, <2>3
    <3>2. QED BY <1>2, <1>5, <1>6, <2>2, <3>1, FetchEndsInv
  <2>4. CASE a.tag = "window"
    <3> DEFINE w == a.window
               ws == Append(job[c].windows, w)
    <3>1. w \in Window
      BY <1>1, <1>4, <2>4, ContentAnswerTyped
    <3>2. ws \in Seq(Window) /\ ws # <<>>
      BY <1>4, <3>1
    <3>3. Page(c, w)
      BY <2>1, <2>4
    <3> HIDE DEF w
    <3>4. CASE w.complete
      <4>1. FetchEnds(c, OfWindows(c, ws))
        BY <3>3, <3>4 DEF Page
      <4>2. /\ OfWindows(c, ws) \in FetchedType
            /\ OfWindows(c, ws).tag = "Ok" =>
                 \E d \in Under(Target(c).store, trusted[c], job[c].key) :
                   OfWindows(c, ws).pt = d.pt
        BY <1>3, <1>4, <3>2, OfWindowsSound
      <4> HIDE DEF ws
      <4>3. QED BY <1>2, <1>5, <2>2, <4>1, <4>2, FetchEndsInv
    <3>5. CASE ~w.complete /\ ~Advances(c, w)
      <4>1. FetchEnds(c, OfError("Malformed"))
        BY <3>3, <3>5 DEF Page
      <4>2. QED BY <1>2, <1>5, <1>6, <2>2, <4>1, FetchEndsInv
    <3>6. CASE ~w.complete /\ Advances(c, w)
      <4> HIDE DEF ws
      <4> DEFINE j == [job[c] EXCEPT !.windows = ws, !.offset = w.next]
      <4>1. job' = [job EXCEPT ![c] = j]
            /\ UNCHANGED <<fetched, pc>>
        BY <3>3, <3>6 DEF Page, ws
      <4>2. w.next \in Nat
        BY <3>1, <3>6 DEF Advances, Window
      <4>3. job' \in [Conns -> [key : Keys, fallback : BOOLEAN, windows : Seq(Window), offset : Nat]]
        <5>1. job[c] \in [key : Keys, fallback : BOOLEAN, windows : Seq(Window), offset : Nat]
          BY <1>1 DEF TypeOK
        <5>2. j \in [key : Keys, fallback : BOOLEAN, windows : Seq(Window), offset : Nat]
          BY <3>2, <4>2, <5>1
        <5> HIDE DEF j
        <5>3. QED BY <1>1, <4>1, <5>2 DEF TypeOK
      <4>4. TypeOK'
        BY <1>1, <1>5, <2>2, <4>1, <4>3 DEF TypeOK, nodeVars
      <4>5. job'[c].key = job[c].key /\ job'[c].fallback = job[c].fallback
        BY <1>1, <4>1 DEF TypeOK
      <4>6. ConnInv(c)'
        BY <1>1, <1>2, <1>5, <4>1, <4>5
           DEF ConnInv, PhaseInv, AuthenticAt, Answered, IsPinned, Target, KeyRight
      <4>7. ASSUME NEW d \in Conns, d # c
            PROVE  ConnInv(d)'
        <5>1. job'[d] = job[d]
          BY <1>1, <4>1, <4>7 DEF TypeOK
        <5>2. QED BY <1>5, <4>1, <5>1, Frame DEF AuthenticInv
      <4>8. QED BY <4>4, <4>6, <4>7 DEF AuthenticInv
    <3>7. QED BY <3>4, <3>5, <3>6
  <2>5. QED BY <2>3, <2>4
<1>9. QED BY <1>7, <1>8

\* Serve: a route falls back to index.html once; anything else is answered.
LEMMA ServeInv ==
  ASSUME AuthenticInv, NEW c \in Conns, Serve(c)
  PROVE  AuthenticInv'
<1>1. TypeOK /\ PhaseInv(c)
  BY DEF AuthenticInv, ConnInv
<1>2. /\ pc[c] = "fetched" /\ classify(req[c]) = "Store" /\ KeyRight(c) /\ trusted[c] \in Id
      /\ IsPinned(c) => trusted[c] = Target(c).root
      /\ fetched[c].tag = "Ok" =>
           \E d \in Under(Target(c).store, trusted[c], job[c].key) : fetched[c].pt = d.pt
  BY <1>1 DEF Serve, PhaseInv
<1>3. /\ fetched' = [fetched EXCEPT ![c] = NotFetched]
      /\ UNCHANGED <<req, trusted, sent, hist, nodeVars>>
  BY DEF Serve
<1>4. hist' \in [Conns -> [hurt : BOOLEAN, floor : [Stores -> Nat], had : SUBSET Docs]]
  BY <1>1, <1>3 DEF TypeOK
<1>5. /\ fetched' \in [Conns -> FetchedType]
      /\ \A d \in Conns : d # c => fetched'[d] = fetched[d]
  <2>1. <<>> \in Seq(Byte)
    OBVIOUS
  <2>2. NotFetched \in FetchedType
    BY <2>1 DEF NotFetched, FetchedType
  <2>3. fetched \in [Conns -> FetchedType]
    BY <1>1 DEF TypeOK, FetchedType
  <2>4. QED BY <1>3, <2>2, <2>3
<1>6. CASE FallsBack(c)
  <2>1. /\ job' = [job EXCEPT ![c] = FetchJob(IndexKey, TRUE)]
        /\ pc' = [pc EXCEPT ![c] = "content"]
        /\ UNCHANGED resp
    BY <1>6 DEF Serve
  <2>2. is_extensionless(req[c].path)
    BY <1>6 DEF FallsBack
  <2>3. TypeOK'
    <3>1. <<>> \in Seq(Window)
      OBVIOUS
    <3>2. FetchJob(IndexKey, TRUE)
            \in [key : Keys, fallback : BOOLEAN, windows : Seq(Window), offset : Nat]
      BY <3>1, KeysTyped DEF FetchJob
    <3>3. job' \in [Conns -> [key : Keys, fallback : BOOLEAN, windows : Seq(Window), offset : Nat]]
      BY <1>1, <2>1, <3>2 DEF TypeOK
    <3>4. pc' \in [Conns -> Phases]
      BY <1>1, <2>1 DEF TypeOK, Phases
    <3>5. QED BY <1>1, <1>3, <1>4, <1>5, <2>1, <3>3, <3>4 DEF TypeOK, nodeVars, FetchedType
  <2>4. ConnInv(c)'
    <3>1. pc'[c] = "content" /\ job'[c] = FetchJob(IndexKey, TRUE)
      BY <1>1, <2>1 DEF TypeOK
    <3>2. KeyRight(c)'
      BY <1>3, <2>2, <3>1 DEF KeyRight, FetchJob
    <3>3. Target(c)' = Target(c)
      BY <1>3 DEF Target
    <3>4. QED
      BY <1>2, <1>3, <3>1, <3>2, <3>3
         DEF ConnInv, PhaseInv, AuthenticAt, Answered, IsPinned
  <2>5. ASSUME NEW d \in Conns, d # c
        PROVE  ConnInv(d)'
    <3>1. pc'[d] = pc[d] /\ job'[d] = job[d] /\ fetched'[d] = fetched[d]
      BY <1>1, <1>3, <2>1, <2>5 DEF TypeOK
    <3>2. QED BY <1>3, <2>1, <3>1, Frame DEF AuthenticInv
  <2>6. QED BY <2>3, <2>4, <2>5 DEF AuthenticInv
<1>7. CASE ~FallsBack(c) /\ fetched[c].tag = "Ok"
  <2> DEFINE r == ok_body_response(fetched[c].pt, RangeOf(c), IsPinned(c))
  <2>1. Respond(c, r) /\ UNCHANGED job
    BY <1>7 DEF Serve
  <2>2. fetched[c].pt \in Seq(Byte) /\ req[c].range \in Header
    BY <1>1, RequestsAssumption DEF TypeOK, Request
  <2>3. RangeOf(c) \in Header /\ (RangeOf(c).single => RangeOf(c) = req[c].range /\ ~job[c].fallback)
    BY <2>2 DEF RangeOf, WholeHeader, Header, Field
  <2>4. IsPinned(c) \in BOOLEAN
    BY DEF IsPinned
  <2>5. /\ r \in Response
        /\ \/ r.status = 200 /\ r.body = fetched[c].pt
           \/ r.status = 416
           \/ r.status = 206 /\ RangeOf(c).single /\ IsRangeOf(r.body, RangeOf(c), fetched[c].pt)
    BY <2>2, <2>3, <2>4, OkBodyType
  <2> HIDE DEF r
  <2>6. r.status \in {200, 206} =>
          \E d \in Under(Target(c).store, trusted[c], job[c].key) :
            \/ r.status = 200 /\ r.body = d.pt
            \/ r.status = 206 /\ ~job[c].fallback /\ IsRangeOf(r.body, req[c].range, d.pt)
    BY <1>2, <1>7, <2>3, <2>5
  <2>7. UNCHANGED <<req, trusted, job, sent, nodeVars>>
    BY <1>3, <2>1
  <2>8. QED BY <1>2, <1>4, <1>5, <2>1, <2>5, <2>6, <2>7, RespondInv
<1>8. CASE ~FallsBack(c) /\ fetched[c].tag # "Ok"
  <2>1. PICK n \in {404, 502} : Respond(c, Text(n)) /\ UNCHANGED job
    BY <1>8 DEF Serve, FetchedStatus
  <2>2. Text(n) \in Response /\ Text(n).status = n
    BY TextType
  <2>3. UNCHANGED <<req, trusted, job, sent, nodeVars>>
    BY <1>3, <2>1
  <2>4. Text(n).status \notin {200, 206}
    BY <2>2
  <2>5. QED BY <1>4, <1>5, <2>1, <2>2, <2>3, <2>4, RespondInv
<1>9. QED BY <1>6, <1>7, <1>8

\* Deliver and Disconnect: a forgotten request leaves an idle connection.
LEMMA ForgetInv ==
  ASSUME AuthenticInv, NEW c \in Conns, Forget(c)
  PROVE  AuthenticInv'
<1>1. TypeOK
  BY DEF AuthenticInv
<1>2. TypeOK'
  <2>1. AnyRequest \in Requests
    BY RequestsAssumption DEF AnyRequest
  <2>2. <<>> \in Seq(Window)
    OBVIOUS
  <2>3. NoJob \in [key : Keys, fallback : BOOLEAN, windows : Seq(Window), offset : Nat]
    BY <2>2, KeysTyped DEF NoJob
  <2>4. NoResponse \in Response
    BY TextType DEF NoResponse
  <2>5. NoHist \in [hurt : BOOLEAN, floor : [Stores -> Nat], had : SUBSET Docs]
    BY DEF NoHist
  <2>6. pc' \in [Conns -> Phases] /\ req' \in [Conns -> Requests]
        /\ trusted' \in [Conns -> Id \cup {None}]
    BY <1>1, <2>1 DEF Forget, TypeOK, Phases
  <2>7. job' \in [Conns -> [key : Keys, fallback : BOOLEAN, windows : Seq(Window), offset : Nat]]
    BY <1>1, <2>3 DEF Forget, TypeOK
  <2>8. resp' \in [Conns -> Response]
    BY <1>1, <2>4 DEF Forget, TypeOK
  <2>9. hist' \in [Conns -> [hurt : BOOLEAN, floor : [Stores -> Nat], had : SUBSET Docs]]
    BY <1>1, <2>5 DEF Forget, TypeOK
  <2>10. QED BY <1>1, <2>6, <2>7, <2>8, <2>9 DEF TypeOK, Forget, nodeVars
<1>3. ConnInv(c)'
  <2>1. pc'[c] = "idle"
    BY <1>1 DEF Forget, TypeOK
  <2>2. QED BY <2>1 DEF ConnInv, PhaseInv, AuthenticAt, Answered
<1>4. ASSUME NEW d \in Conns, d # c
      PROVE  ConnInv(d)'
  BY <1>1, <1>4, Frame DEF AuthenticInv, TypeOK, Forget
<1>5. QED BY <1>2, <1>3, <1>4 DEF AuthenticInv

\* The chain, the node and stuttering leave every connection alone.
LEMMA EnvironmentInv ==
  ASSUME AuthenticInv,
         (\E s \in Stores : Anchor(s)) \/ (\E d \in Docs : Sync(d)) \/ NodeFlips \/ UNCHANGED vars
  PROVE  AuthenticInv'
<1>1. TypeOK
  BY DEF AuthenticInv
<1>2. UNCHANGED <<pc, req, trusted, job, fetched, resp, sent, hist>>
  BY DEF Anchor, Sync, NodeFlips, vars, connVars
<1>3. anchored' \in [Stores -> Nat] /\ \A s \in Stores : anchored'[s] <= Len(History[s])
  <2>1. CASE \E s \in Stores : Anchor(s)
    <3>1. PICK s \in Stores : Anchor(s)
      BY <2>1
    <3>2. Len(History[s]) \in Nat
      BY HistoryAssumption DEF Stores
    <3>3. QED BY <1>1, <3>1, <3>2 DEF TypeOK, Anchor
  <2>2. CASE UNCHANGED anchored
    BY <1>1, <2>2 DEF TypeOK
  <2>3. QED BY <2>1, <2>2 DEF Sync, NodeFlips, vars
<1>4. held' \subseteq Docs /\ up' \in BOOLEAN
  BY <1>1 DEF TypeOK, Anchor, Sync, NodeFlips, vars
<1>5. TypeOK'
  BY <1>1, <1>2, <1>3, <1>4 DEF TypeOK
<1>6. \A c \in Conns : ConnInv(c)'
  BY <1>2, Frame DEF AuthenticInv
<1>7. QED BY <1>5, <1>6 DEF AuthenticInv

\* The invariant holds in every state of the gateway, for any number of connections and
\* any node.
THEOREM AuthenticInvariant == Spec => []AuthenticInv
<1>1. AuthenticInv /\ [Next]_vars => AuthenticInv'
  <2> SUFFICES ASSUME AuthenticInv, [Next]_vars
               PROVE  AuthenticInv'
    OBVIOUS
  <2>1. ASSUME NEW c \in Conns, NEW q \in Requests, Receive(c, q)
        PROVE  AuthenticInv'
    BY <2>1, ReceiveInv
  <2>2. ASSUME NEW c \in Conns, Health(c)
        PROVE  AuthenticInv'
    BY <2>2, HealthInv
  <2>3. ASSUME NEW c \in Conns, ResolveRoot(c)
        PROVE  AuthenticInv'
    BY <2>3, ResolveRootInv
  <2>4. ASSUME NEW c \in Conns, GetContent(c)
        PROVE  AuthenticInv'
    BY <2>4, GetContentInv
  <2>5. ASSUME NEW c \in Conns, Serve(c)
        PROVE  AuthenticInv'
    BY <2>5, ServeInv
  <2>6. ASSUME NEW c \in Conns, Deliver(c) \/ Disconnect(c)
        PROVE  AuthenticInv'
    BY <2>6, ForgetInv DEF Deliver, Disconnect
  <2>7. CASE (\E s \in Stores : Anchor(s)) \/ (\E d \in Docs : Sync(d)) \/ NodeFlips
             \/ UNCHANGED vars
    BY <2>7, EnvironmentInv
  <2>8. QED BY <2>1, <2>2, <2>3, <2>4, <2>5, <2>6, <2>7 DEF Next
<1>2. QED BY <1>1, InitInv, PTL DEF Spec

\* Every variable of the gateway, the node and the history keeps its type.
THEOREM TypeCorrect == Spec => []TypeOK
<1>1. AuthenticInv => TypeOK
  BY DEF AuthenticInv
<1>2. QED BY <1>1, AuthenticInvariant, PTL

\* Whatever the node answers and however requests interleave, a body served for a store
\* is the authentic plaintext (or the asked-for range of it) of the resource that the
\* trusted root commits to under the requested key.
THEOREM ServedIsAuthentic == Spec => []Authentic
<1>1. AuthenticInv => Authentic
  BY DEF AuthenticInv, ConnInv, Authentic
<1>2. QED BY <1>1, AuthenticInvariant, PTL

\* The gateway is never an open proxy: a proxy request for an authority outside the tld is
\* answered 403 or 405 at once, and no await on the node belongs to it.
THEOREM NotAnOpenProxy == Spec => []NeverOpenProxy
<1>1. Init => NeverOpenProxy
  BY DEF Init, NeverOpenProxy
<1>2. TypeOK /\ NeverOpenProxy /\ [Next]_vars => NeverOpenProxy'
  <2> SUFFICES ASSUME TypeOK, NeverOpenProxy, [Next]_vars,
                      NEW d \in Conns, pc'[d] # "idle", req'[d].proxy, ~req'[d].host.tld
               PROVE  pc'[d] = "done" /\ resp'[d].status \in {403, 405}
    BY DEF NeverOpenProxy
  <2>1. CASE pc'[d] = pc[d] /\ req'[d] = req[d] /\ resp'[d] = resp[d]
    BY <2>1 DEF NeverOpenProxy
  <2>2. ASSUME NEW q \in Requests, Receive(d, q)
        PROVE  pc'[d] = "done" /\ resp'[d].status \in {403, 405}
    <3>1. req'[d] = q /\ resp'[d] = Text(handle(q))
          /\ (handle(q) # 0 => pc'[d] = "done")
      BY <2>2 DEF Receive, TypeOK
    <3>2. handle(q) \in {403, 405}
      <4>1. host_of(q).tld = q.host.tld
        BY RequestsAssumption DEF Request, Host, host_of
      <4>2. QED BY <3>1, <4>1 DEF handle, classify, host_is_under_tld
    <3>3. QED BY <3>1, <3>2 DEF Text
  <2>3. CASE Health(d) \/ ResolveRoot(d) \/ GetContent(d) \/ Serve(d)
    <3>1. pc[d] \notin {"idle", "done"} /\ req' = req
      BY <2>3 DEF Health, ResolveRoot, GetContent, Serve
    <3>2. QED BY <3>1 DEF NeverOpenProxy
  <2>4. CASE Deliver(d) \/ Disconnect(d)
    BY <2>4 DEF Deliver, Disconnect, Forget, TypeOK
  <2>5. ASSUME NEW c \in Conns, c # d,
               \/ \E q \in Requests : Receive(c, q)
               \/ Health(c) \/ ResolveRoot(c) \/ GetContent(c) \/ Serve(c)
               \/ Deliver(c) \/ Disconnect(c)
        PROVE  pc'[d] = pc[d] /\ req'[d] = req[d] /\ resp'[d] = resp[d]
    <3>1. CASE \E q \in Requests : Receive(c, q)
      BY <2>5, <3>1 DEF Receive, TypeOK
    <3>2. CASE Health(c) \/ ResolveRoot(c)
      BY <2>5, <3>2 DEF Health, ResolveRoot, Respond, TypeOK
    <3>3. CASE GetContent(c)
      BY <2>5, <3>3 DEF GetContent, FetchEnds, Page, TypeOK
    <3>4. CASE Serve(c)
      BY <2>5, <3>4 DEF Serve, Respond, TypeOK
    <3>5. CASE Deliver(c) \/ Disconnect(c)
      BY <2>5, <3>5 DEF Deliver, Disconnect, Forget, TypeOK
    <3>6. QED BY <2>5, <3>1, <3>2, <3>3, <3>4, <3>5
  <2>6. CASE (\E s \in Stores : Anchor(s)) \/ (\E x \in Docs : Sync(x)) \/ NodeFlips
             \/ UNCHANGED vars
    BY <2>1, <2>6 DEF Anchor, Sync, NodeFlips, connVars, vars
  <2>7. QED BY <2>1, <2>2, <2>3, <2>4, <2>5, <2>6 DEF Next
<1>3. QED BY <1>1, <1>2, TypeCorrect, PTL DEF Spec

(***************************************************************************)
(* Roots, failures and caches.  These properties are about one connection  *)
(* at a time, and a step touches at most one.                              *)
(***************************************************************************)
SameConn(d) ==
  /\ pc'[d] = pc[d] /\ req'[d] = req[d] /\ trusted'[d] = trusted[d] /\ job'[d] = job[d]
  /\ fetched'[d] = fetched[d] /\ resp'[d] = resp[d] /\ hist'[d] = hist[d]

Serves(d) ==
  \/ \E q \in Requests : Receive(d, q)
  \/ Health(d) \/ ResolveRoot(d) \/ GetContent(d) \/ Serve(d)
  \/ Deliver(d) \/ Disconnect(d)

\* What the history of other requests is when one of them is hurt.
LEMMA HurtElsewhere ==
  ASSUME TypeOK, NEW c \in Conns, NEW d \in Conns, c # d, NEW a, NoteHurt(c, a)
  PROVE  hist'[d] = hist[d]
BY DEF NoteHurt, TypeOK

\* A step that is not a connection's own leaves that connection alone.
LEMMA OneConn ==
  ASSUME TypeOK, [Next]_vars, NEW d \in Conns
  PROVE  Serves(d) \/ SameConn(d)
<1>1. ASSUME NEW c \in Conns, c # d, Serves(c)
      PROVE  SameConn(d)
  <2>1. CASE \E q \in Requests : Receive(c, q)
    BY <1>1, <2>1 DEF Receive, TypeOK, SameConn
  <2>2. CASE Health(c)
    BY <1>1, <2>2 DEF Health, Respond, TypeOK, SameConn
  <2>3. CASE ResolveRoot(c)
    <3>1. hist'[d] = hist[d]
      BY <1>1, <2>3, HurtElsewhere DEF ResolveRoot
    <3>2. QED BY <1>1, <2>3, <3>1 DEF ResolveRoot, Respond, TypeOK, SameConn
  <2>4. CASE GetContent(c)
    <3>1. hist'[d] = hist[d]
      BY <1>1, <2>4, HurtElsewhere DEF GetContent
    <3>2. QED BY <1>1, <2>4, <3>1 DEF GetContent, FetchEnds, Page, TypeOK, SameConn
  <2>5. CASE Serve(c)
    BY <1>1, <2>5 DEF Serve, Respond, TypeOK, SameConn
  <2>6. CASE Deliver(c) \/ Disconnect(c)
    BY <1>1, <2>6 DEF Deliver, Disconnect, Forget, TypeOK, SameConn
  <2>7. QED BY <1>1, <2>1, <2>2, <2>3, <2>4, <2>5, <2>6 DEF Serves
<1>2. CASE (\E s \in Stores : Anchor(s)) \/ (\E x \in Docs : Sync(x)) \/ NodeFlips
           \/ UNCHANGED vars
  BY <1>2 DEF Anchor, Sync, NodeFlips, connVars, vars, SameConn
<1>3. QED BY <1>1, <1>2 DEF Next, Serves

\* Why UnreachableIs502 is inductive: an unanswered call ends the fetch as unreachable,
\* or is answered 502 at once, and no step but the answer follows.
HurtAt(c) ==
  hist[c].hurt =>
    \/ pc[c] = "fetched" /\ fetched[c].tag = "NodeUnreachable"
    \/ pc[c] = "done" /\ resp[c].status = 502

HurtInv == \A c \in Conns : HurtAt(c)

LEMMA HurtStep ==
  ASSUME TypeOK, HurtInv, NEW d \in Conns, Serves(d)
  PROVE  HurtAt(d)'
<1>1. HurtAt(d)
  BY DEF HurtInv
<1>2. CASE \E q \in Requests : Receive(d, q)
  <2>1. hist'[d].hurt = FALSE
    BY <1>2 DEF Receive, TypeOK
  <2>2. QED BY <2>1 DEF HurtAt
<1>3. CASE Health(d)
  <2>1. hist'[d] = hist[d] /\ pc[d] = "health"
    BY <1>3 DEF Health
  <2>2. QED BY <1>1, <2>1 DEF HurtAt
<1>4. CASE ResolveRoot(d)
  <2>1. pc[d] = "root" /\ ~hist[d].hurt
    BY <1>1, <1>4 DEF ResolveRoot, HurtAt
  <2>2. PICK x \in RootAnswers(Target(d).store) :
          LET a == parse_anchored_root(x)
          IN  /\ NoteHurt(d, a)
              /\ a.tag # "root" =>
                   Respond(d, Text(IF is_not_found(a.code) THEN 404 ELSE 502))
    BY <1>4 DEF ResolveRoot
  <2> DEFINE a == parse_anchored_root(x)
  <2> HIDE DEF a
  <2>3. hist'[d].hurt => a.tag = "error" /\ a.code = "Transport"
    BY <2>1, <2>2 DEF NoteHurt, TypeOK, a
  <2>4. CASE a.tag = "error" /\ a.code = "Transport"
    <3>1. Respond(d, Text(502))
      BY <2>2, <2>4 DEF a, is_not_found
    <3>2. pc'[d] = "done" /\ resp'[d] = Text(502)
      BY <3>1 DEF Respond, TypeOK
    <3>3. QED BY <3>2 DEF HurtAt, Text
  <2>5. QED BY <2>3, <2>4 DEF HurtAt
<1>5. CASE GetContent(d)
  <2>1. pc[d] = "content" /\ ~hist[d].hurt
    BY <1>1, <1>5 DEF GetContent, HurtAt
  <2>2. CASE ~WithinCap(d)
    BY <1>5, <2>1, <2>2 DEF GetContent, HurtAt
  <2>3. CASE WithinCap(d)
    <3>1. PICK a \in ContentAnswers(Target(d).store, job[d].key, trusted[d], job[d].offset) :
            /\ NoteHurt(d, a)
            /\ a.tag # "window" => FetchEnds(d, OfError(a.code))
      BY <1>5, <2>3 DEF GetContent
    <3>2. hist'[d].hurt => a.tag = "error" /\ a.code = "Transport"
      BY <2>1, <3>1 DEF NoteHurt, TypeOK
    <3>3. CASE a.tag = "error" /\ a.code = "Transport"
      <4>1. FetchEnds(d, OfError("Transport"))
        BY <3>1, <3>3
      <4>2. pc'[d] = "fetched" /\ fetched'[d] = OfError("Transport")
        BY <4>1 DEF FetchEnds, TypeOK
      <4>3. QED BY <4>2 DEF HurtAt, OfError, Fetched, is_not_found
    <3>4. QED BY <3>2, <3>3 DEF HurtAt
  <2>4. QED BY <2>2, <2>3
<1>6. CASE Serve(d)
  <2>1. hist'[d] = hist[d] /\ pc[d] = "fetched"
    BY <1>6 DEF Serve
  <2>2. CASE hist[d].hurt
    <3>1. fetched[d].tag = "NodeUnreachable"
      BY <1>1, <2>1, <2>2 DEF HurtAt
    <3>2. Respond(d, Text(502))
      BY <1>6, <3>1 DEF Serve, FallsBack, FetchedStatus
    <3>3. pc'[d] = "done" /\ resp'[d] = Text(502)
      BY <3>2 DEF Respond, TypeOK
    <3>4. QED BY <3>3 DEF HurtAt, Text
  <2>3. QED BY <2>1, <2>2 DEF HurtAt
<1>7. CASE Deliver(d) \/ Disconnect(d)
  <2>1. hist'[d] = NoHist
    BY <1>7 DEF Deliver, Disconnect, Forget, TypeOK
  <2>2. QED BY <2>1 DEF HurtAt, NoHist
<1>8. QED BY <1>2, <1>3, <1>4, <1>5, <1>6, <1>7 DEF Serves

LEMMA HurtInvariant == Spec => []HurtInv
<1>1. Init => HurtInv
  BY DEF Init, HurtInv, HurtAt, NoHist
<1>2. TypeOK /\ HurtInv /\ [Next]_vars => HurtInv'
  <2> SUFFICES ASSUME TypeOK, HurtInv, [Next]_vars, NEW d \in Conns
               PROVE  HurtAt(d)'
    BY DEF HurtInv
  <2>1. CASE SameConn(d)
    BY <2>1 DEF SameConn, HurtInv, HurtAt
  <2>2. QED BY <2>1, HurtStep, OneConn
<1>3. QED BY <1>1, <1>2, TypeCorrect, PTL DEF Spec

\* A call to the node that got no answer is a 502 to the client, whether it was the
\* resolution of the root, any window of the resource, or any window of the fallback page.
THEOREM FailureIsTold == Spec => []UnreachableIs502
<1>1. HurtInv => UnreachableIs502
  BY DEF HurtInv, HurtAt, UnreachableIs502, Answered
<1>2. QED BY <1>1, HurtInvariant, PTL

\* Why FreshRoot is inductive: the floor a request notes stays below what is anchored,
\* and from the resolution of the root on the trusted root is one anchored above it.
RootFresh(c) ==
  LET s == Target(c).store
  IN  /\ s \in Stores
      /\ \E i \in hist[c].floor[s] .. anchored[s] : i > 0 /\ trusted[c] = History[s][i]

FloorAt(c) == \A s \in Stores : hist[c].floor[s] <= anchored[s]

FreshAt(c) ==
  /\ classify(req[c]) = "Store" /\ Target(c).kind = "Latest"
  /\ pc[c] \in {"content", "fetched"}
       \/ (pc[c] = "done" /\ resp[c].status \in {200, 206, 416})
  => RootFresh(c)

FreshInv == \A c \in Conns : FloorAt(c) /\ FreshAt(c)

\* Roots are only ever added.
LEMMA AnchoredGrows ==
  ASSUME TypeOK, [Next]_vars
  PROVE  \A s \in Stores : anchored'[s] \in Nat /\ anchored[s] <= anchored'[s]
<1>1. CASE \E s \in Stores : Anchor(s)
  BY <1>1 DEF Anchor, TypeOK
<1>2. CASE anchored' = anchored
  BY <1>2 DEF TypeOK
<1>3. anchored' = anchored \/ \E s \in Stores : Anchor(s)
  BY DEF Next, vars, Receive, Health, ResolveRoot, GetContent, Serve, Deliver, Disconnect,
         Forget, Sync, NodeFlips, nodeVars
<1>4. QED BY <1>1, <1>2, <1>3

\* A request that notes the same floor and trusts the same root stays fresh.
LEMMA FreshKept ==
  ASSUME TypeOK, [Next]_vars, NEW d \in Conns, RootFresh(d),
         req'[d] = req[d], trusted'[d] = trusted[d], hist'[d].floor = hist[d].floor
  PROVE  RootFresh(d)'
<1> DEFINE s == Target(d).store
<1>1. Target(d)' = Target(d)
  BY DEF Target
<1>2. s \in Stores
  BY DEF RootFresh
<1>3. anchored[s] \in Nat /\ anchored'[s] \in Nat /\ anchored[s] <= anchored'[s]
  BY <1>2, AnchoredGrows DEF TypeOK
<1>4. hist[d].floor[s] \in Nat
  BY <1>2 DEF TypeOK
<1>5. PICK i \in hist[d].floor[s] .. anchored[s] : i > 0 /\ trusted[d] = History[s][i]
  BY DEF RootFresh
<1>6. i \in hist'[d].floor[s] .. anchored'[s]
  BY <1>3, <1>4, <1>5
<1> HIDE DEF s
<1>7. QED BY <1>1, <1>2, <1>5, <1>6 DEF RootFresh, s

\* The root an honest node names is the last one anchored.
LEMMA HonestRoot ==
  ASSUME TypeOK, NodeHonest, NEW st, NEW x \in RootAnswers(st),
         parse_anchored_root(x).tag = "root"
  PROVE  /\ st \in Stores /\ anchored[st] > 0
         /\ parse_anchored_root(x).root = History[st][anchored[st]]
<1>1. x.tag = "root" /\ parse_anchored_root(x) = x
  BY DEF parse_anchored_root, Error
<1>2. x = RootIs(History[st][anchored[st]]) /\ AnchoredRoots(st) # {}
  BY <1>1 DEF RootAnswers, Error
<1>3. st \in Stores /\ anchored[st] \in Nat /\ 1 .. anchored[st] # {}
  BY <1>2 DEF AnchoredRoots, TypeOK
<1>4. QED BY <1>1, <1>2, <1>3 DEF RootIs

LEMMA FreshStep ==
  ASSUME NodeHonest, AuthenticInv, FreshInv, [Next]_vars, NEW d \in Conns, Serves(d)
  PROVE  FloorAt(d)' /\ FreshAt(d)'
<1>1. TypeOK /\ PhaseInv(d) /\ FloorAt(d) /\ FreshAt(d)
  BY DEF AuthenticInv, ConnInv, FreshInv
<1>2. \A s \in Stores : anchored[s] \in Nat /\ anchored'[s] \in Nat /\ anchored[s] <= anchored'[s]
  BY <1>1, AnchoredGrows DEF TypeOK
<1>3. \A s \in Stores : hist[d].floor[s] \in Nat
  BY <1>1 DEF TypeOK
<1>4. ASSUME hist'[d].floor = hist[d].floor
      PROVE  FloorAt(d)'
  BY <1>1, <1>2, <1>3, <1>4 DEF FloorAt
<1>5. CASE \E q \in Requests : Receive(d, q)
  <2>1. PICK q \in Requests : Receive(d, q)
    BY <1>5
  <2>2. req'[d] = q /\ resp'[d] = Text(handle(q)) /\ hist'[d].floor = anchored
    BY <1>1, <2>1 DEF Receive, TypeOK
  <2>3. pc'[d] = IF handle(q) # 0 THEN "done"
                 ELSE IF classify(q) = "Control" THEN "health"
                 ELSE IF parse_dig_host(host_of(q)).kind = "Latest" THEN "root" ELSE "content"
    BY <1>1, <2>1 DEF Receive, TypeOK
  <2>4. FloorAt(d)'
    BY <1>2, <2>2 DEF FloorAt
  <2>5. FreshAt(d)'
    BY <2>2, <2>3, HandleStatus DEF FreshAt, Target, Text
  <2>6. QED BY <2>4, <2>5
<1>6. CASE Health(d)
  <2>1. hist' = hist /\ req' = req /\ pc[d] = "health"
    BY <1>6 DEF Health
  <2>2. classify(req[d]) = "Control"
    BY <1>1, <2>1 DEF PhaseInv
  <2>3. QED BY <1>4, <2>1, <2>2 DEF FreshAt
<1>7. CASE ResolveRoot(d)
  <2>1. PICK x \in RootAnswers(Target(d).store) :
          LET a == parse_anchored_root(x)
          IN  /\ NoteHurt(d, a)
              /\ IF a.tag = "root"
                 THEN trusted' = [trusted EXCEPT ![d] = a.root] /\ pc' = [pc EXCEPT ![d] = "content"]
                 ELSE Respond(d, Text(IF is_not_found(a.code) THEN 404 ELSE 502))
    BY <1>7 DEF ResolveRoot
  <2> DEFINE a == parse_anchored_root(x)
  <2>2. hist'[d].floor = hist[d].floor
    BY <1>1, <2>1 DEF NoteHurt, TypeOK
  <2>3. req' = req /\ anchored' = anchored
    BY <1>7 DEF ResolveRoot, nodeVars
  <2> HIDE DEF a
  <2>4. CASE a.tag = "root"
    <3> DEFINE s == Target(d).store
    <3>1. s \in Stores /\ anchored[s] > 0 /\ a.root = History[s][anchored[s]]
      BY <1>1, <2>4, HonestRoot DEF a
    <3>2. trusted'[d] = a.root
      BY <1>1, <2>1, <2>4 DEF TypeOK, a
    <3>3. anchored[s] \in hist[d].floor[s] .. anchored[s]
      BY <1>1, <1>2, <1>3, <3>1 DEF FloorAt
    <3>4. Target(d)' = Target(d)
      BY <2>3 DEF Target
    <3> HIDE DEF s
    <3>5. RootFresh(d)'
      BY <2>2, <2>3, <3>1, <3>2, <3>3, <3>4 DEF RootFresh, s
    <3>6. QED BY <1>4, <2>2, <3>5 DEF FreshAt
  <2>5. CASE a.tag # "root"
    <3>1. PICK n \in {404, 502} : Respond(d, Text(n))
      BY <2>1, <2>5 DEF a
    <3>2. pc'[d] = "done" /\ resp'[d] = Text(n)
      BY <1>1, <3>1 DEF Respond, TypeOK
    <3>3. resp'[d].status \notin {200, 206, 416}
      BY <3>2 DEF Text
    <3>4. QED BY <1>4, <2>2, <3>2, <3>3 DEF FreshAt
  <2>6. QED BY <2>4, <2>5
<1>8. CASE GetContent(d)
  <2>1. hist'[d].floor = hist[d].floor
    BY <1>1, <1>8 DEF GetContent, NoteHurt, TypeOK
  <2>2. req' = req /\ trusted' = trusted /\ pc[d] = "content"
    BY <1>8 DEF GetContent
  <2>3. QED BY <1>1, <1>4, <2>1, <2>2, FreshKept DEF FreshAt, Target
<1>9. CASE Serve(d)
  <2>1. hist' = hist /\ req' = req /\ trusted' = trusted /\ pc[d] = "fetched"
    BY <1>9 DEF Serve
  <2>2. QED BY <1>1, <1>4, <2>1, FreshKept DEF FreshAt, Target
<1>10. CASE Deliver(d) \/ Disconnect(d)
  <2>1. hist'[d] = NoHist /\ pc'[d] = "idle"
    BY <1>1, <1>10 DEF Deliver, Disconnect, Forget, TypeOK
  <2>2. QED BY <1>2, <2>1 DEF FloorAt, FreshAt, NoHist
<1>11. QED BY <1>5, <1>6, <1>7, <1>8, <1>9, <1>10 DEF Serves

\* With a node that follows the read contract, a store's own host is served from a root
\* that was anchored when the request came or later, for any number of stores, roots and
\* connections.
THEOREM RootIsFresh ==
  ASSUME NodeHonest
  PROVE  Spec => []FreshRoot
<1>1. Init => FreshInv
  <2> SUFFICES ASSUME Init, NEW c \in Conns PROVE FloorAt(c) /\ FreshAt(c)
    BY DEF FreshInv
  <2>1. hist[c] = NoHist /\ pc[c] = "idle" /\ \A s \in Stores : anchored[s] \in Nat
    BY DEF Init
  <2>2. QED BY <2>1 DEF FloorAt, FreshAt, NoHist
<1>2. AuthenticInv /\ FreshInv /\ [Next]_vars => FreshInv'
  <2> SUFFICES ASSUME AuthenticInv, FreshInv, [Next]_vars, NEW d \in Conns
               PROVE  FloorAt(d)' /\ FreshAt(d)'
    BY DEF FreshInv
  <2>1. TypeOK
    BY DEF AuthenticInv
  <2>2. CASE SameConn(d)
    <3>1. FloorAt(d) /\ FreshAt(d)
      BY DEF FreshInv
    <3>2. \A s \in Stores : anchored'[s] \in Nat /\ anchored[s] <= anchored'[s]
                            /\ anchored[s] \in Nat /\ hist[d].floor[s] \in Nat
      BY <2>1, AnchoredGrows DEF TypeOK
    <3>3. FloorAt(d)'
      BY <2>2, <3>1, <3>2 DEF FloorAt, SameConn
    <3>4. RootFresh(d) => RootFresh(d)'
      BY <2>1, <2>2, FreshKept DEF SameConn
    <3>5. QED BY <2>2, <3>1, <3>3, <3>4 DEF SameConn, FreshAt, Target
  <2>3. QED BY <2>1, <2>2, FreshStep, OneConn
<1>3. FreshInv => FreshRoot
  BY DEF FreshInv, FreshAt, FreshRoot, RootFresh, Answered, Body
<1>4. QED BY <1>1, <1>2, <1>3, AuthenticInvariant, PTL DEF Spec

\* Why ImmutableUpToFallback is inductive: where each body a cache keeps came from.
KeptRight(x) ==
  /\ x.target.kind = "Pinned"
  /\ \/ \E d \in Under(x.target.store, x.target.root, resource_key_for_path(x.path)) :
          x.body = d.pt
     \/ is_extensionless(x.path) /\ x.body \in FallbackBodies(x.target)

CachedInv == \A x \in cached : KeptRight(x)

\* Only a body made by ok_body_response for a pinned host is marked immutable.
LEMMA ImmutableIsPinned ==
  ASSUME NEW pt, NEW h, NEW pinned, ok_body_response(pt, h, pinned).cache = "immutable"
  PROVE  pinned
BY DEF ok_body_response

\* What a step adds to the cache is the response of the connection that took it.
LEMMA CacheStep ==
  ASSUME AuthenticInv, AuthenticInv', CachedInv, NEW c \in Conns, Serves(c)
  PROVE  CachedInv'
<1>1. TypeOK /\ PhaseInv(c)
  BY DEF AuthenticInv, ConnInv
<1>2. CASE cached' = cached
  BY <1>2 DEF CachedInv
<1>3. ASSUME NEW r, Respond(c, r), r.cache # "immutable"
      PROVE  cached' = cached
  BY <1>3 DEF Respond
<1>4. CASE Health(c)
  <2>1. PICK b : Respond(c, [Text(200) EXCEPT !.reachable = b])
    BY <1>4 DEF Health
  <2>2. [Text(200) EXCEPT !.reachable = b].cache = "none"
    BY DEF Text
  <2>3. QED BY <1>2, <1>3, <2>1, <2>2
<1>5. CASE ResolveRoot(c)
  <2>1. cached' = cached \/ \E n \in {404, 502} : Respond(c, Text(n))
    BY <1>5 DEF ResolveRoot
  <2>2. \A n \in {404, 502} : Text(n).cache = "none"
    BY DEF Text
  <2>3. QED BY <1>2, <1>3, <2>1, <2>2
<1>6. CASE Serve(c) /\ fetched[c].tag # "Ok"
  <2>1. cached' = cached \/ \E n \in {404, 502} : Respond(c, Text(n))
    BY <1>6 DEF Serve, FetchedStatus
  <2>2. \A n \in {404, 502} : Text(n).cache = "none"
    BY DEF Text
  <2>3. QED BY <1>2, <1>3, <2>1, <2>2
<1>7. CASE Serve(c) /\ fetched[c].tag = "Ok"
  <2> DEFINE r == ok_body_response(fetched[c].pt, RangeOf(c), IsPinned(c))
             x == [target |-> Target(c), path |-> req[c].path, body |-> r.body]
  <2>1. Respond(c, r) /\ UNCHANGED <<req, trusted, job>> /\ pc[c] = "fetched"
    BY <1>7 DEF Serve, FallsBack
  <2>2. CASE ~(r.status = 200 /\ r.cache = "immutable")
    BY <1>2, <2>1, <2>2 DEF Respond
  <2>3. CASE r.status = 200 /\ r.cache = "immutable"
    <3>1. IsPinned(c)
      BY <2>3, ImmutableIsPinned
    <3> HIDE DEF r
    <3>2. pc'[c] = "done" /\ resp'[c] = r
      BY <1>1, <2>1 DEF Respond, TypeOK
    <3>3. AuthenticAt(c)' /\ classify(req[c]) = "Store"
      BY <1>1, <2>1 DEF AuthenticInv, ConnInv, PhaseInv
    <3>4. /\ trusted[c] = Target(c).root
          /\ KeyRight(c)
          /\ \E d \in Under(Target(c).store, trusted[c], job[c].key) : r.body = d.pt
      BY <2>1, <2>3, <3>1, <3>2, <3>3
         DEF AuthenticAt, Answered, Body, IsPinned, Target, KeyRight
    <3>5. KeptRight(x)
      BY <3>1, <3>4 DEF KeptRight, FallbackBodies, KeyRight, IsPinned
    <3> HIDE DEF x
    <3>6. cached' = cached \cup {x}
      BY <2>1, <2>3 DEF Respond, x
    <3>7. QED BY <3>5, <3>6 DEF CachedInv
  <2>4. QED BY <2>2, <2>3
<1>8. CASE (\E q \in Requests : Receive(c, q)) \/ GetContent(c) \/ Deliver(c) \/ Disconnect(c)
  BY <1>2, <1>8 DEF Receive, GetContent, Deliver, Disconnect, Forget
<1>9. QED BY <1>4, <1>5, <1>6, <1>7, <1>8 DEF Serves

\* Whatever the node answers, two bodies told to a cache to keep for ever for one pinned
\* host and path are the same, unless one is the index page sent for a route.
THEOREM ImmutableAgrees == Spec => []ImmutableUpToFallback
<1>1. Init => CachedInv
  BY DEF Init, CachedInv
<1>2. AuthenticInv /\ AuthenticInv' /\ CachedInv /\ [Next]_vars => CachedInv'
  <2> SUFFICES ASSUME AuthenticInv, AuthenticInv', CachedInv, [Next]_vars
               PROVE  CachedInv'
    OBVIOUS
  <2>1. CASE \E c \in Conns : Serves(c)
    BY <2>1, CacheStep
  <2>2. CASE cached' = cached
    BY <2>2 DEF CachedInv
  <2>3. QED BY <2>1, <2>2 DEF Next, vars, Serves, Anchor, Sync, NodeFlips
<1>3. CachedInv => ImmutableUpToFallback
  <2> SUFFICES ASSUME CachedInv, NEW x \in cached, NEW y \in cached
               PROVE  /\ x.target.kind = "Pinned"
                      /\ (x.target = y.target /\ x.path = y.path /\ x.body # y.body) =>
                           /\ is_extensionless(x.path)
                           /\ {x.body, y.body} \cap FallbackBodies(x.target) # {}
    BY DEF ImmutableUpToFallback
  <2>1. KeptRight(x) /\ KeptRight(y)
    BY DEF CachedInv
  <2>2. ASSUME NEW d \in Under(x.target.store, x.target.root, resource_key_for_path(x.path)),
               NEW e \in Under(x.target.store, x.target.root, resource_key_for_path(x.path))
        PROVE  d.pt = e.pt
    BY OneResourceAssumption DEF Under
  <2>3. QED BY <2>1, <2>2 DEF KeptRight
<1>4. QED BY <1>1, <1>2, <1>3, AuthenticInvariant, PTL DEF Spec

(***************************************************************************)
(* Induction over data.  The library's induction theorems quantify over    *)
(* operators; WFMin does not, and gives what the recursions below need.    *)
(***************************************************************************)
\* A set of natural numbers that is not empty has a least one: the form in which the
\* proofs below use induction.
LEMMA Least ==
  ASSUME NEW T \in SUBSET Nat, T # {}
  PROVE  \E x \in T : \A y \in T : x <= y
<1> DEFINE R == OpToRel(<, Nat)
<1>1. IsWellFoundedOn(R, Nat)
  BY NatLessThanWellFounded, Zenon
<1>2. PICK x \in T : \A y \in T : <<y, x>> \notin R
  <2> HIDE DEF R
  <2>1. QED BY <1>1, WFMin
<1>3. \A y \in T : ~(y < x)
  BY <1>2 DEF OpToRel
<1>4. QED BY <1>3

\* A set that holds 0 and with every number its successor holds them all.
LEMMA Induction ==
  ASSUME NEW S \in SUBSET Nat, 0 \in S, \A n \in S : n + 1 \in S
  PROVE  S = Nat
<1> SUFFICES ASSUME Nat \ S # {} PROVE FALSE
  OBVIOUS
<1>1. PICK x \in Nat \ S : \A y \in Nat \ S : x <= y
  BY Least
<1>2. x - 1 \in Nat /\ x - 1 \notin Nat \ S
  BY <1>1
<1>3. QED BY <1>1, <1>2

\* The recursion of FlattenSeq has a solution.
Joined(s, n, g) == g = [i \in 1 .. n |-> IF i = 1 THEN s[i] ELSE g[i - 1] \o s[i]]

LEMMA JoinedExists ==
  ASSUME NEW s
  PROVE  \A n \in Nat : \E g : Joined(s, n, g)
<1> DEFINE S == {n \in Nat : \E g : Joined(s, n, g)}
<1>1. 0 \in S
  <2> DEFINE g0 == [i \in 1 .. 0 |-> 0]
  <2>1. g0 = [i \in 1 .. 0 |-> IF i = 1 THEN s[i] ELSE g0[i - 1] \o s[i]]
    OBVIOUS
  <2>2. QED BY <2>1 DEF Joined
<1>2. ASSUME NEW n \in S PROVE n + 1 \in S
  <2>1. PICK g : Joined(s, n, g)
    BY <1>2
  <2>9. n \in Nat /\ \A i \in 1 .. n : g[i] = IF i = 1 THEN s[i] ELSE g[i - 1] \o s[i]
    BY <1>2, <2>1 DEF Joined
  <2> DEFINE h == [i \in 1 .. n + 1 |-> IF i <= n THEN g[i]
                                        ELSE IF i = 1 THEN s[i] ELSE g[i - 1] \o s[i]]
  <2>2. \A i \in 1 .. n : h[i] = g[i]
    OBVIOUS
  <2>3. ASSUME NEW i \in 1 .. n + 1
        PROVE  h[i] = IF i = 1 THEN s[i] ELSE h[i - 1] \o s[i]
    <3>1. i # 1 => h[i - 1] = g[i - 1]
      BY <2>2
    <3>2. CASE i <= n
      <4>1. i \in 1 .. n /\ h[i] = g[i]
        BY <2>2, <2>9, <3>2
      <4> HIDE DEF h
      <4>2. QED BY <2>9, <3>1, <4>1
    <3>3. CASE i = n + 1
      BY <3>1, <3>3
    <3>4. QED BY <3>2, <3>3
  <2> HIDE DEF h
  <2>4. h = [i \in 1 .. n + 1 |-> IF i = 1 THEN s[i] ELSE h[i - 1] \o s[i]]
    BY <2>3 DEF h
  <2>5. Joined(s, n + 1, h)
    BY <2>4 DEF Joined
  <2>6. \E k : Joined(s, n + 1, k)
    BY <2>5
  <2>7. QED BY <2>6, <2>9
<1> HIDE DEF S
<1>3. S = Nat
  <2>1. S \in SUBSET Nat
    BY DEF S
  <2>2. QED BY <1>1, <1>2, <2>1, Induction
<1>4. QED BY <1>3 DEF S

LEMMA FlattenIs ==
  ASSUME NEW s, Len(s) \in Nat \ {0}
  PROVE  \E g : Joined(s, Len(s), g) /\ FlattenSeq(s) = g[Len(s)]
<1> DEFINE f == CHOOSE g : Joined(s, Len(s), g)
<1>1. Joined(s, Len(s), f)
  BY JoinedExists
<1>2. FlattenSeq(s) = f[Len(s)]
  BY DEF FlattenSeq, Joined
<1>3. QED BY <1>1, <1>2

\* ChunkEnds, likewise.
Summed(p, n, g) == g = [i \in 0 .. n |-> IF i = 0 THEN 0 ELSE g[i - 1] + p[i]]

LEMMA SummedExists ==
  ASSUME NEW p
  PROVE  \A n \in Nat : \E g : Summed(p, n, g)
<1> DEFINE S == {n \in Nat : \E g : Summed(p, n, g)}
<1>1. 0 \in S
  <2> DEFINE g0 == [i \in 0 .. 0 |-> 0]
  <2>1. g0 = [i \in 0 .. 0 |-> IF i = 0 THEN 0 ELSE g0[i - 1] + p[i]]
    OBVIOUS
  <2>2. QED BY <2>1 DEF Summed
<1>2. ASSUME NEW n \in S PROVE n + 1 \in S
  <2>1. PICK g : Summed(p, n, g)
    BY <1>2
  <2>2. n \in Nat /\ \A i \in 0 .. n : g[i] = IF i = 0 THEN 0 ELSE g[i - 1] + p[i]
    BY <1>2, <2>1 DEF Summed
  <2> DEFINE h == [i \in 0 .. n + 1 |-> IF i <= n THEN g[i] ELSE g[n] + p[n + 1]]
  <2>3. \A i \in 0 .. n : h[i] = g[i]
    BY <2>2
  <2>4. h[n + 1] = g[n] + p[n + 1]
    BY <2>2
  <2>5. h = [i \in 0 .. n + 1 |-> h[i]]
    OBVIOUS
  <2> HIDE DEF h
  <2>6. ASSUME NEW i \in 0 .. n + 1
        PROVE  h[i] = IF i = 0 THEN 0 ELSE h[i - 1] + p[i]
    <3>1. CASE i <= n
      <4>1. i \in 0 .. n /\ (i # 0 => i - 1 \in 0 .. n)
        BY <2>2, <3>1
      <4>2. QED BY <2>2, <2>3, <4>1
    <3>2. CASE i = n + 1
      <4>1. i # 0 /\ i - 1 = n /\ n \in 0 .. n
        BY <2>2, <3>2
      <4>2. QED BY <2>3, <2>4, <3>2, <4>1
    <3>3. QED BY <2>2, <3>1, <3>2
  <2>7. h = [i \in 0 .. n + 1 |-> IF i = 0 THEN 0 ELSE h[i - 1] + p[i]]
    BY <2>5, <2>6
  <2>8. \E k : Summed(p, n + 1, k)
    BY <2>7 DEF Summed
  <2>9. QED BY <2>2, <2>8
<1> HIDE DEF S
<1>3. S = Nat
  <2>1. S \in SUBSET Nat
    BY DEF S
  <2>2. QED BY <1>1, <1>2, <2>1, Induction
<1>4. QED BY <1>3 DEF S

\* Where the chunks of a plan end.
LEMMA EndsAre ==
  ASSUME NEW p \in Seq(Nat), NEW e, e = ChunkEnds(p)
  PROVE  /\ e[0] = 0
         /\ \A i \in 1 .. Len(p) : e[i] = e[i - 1] + p[i]
         /\ \A i \in 0 .. Len(p) : e[i] \in Nat
<1> DEFINE f == CHOOSE g : Summed(p, Len(p), g)
<1>1. Len(p) \in Nat
  OBVIOUS
<1>2. Summed(p, Len(p), f)
  BY <1>1, SummedExists
<1>3. e = f
  BY DEF ChunkEnds, Summed
<1>4. e = [i \in 0 .. Len(p) |-> IF i = 0 THEN 0 ELSE e[i - 1] + p[i]]
  BY <1>2, <1>3 DEF Summed
<1> HIDE DEF f
<1>5. e[0] = 0 /\ \A i \in 1 .. Len(p) : e[i] = e[i - 1] + p[i]
  BY <1>1, <1>4
<1>6. \A i \in 0 .. Len(p) : e[i] \in Nat
  <2> DEFINE S == {n \in Nat : n <= Len(p) => e[n] \in Nat}
  <2>1. 0 \in S
    BY <1>5
  <2>2. ASSUME NEW n \in S PROVE n + 1 \in S
    <3>1. CASE n + 1 <= Len(p)
      <4>1. n \in Nat /\ e[n] \in Nat /\ n + 1 \in 1 .. Len(p)
        BY <1>1, <3>1
      <4>2. p[n + 1] \in Nat
        BY <4>1
      <4>3. e[n + 1] = e[n] + p[n + 1]
        BY <1>5, <4>1
      <4>4. QED BY <4>1, <4>2, <4>3
    <3>2. CASE ~(n + 1 <= Len(p))
      BY <3>2
    <3>3. QED BY <3>1, <3>2
  <2> HIDE DEF S
  <2>3. S = Nat
    <3>1. S \in SUBSET Nat
      BY DEF S
    <3>2. QED BY <2>1, <2>2, <3>1, Induction
  <2>4. QED BY <1>1, <2>3 DEF S
<1>7. QED BY <1>5, <1>6

\* A slice of a prefix, and the slice behind it.
LEMMA SliceKept ==
  ASSUME NEW B, NEW s \in Seq(B), NEW t \in Seq(B), NEW m \in Nat, NEW k \in 0 .. Len(s)
  PROVE  SubSeq(s \o t, m + 1, k) = SubSeq(s, m + 1, k)
OBVIOUS

LEMMA SliceBehind ==
  ASSUME NEW B, NEW s \in Seq(B), NEW t \in Seq(B)
  PROVE  SubSeq(s \o t, Len(s) + 1, Len(s) + Len(t)) = t
OBVIOUS

\* The pieces s[1] .. s[j] lie one behind the other in g, each up to its end.
Cuts(B, s, e, g, j) ==
  /\ g[j] \in Seq(B) /\ Len(g[j]) = e[j]
  /\ \A i \in 1 .. j : e[i] <= e[j] /\ SubSeq(g[j], e[i - 1] + 1, e[i]) = s[i]

LEMMA CutsStep ==
  ASSUME NEW B, NEW s, NEW e, NEW g, NEW n \in Nat, NEW m, m = n + 1,
         s[m] \in Seq(B), g[m] = g[n] \o s[m], e[m] = e[n] + Len(s[m]),
         \A i \in 0 .. n : e[i] \in Nat, Cuts(B, s, e, g, n)
  PROVE  Cuts(B, s, e, g, m)
<1> DEFINE a == g[n]
           b == s[m]
<1>1. a \in Seq(B) /\ b \in Seq(B) /\ g[m] = a \o b
  BY DEF Cuts
<1>2. Len(a) = e[n] /\ Len(b) \in Nat /\ e[n] \in Nat /\ e[m] = Len(a) + Len(b)
  BY <1>1 DEF Cuts
<1>3. \A i \in 1 .. n : e[i] <= e[n] /\ SubSeq(a, e[i - 1] + 1, e[i]) = s[i]
  BY DEF Cuts
<1>4. \A i \in 1 .. n : e[i] \in Nat /\ e[i - 1] \in Nat
  OBVIOUS
<1>5. \A i \in 1 .. m : i \in 1 .. n \/ (i = m /\ i - 1 = n)
  OBVIOUS
<1> HIDE DEF a, b
<1>6. ASSUME NEW i \in 1 .. n
      PROVE  e[i] <= e[m] /\ SubSeq(a \o b, e[i - 1] + 1, e[i]) = s[i]
  <2>1. e[i] \in 0 .. Len(a) /\ e[i - 1] \in Nat /\ e[i] <= e[m]
    BY <1>2, <1>3, <1>4
  <2> DEFINE lo == e[i - 1]
             hi == e[i]
  <2>2. lo \in Nat /\ hi \in 0 .. Len(a)
    BY <2>1
  <2> HIDE DEF lo, hi
  <2>3. SubSeq(a \o b, lo + 1, hi) = SubSeq(a, lo + 1, hi)
    BY <1>1, <2>2, SliceKept
  <2>4. QED BY <1>3, <2>1, <2>3, Zenon DEF lo, hi
<1>7. e[m] <= e[m] /\ SubSeq(a \o b, e[n] + 1, e[m]) = s[m]
  <2>1. e[m] <= e[m]
    BY <1>2
  <2>2. SubSeq(a \o b, Len(a) + 1, Len(a) + Len(b)) = b
    BY <1>1, SliceBehind, Zenon
  <2>3. QED BY <1>2, <2>1, <2>2, Zenon DEF b
<1>8. a \o b \in Seq(B) /\ Len(a \o b) = e[m]
  <2>1. a \o b \in Seq(B) /\ Len(a \o b) = Len(a) + Len(b)
    BY <1>1, ConcatProperties, Zenon
  <2>2. QED BY <1>2, <2>1, Zenon
<1>9. QED BY <1>1, <1>5, <1>6, <1>7, <1>8 DEF Cuts

LEMMA CutsAll ==
  ASSUME NEW B, NEW s, NEW e, NEW g, NEW len \in Nat \ {0},
         \A i \in 1 .. len : s[i] \in Seq(B),
         g[1] = s[1], \A i \in 2 .. len : g[i] = g[i - 1] \o s[i],
         e[0] = 0, \A i \in 1 .. len : e[i] = e[i - 1] + Len(s[i]),
         \A i \in 0 .. len : e[i] \in Nat
  PROVE  Cuts(B, s, e, g, len)
<1> DEFINE S == {n \in Nat : n \in 1 .. len => Cuts(B, s, e, g, n)}
<1>1. 0 \in S
  OBVIOUS
<1>2. ASSUME NEW n \in S PROVE n + 1 \in S
  <2>1. n \in Nat /\ n + 1 \in Nat
    BY <1>2
  <2>2. CASE n = 0 /\ n + 1 <= len
    <3>1. s[1] \in Seq(B) /\ e[1] = e[0] + Len(s[1]) /\ Len(s[1]) \in Nat
      OBVIOUS
    <3>2. SubSeq(s[1], 1, Len(s[1])) = s[1]
      BY <3>1, SubSeqFull
    <3>3. e[1] = Len(s[1])
      BY <3>1
    <3>4. Cuts(B, s, e, g, 1)
      BY <3>1, <3>2, <3>3 DEF Cuts
    <3>5. QED BY <2>2, <3>4
  <2>3. CASE n \in 1 .. len /\ n + 1 <= len
    <3>1. Cuts(B, s, e, g, n) /\ n + 1 \in 2 .. len /\ n + 1 \in 1 .. len /\ (n + 1) - 1 = n
      BY <1>2, <2>3
    <3>2. s[n + 1] \in Seq(B) /\ g[n + 1] = g[n] \o s[n + 1] /\ e[n + 1] = e[n] + Len(s[n + 1])
      BY <3>1
    <3>3. \A i \in 0 .. n : e[i] \in Nat
      BY <2>1, <3>1
    <3>4. Cuts(B, s, e, g, n + 1)
      BY <2>1, <3>1, <3>2, <3>3, CutsStep
    <3>5. QED BY <2>1, <3>4
  <2>4. CASE ~(n + 1 <= len)
    BY <2>1, <2>4
  <2>5. QED BY <2>1, <2>2, <2>3, <2>4
<1> HIDE DEF S
<1>3. S = Nat
  <2>1. S \in SUBSET Nat
    BY DEF S
  <2>2. QED BY <1>1, <1>2, <2>1, Induction
<1>4. QED BY <1>3 DEF S

LEMMA JoinedIs ==
  ASSUME NEW s, NEW n \in Nat \ {0}, NEW g, Joined(s, n, g)
  PROVE  g[1] = s[1] /\ \A i \in 2 .. n : g[i] = g[i - 1] \o s[i]
<1>1. \A i \in 1 .. n : g[i] = IF i = 1 THEN s[i] ELSE g[i - 1] \o s[i]
  BY Zenon DEF Joined
<1>2. 1 \in 1 .. n /\ \A i \in 2 .. n : i \in 1 .. n /\ i # 1
  OBVIOUS
<1>3. QED BY <1>1, <1>2, Zenon

\* Cutting the concatenation of a sequence of pieces where they end gives them back.
LEMMA CutBack ==
  ASSUME NEW B, NEW s \in Seq(Seq(B)), s # <<>>, NEW p \in Seq(Nat), Len(p) = Len(s),
         \A i \in 1 .. Len(s) : p[i] = Len(s[i])
  PROVE  LET e == ChunkEnds(p)
         IN  /\ FlattenSeq(s) \in Seq(B)
             /\ e[Len(s)] = Len(FlattenSeq(s))
             /\ \A i \in 1 .. Len(s) : SubSeq(FlattenSeq(s), e[i - 1] + 1, e[i]) = s[i]
<1> DEFINE e == ChunkEnds(p)
<1>1. Len(s) \in Nat \ {0} /\ DOMAIN s = 1 .. Len(s) /\ \A i \in 1 .. Len(s) : s[i] \in Seq(B)
  OBVIOUS
<1>2. /\ e[0] = 0
      /\ \A i \in 1 .. Len(s) : e[i] = e[i - 1] + p[i]
      /\ \A i \in 0 .. Len(s) : e[i] \in Nat
  <2> HIDE DEF e
  <2>1. /\ e[0] = 0
        /\ \A i \in 1 .. Len(p) : e[i] = e[i - 1] + p[i]
        /\ \A i \in 0 .. Len(p) : e[i] \in Nat
    BY EndsAre DEF e
  <2>2. QED BY <2>1
<1> HIDE DEF e
<1>3. PICK g : Joined(s, Len(s), g) /\ FlattenSeq(s) = g[Len(s)]
  BY <1>1, FlattenIs
<1>5. g[1] = s[1] /\ \A i \in 2 .. Len(s) : g[i] = g[i - 1] \o s[i]
  BY <1>1, <1>3, JoinedIs
<1>6. Cuts(B, s, e, g, Len(s))
  BY <1>1, <1>2, <1>5, CutsAll
<1>7. QED BY <1>3, <1>6 DEF Cuts, e

(***************************************************************************)
(* The chunks of a resource, and its windows.                              *)
(***************************************************************************)
\* The proof an honest node sends with a resource.
OwnProof(d) == [decodes |-> TRUE, leaf |-> d.ct, root |-> d.root]

\* A resource cut by its own chunk lengths is its chunks.
LEMMA OwnSlices ==
  ASSUME NEW d \in Docs, d.chunks # <<>>
  PROVE  /\ ChunkLens(d) # <<>>
         /\ DOMAIN ChunkLens(d) = DOMAIN d.chunks
         /\ ChunkEnds(ChunkLens(d))[Len(ChunkLens(d))] = Len(d.ct)
         /\ \A i \in DOMAIN d.chunks : Slices(d.ct, ChunkLens(d))[i] = d.chunks[i].ct
<1> DEFINE C == [ct : Seq(Byte), pt : Seq(Byte)]
           s == [i \in DOMAIN d.chunks |-> d.chunks[i].ct]
           p == ChunkLens(d)
           n == Len(d.chunks)
<1>1. d.chunks \in Seq(C) /\ d.ct = FlattenSeq(s)
  BY DocsAssumption
<1> HIDE DEF C
<1>2. n \in Nat \ {0} /\ DOMAIN d.chunks = 1 .. n
  BY <1>1, LenProperties, EmptySeq
<1> HIDE DEF n
<1>3. \A i \in 1 .. n : d.chunks[i] \in C
  BY <1>1, <1>2, LenProperties
<1>4. \A i \in 1 .. n : s[i] = d.chunks[i].ct /\ s[i] \in Seq(Byte)
  BY <1>2, <1>3 DEF C
<1>5. DOMAIN s = 1 .. n /\ s \in Seq(Seq(Byte)) /\ Len(s) = n
  BY <1>2, <1>4
<1>6. \A i \in 1 .. n : p[i] = Len(s[i]) /\ p[i] \in Nat
  BY <1>2, <1>4, LenProperties DEF ChunkLens
<1>7. DOMAIN p = 1 .. n /\ p \in Seq(Nat) /\ Len(p) = n
  BY <1>2, <1>6 DEF ChunkLens
<1> HIDE DEF s, p
<1>8. s # <<>> /\ p # <<>>
  BY <1>2, <1>5, <1>7, EmptySeq
<1> DEFINE e == ChunkEnds(p)
<1>9. /\ e[Len(s)] = Len(FlattenSeq(s))
      /\ \A i \in 1 .. Len(s) : SubSeq(FlattenSeq(s), e[i - 1] + 1, e[i]) = s[i]
  <2>1. \A i \in 1 .. Len(s) : p[i] = Len(s[i])
    BY <1>5, <1>6
  <2>2. Len(p) = Len(s)
    BY <1>5, <1>7
  <2>3. QED BY <1>5, <1>7, <1>8, <2>1, <2>2, CutBack, Zenon
<1>10. \A i \in 1 .. n : Slices(d.ct, p)[i] = SubSeq(d.ct, e[i - 1] + 1, e[i])
  BY <1>7 DEF Slices
<1> HIDE DEF e
<1>11. QED BY <1>1, <1>2, <1>4, <1>5, <1>7, <1>8, <1>9, <1>10, Zenon DEF p, e

\* The gate over a resource's own bytes, proof and chunk lengths comes down to whether
\* the chunks open.
LEMMA GateOverOwn ==
  ASSUME NEW d \in Docs, d.chunks # <<>>, Len(d.ct) <= UsizeMax, NEW s, NEW k,
         NEW r, r = verify_and_decrypt(s, k, d.ct, OwnProof(d), d.root, ChunkLens(d))
  PROVE  /\ r.err \in {"none", "Decrypt"}
         /\ (\A i \in DOMAIN d.chunks : Opens(s, k, d.chunks[i].ct)) => r.err = "none"
<1> DEFINE p == ChunkLens(d)
           parts == Slices(d.ct, p)
<1>1. p # <<>> /\ DOMAIN p = DOMAIN d.chunks /\ ChunkEnds(p)[Len(p)] = Len(d.ct)
      /\ \A i \in DOMAIN d.chunks : parts[i] = d.chunks[i].ct
  BY OwnSlices, Zenon
<1>2. DOMAIN parts = DOMAIN d.chunks
  BY <1>1 DEF Slices
<1> HIDE DEF p
<1>3. Plan(d.ct, p) = p
  BY <1>1 DEF Plan
<1>4. PlanFits(d.ct, p)
  BY <1>1 DEF PlanFits
<1>5. Folds(OwnProof(d))
  BY DEF Folds, OwnProof
<1> HIDE DEF parts
<1>6. OwnProof(d).decodes /\ OwnProof(d).leaf = d.ct /\ OwnProof(d).root = d.root
  BY DEF OwnProof
<1>7. r = IF \E i \in DOMAIN parts : ~Opens(s, k, parts[i]) THEN Failed("Decrypt")
          ELSE [err |-> "none",
                pt |-> FlattenSeq([i \in DOMAIN parts |-> decrypt_chunk(s, k, parts[i])])]
  BY <1>3, <1>4, <1>5, <1>6, Zenon DEF verify_and_decrypt, p, parts
<1>8. CASE \E i \in DOMAIN parts : ~Opens(s, k, parts[i])
  <2>1. r.err = "Decrypt"
    BY <1>7, <1>8 DEF Failed
  <2>2. \E i \in DOMAIN d.chunks : ~Opens(s, k, d.chunks[i].ct)
    BY <1>1, <1>2, <1>8, Zenon
  <2>3. QED BY <2>1, <2>2, Zenon
<1>9. CASE ~ \E i \in DOMAIN parts : ~Opens(s, k, parts[i])
  BY <1>7, <1>9
<1>10. QED BY <1>8, <1>9

\* A resource opens under its own store and key.
LEMMA OpensOwn ==
  ASSUME NEW d \in Docs, d.chunks # <<>>, Len(d.ct) <= UsizeMax
  PROVE  verify_and_decrypt(d.store, d.key, d.ct, OwnProof(d), d.root, ChunkLens(d)).err = "none"
<1>1. \A i \in DOMAIN d.chunks : Opens(d.store, d.key, d.chunks[i].ct)
  BY DEF Opens, SealedFor
<1>2. QED BY <1>1, GateOverOwn

\* A decoy does not open: the gate reports Decrypt, nothing else.
LEMMA DecoyShut ==
  ASSUME NEW d \in Docs, d.chunks # <<>>, Len(d.ct) <= UsizeMax, NEW s \in Id, NEW k \in Keys,
         Under(s, d.root, k) = {}
  PROVE  verify_and_decrypt(s, k, d.ct, OwnProof(d), d.root, ChunkLens(d)).err = "Decrypt"
<1> DEFINE r == verify_and_decrypt(s, k, d.ct, OwnProof(d), d.root, ChunkLens(d))
<1>1. r.err \in {"none", "Decrypt"}
  BY GateOverOwn
<1>2. r.err = "none" => \E e \in Docs : e.store = s /\ e.key = k /\ e.root = d.root /\ e.pt = r.pt
  BY BindingAssumption, NodeAssumption DEF OwnProof
<1> HIDE DEF r
<1>3. r.err # "none"
  BY <1>2 DEF Under
<1>4. QED BY <1>1, <1>3 DEF r

\* The first n windows of resource d.
Cut(d, n) == [i \in 1 .. n |-> HonestWindow(d, (i - 1) * WindowSize)]

\* What the offsets of the windows need of multiplication.
LEMMA Offsets ==
  /\ \A n \in Nat : n * WindowSize \in Nat /\ n * WindowSize + WindowSize = (n + 1) * WindowSize
  /\ 0 * WindowSize = 0 /\ 1 * WindowSize = WindowSize
  /\ \A m, n \in Nat : m <= n => m * WindowSize <= n * WindowSize
<1>1. WindowSize \in Nat \ {0}
  BY BoundsAssumption
<1>2. /\ \A n \in Nat : n * WindowSize \in Nat /\ n * WindowSize + WindowSize = (n + 1) * WindowSize
      /\ 0 * WindowSize = 0 /\ 1 * WindowSize = WindowSize
  BY <1>1
<1>3. ASSUME NEW m \in Nat, NEW n \in Nat, m <= n
      PROVE  m * WindowSize <= n * WindowSize
  <2>1. n * WindowSize = m * WindowSize + (n - m) * WindowSize
    BY <1>1, <1>3
  <2>2. n - m \in Nat
    BY <1>3
  <2>3. (n - m) * WindowSize \in Nat /\ m * WindowSize \in Nat /\ n * WindowSize \in Nat
    BY <1>2, <2>2
  <2>4. QED BY <2>1, <2>3
<1>4. QED BY <1>2, <1>3

\* Windows 1 .. n of ct: window i starts at o[i - 1], has the bytes s[i] and ends what
\* has been put together as g[i].
Windowed(ct, n, o, s, g) ==
  /\ o[0] = 0 /\ Len(ct) <= o[n]
  /\ \A i \in 0 .. n : o[i] \in Nat
  /\ \A i \in 1 .. n : o[i - 1] <= o[i]
  /\ \A i \in 0 .. n - 1 : i = 0 \/ o[i] < Len(ct)
  /\ \A i \in 1 .. n : s[i] = SubSeq(ct, o[i - 1] + 1, MinOf(o[i], Len(ct)))
  /\ g[1] = s[1] /\ \A i \in 2 .. n : g[i] = g[i - 1] \o s[i]

\* The bytes of the windows of ct, put together, are ct.
LEMMA CutJoins ==
  ASSUME NEW ct \in Seq(Byte), NEW n \in Nat \ {0}, NEW o, NEW s, NEW g,
         Windowed(ct, n, o, s, g)
  PROVE  g[n] = ct
<1> DEFINE end == Len(ct)
<1>0. /\ o[0] = 0 /\ end <= o[n]
      /\ \A i \in 0 .. n : o[i] \in Nat
      /\ \A i \in 1 .. n : o[i - 1] <= o[i]
      /\ \A i \in 0 .. n - 1 : i = 0 \/ o[i] < end
      /\ \A i \in 1 .. n : s[i] = SubSeq(ct, o[i - 1] + 1, MinOf(o[i], end))
      /\ g[1] = s[1] /\ \A i \in 2 .. n : g[i] = g[i - 1] \o s[i]
  BY Zenon DEF Windowed
<1> DEFINE S == {j \in Nat : j \in 1 .. n => g[j] = SubSeq(ct, 1, MinOf(o[j], end))}
<1>1. 0 \in S
  OBVIOUS
<1>2. ASSUME NEW j \in S PROVE j + 1 \in S
  <2>1. j \in Nat /\ j + 1 \in Nat
    BY <1>2
  <2>2. CASE j = 0
    BY <1>0, <2>2
  <2>3. CASE j \in 1 .. n /\ j + 1 <= n
    <3>1. /\ g[j] = SubSeq(ct, 1, MinOf(o[j], end)) /\ j + 1 \in 2 .. n /\ j + 1 \in 1 .. n
          /\ (j + 1) - 1 = j /\ j \in 0 .. n - 1 /\ j # 0 /\ j + 1 \in 0 .. n /\ j \in 0 .. n
      BY <1>2, <2>3
    <3>2. /\ o[j] \in Nat /\ o[j + 1] \in Nat /\ o[j] <= o[j + 1] /\ o[j] < end /\ end \in Nat
          /\ g[j + 1] = g[j] \o s[j + 1]
          /\ s[j + 1] = SubSeq(ct, o[j] + 1, MinOf(o[j + 1], end))
      <4>1. end \in Nat
        BY LenProperties
      <4>2. o[(j + 1) - 1] <= o[j + 1] /\ g[j + 1] = g[(j + 1) - 1] \o s[j + 1]
            /\ s[j + 1] = SubSeq(ct, o[(j + 1) - 1] + 1, MinOf(o[j + 1], end))
        BY <1>0, <3>1, Zenon
      <4>3. o[j] \in Nat /\ o[j + 1] \in Nat /\ o[j] < end
        BY <1>0, <3>1, Zenon
      <4>4. QED BY <3>1, <4>1, <4>2, <4>3, Zenon
    <3> DEFINE a == o[j]
               b == MinOf(o[j + 1], end)
    <3>3. MinOf(o[j], end) = a /\ a \in 0 .. Len(ct) /\ b \in a .. Len(ct)
      BY <3>2 DEF MinOf
    <3> HIDE DEF a, b
    <3>4. SubSeq(ct, 1, a) \o SubSeq(ct, a + 1, b) = SubSeq(ct, 1, b)
      <4>1. 1 \in 1 .. Len(ct) + 1 /\ a \in 1 - 1 .. Len(ct)
        BY <3>3
      <4>2. QED BY <3>3, <4>1, ConcatAdjacentSubSeq
    <3>5. g[j + 1] = SubSeq(ct, 1, b)
      BY <3>1, <3>2, <3>3, <3>4, Zenon DEF a, b
    <3>6. QED BY <2>1, <3>5 DEF b
  <2>4. CASE ~(j + 1 <= n)
    BY <2>1, <2>4
  <2>5. QED BY <2>1, <2>2, <2>3, <2>4
<1> HIDE DEF S
<1>3. S = Nat
  <2>1. S \in SUBSET Nat
    BY DEF S
  <2>2. QED BY <1>1, <1>2, <2>1, Induction
<1>4. n \in S /\ n \in 1 .. n /\ n \in 0 .. n
  BY <1>3
<1>5. g[n] = SubSeq(ct, 1, MinOf(o[n], end))
  BY <1>4 DEF S
<1>6. MinOf(o[n], end) = Len(ct)
  BY <1>0, <1>4 DEF MinOf
<1>7. QED BY <1>5, <1>6, SubSeqFull

\* The bytes of a window, and whether it is the last.
LEMMA WindowBytes ==
  ASSUME NEW d, NEW off
  PROVE  /\ HonestWindow(d, off).bytes = SubSeq(d.ct, off + 1, MinOf(off + WindowSize, Len(d.ct)))
         /\ HonestWindow(d, off).complete <=> (off + WindowSize >= Len(d.ct))
<1>1. HonestWindow(d, off).bytes = SubSeq(d.ct, off + 1, MinOf(off + WindowSize, Len(d.ct)))
  BY DEF HonestWindow
<1>2. HonestWindow(d, off).complete <=> (off + WindowSize >= Len(d.ct))
  BY Zenon DEF HonestWindow
<1>3. QED BY <1>1, <1>2, Zenon

\* The windows of a resource, up to the one that completes it, assemble to the resource.
LEMMA CutAssembles ==
  ASSUME NEW d \in Docs, NEW n \in Nat \ {0}, n = 1 \/ (n - 1) * WindowSize < Len(d.ct),
         Len(d.ct) <= n * WindowSize
  PROVE  assemble_windows(Cut(d, n)) =
           [ok |-> TRUE, ciphertext |-> d.ct, proof |-> OwnProof(d), lens |-> ChunkLens(d)]
<1> DEFINE ws == Cut(d, n)
           o == [i \in 0 .. n |-> i * WindowSize]
           bs == [i \in DOMAIN ws |-> ws[i].bytes]
           end == Len(d.ct)
<1>1. d.ct \in Seq(Byte) /\ d.root \in Id /\ ChunkLens(d) \in Lens
  BY DocsAssumption, NodeAssumption
<1>2. end \in Nat /\ WindowSize \in Nat \ {0}
  BY <1>1, BoundsAssumption
<1> HIDE DEF end
<1>3. ws # <<>> /\ Len(ws) = n /\ DOMAIN ws = 1 .. n
  BY DEF Cut
<1>4. \A i \in 1 .. n : ws[i] = HonestWindow(d, (i - 1) * WindowSize)
  BY DEF Cut
<1> HIDE DEF ws
<1>5. /\ \A i \in 0 .. n : o[i] = i * WindowSize /\ o[i] \in Nat
      /\ \A i \in 1 .. n : o[i - 1] = (i - 1) * WindowSize /\ o[i] = o[i - 1] + WindowSize
      /\ o[0] = 0
  <2>1. \A i \in 0 .. n : o[i] = i * WindowSize
    BY Zenon
  <2>2. 0 \in 0 .. n /\ \A i \in 0 .. n : i \in Nat
    OBVIOUS
  <2> HIDE DEF o
  <2>3. o[0] = 0 /\ \A i \in 0 .. n : o[i] = i * WindowSize /\ o[i] \in Nat
    BY <2>1, <2>2, Offsets, Zenon
  <2>4. ASSUME NEW i \in 1 .. n
        PROVE  o[i - 1] = (i - 1) * WindowSize /\ o[i] = o[i - 1] + WindowSize
    <3>1. i - 1 \in 0 .. n /\ i \in 0 .. n /\ i - 1 \in Nat /\ (i - 1) + 1 = i
      OBVIOUS
    <3>2. o[i - 1] = (i - 1) * WindowSize /\ o[i] = ((i - 1) + 1) * WindowSize
      BY <2>3, <3>1, Zenon
    <3>3. (i - 1) * WindowSize + WindowSize = ((i - 1) + 1) * WindowSize
      BY <3>1, Offsets, Zenon
    <3>4. QED BY <3>2, <3>3, Zenon
  <2>5. QED BY <2>3, <2>4, Zenon
<1>6. \A i \in 0 .. n - 1 : i = 0 \/ o[i] < end
  <2> SUFFICES ASSUME NEW i \in 0 .. n - 1, i # 0 PROVE o[i] < end
    OBVIOUS
  <2>1. i \in Nat /\ n - 1 \in Nat /\ i <= n - 1 /\ n # 1 /\ i \in 0 .. n
    OBVIOUS
  <2>2. i * WindowSize <= (n - 1) * WindowSize /\ (n - 1) * WindowSize \in Nat /\ o[i] = i * WindowSize
        /\ i * WindowSize \in Nat
    BY <1>5, <2>1, Offsets, Zenon
  <2>3. (n - 1) * WindowSize < end
    BY <2>1 DEF end
  <2> HIDE DEF o
  <2> DEFINE x == i * WindowSize
             y == (n - 1) * WindowSize
  <2>4. x <= y /\ y \in Nat /\ x \in Nat /\ y < end /\ o[i] = x
    BY <2>2, <2>3
  <2> HIDE DEF x, y
  <2>5. QED BY <1>2, <2>4
<1>7. end <= o[n]
  <2>1. n \in 0 .. n
    OBVIOUS
  <2>2. QED BY <1>5, <2>1, Zenon DEF end
<1> HIDE DEF o
<1>8. \A i \in 1 .. n : /\ ws[i].bytes = SubSeq(d.ct, o[i - 1] + 1, MinOf(o[i], end))
                        /\ ws[i].complete <=> (o[i] >= end)
                        /\ o[i - 1] <= o[i]
  <2> SUFFICES ASSUME NEW i \in 1 .. n
               PROVE  /\ ws[i].bytes = SubSeq(d.ct, o[i - 1] + 1, MinOf(o[i], end))
                      /\ ws[i].complete <=> (o[i] >= end)
                      /\ o[i - 1] <= o[i]
    OBVIOUS
  <2>1. ws[i] = HonestWindow(d, o[i - 1]) /\ o[i] = o[i - 1] + WindowSize
    BY <1>4, <1>5, Zenon
  <2>2. i - 1 \in 0 .. n
    OBVIOUS
  <2>3. o[i - 1] \in Nat
    BY <1>5, <2>2, Zenon
  <2>4. /\ ws[i].bytes = SubSeq(d.ct, o[i - 1] + 1, MinOf(o[i], end))
        /\ ws[i].complete <=> (o[i] >= end)
    <3>1. /\ ws[i].bytes = SubSeq(d.ct, o[i - 1] + 1, MinOf(o[i - 1] + WindowSize, end))
          /\ ws[i].complete <=> (o[i - 1] + WindowSize >= end)
      BY <2>1, WindowBytes, Zenon DEF end
    <3>2. QED BY <2>1, <3>1, Zenon
  <2>5. QED BY <1>2, <2>1, <2>3, <2>4
<1>9. /\ ws[1].proof = OwnProof(d) /\ ws[1].lens = ChunkLens(d) /\ ws[1].root = d.root
  <2>1. 1 \in 1 .. n /\ 1 - 1 = 0 /\ 0 \in Nat
    OBVIOUS
  <2>2. ws[1] = HonestWindow(d, 0)
    BY <1>4, <2>1, Offsets, Zenon
  <2>3. QED BY <2>2 DEF HonestWindow, OwnProof
<1>10. ws[1].proof # None /\ ws[1].lens # None /\ ws[1].root # None
  <2>1. OwnProof(d) \in Proof
    BY <1>1 DEF OwnProof, Proof
  <2>2. QED BY <1>1, <1>9, <2>1, NoneAssumption, AbsentAssumption, Zenon
<1>11. \A i \in 1 .. n : ws[i].bytes # None /\ (ws[i].complete <=> i = n)
  <2> SUFFICES ASSUME NEW i \in 1 .. n
               PROVE  ws[i].bytes # None /\ (ws[i].complete <=> i = n)
    OBVIOUS
  <2>1. i - 1 \in 0 .. n /\ i \in 0 .. n /\ (i # n => i \in 0 .. n - 1 /\ i # 0)
    OBVIOUS
  <2>2. o[i] \in Nat /\ o[i - 1] \in Nat /\ (i # n => o[i] < end)
    BY <1>5, <1>6, <2>1, Zenon
  <2> DEFINE lo == o[i - 1]
             hi == MinOf(o[i], end)
  <2>3. lo \in Nat /\ hi \in Nat /\ hi <= end
    BY <1>2, <2>2 DEF MinOf
  <2> HIDE DEF lo, hi
  <2>4. SubSeq(d.ct, lo + 1, hi) \in Seq(Byte)
    BY <1>1, <1>2, <2>3 DEF end
  <2>5. ws[i].bytes # None
    BY <1>8, <2>4, AbsentAssumption, Zenon DEF lo, hi
  <2>6. ws[i].complete <=> o[i] >= end
    BY <1>8, Zenon
  <2>7. QED BY <1>2, <1>7, <2>2, <2>5, <2>6
<1>12. FlattenSeq(bs) = d.ct
  <2>1. DOMAIN bs = 1 .. n /\ Len(bs) = n /\ \A i \in 1 .. n : bs[i] = ws[i].bytes
    BY <1>3
  <2> HIDE DEF bs
  <2>2. PICK g : Joined(bs, n, g) /\ FlattenSeq(bs) = g[n]
    BY <2>1, FlattenIs
  <2>3. g[1] = bs[1] /\ \A i \in 2 .. n : g[i] = g[i - 1] \o bs[i]
    BY <2>2, JoinedIs
  <2>4. /\ \A i \in 1 .. n : bs[i] = SubSeq(d.ct, o[i - 1] + 1, MinOf(o[i], end))
        /\ \A i \in 1 .. n : o[i - 1] <= o[i]
        /\ \A i \in 0 .. n : o[i] \in Nat
    BY <1>5, <1>8, <2>1, Zenon
  <2>5. g[n] = d.ct
    <3>1. Windowed(d.ct, n, o, bs, g)
      BY <1>5, <1>6, <1>7, <2>3, <2>4, Zenon DEF Windowed, end
    <3>2. QED BY <1>1, <3>1, CutJoins
  <2>6. QED BY <2>2, <2>5
<1> HIDE DEF bs
<1>13. QED BY <1>3, <1>9, <1>10, <1>11, <1>12, Zenon DEF assemble_windows, ws, bs

\* What an honest node sends for a key of a root: the resource, or one decoy.
Decoys(s, r, k) ==
  LET others == {d \in Docs : d.store = s /\ d.key # k /\ d.root = r}
  IN  IF others = {} THEN {} ELSE {CHOOSE d \in others : TRUE}

Supply(s, r, k) == IF Under(s, r, k) # {} THEN Under(s, r, k) ELSE Decoys(s, r, k)

\* The windows collected so far are the first windows of one resource of a set.
Paged(ds, ws, off) ==
  \/ ws = <<>> /\ off = 0
  \/ \E d \in ds, n \in Nat \ {0} :
       ws = Cut(d, n) /\ off = n * WindowSize /\ n * WindowSize < Len(d.ct)

LEMMA SupplyOne ==
  ASSUME NEW s, NEW r, NEW k, NEW d \in Supply(s, r, k)
  PROVE  /\ d \in Docs /\ d.root = r /\ d.store = s
         /\ Under(s, r, k) # {} => d.key = k
         /\ \A e \in Supply(s, r, k) : e = d
<1>1. CASE Under(s, r, k) # {}
  BY <1>1, OneResourceAssumption DEF Supply, Under
<1>2. CASE Under(s, r, k) = {}
  <2> DEFINE others == {x \in Docs : x.store = s /\ x.key # k /\ x.root = r}
  <2>1. d \in IF others = {} THEN {} ELSE {CHOOSE x \in others : TRUE}
    BY <1>2 DEF Supply, Decoys
  <2>2. others # {} /\ d = CHOOSE x \in others : TRUE
    BY <2>1
  <2>3. d \in others
    BY <2>2
  <2>4. \A e \in Supply(s, r, k) : e = d
    BY <1>2, <2>2 DEF Supply, Decoys
  <2>5. QED BY <1>2, <2>3, <2>4
<1>3. QED BY <1>1, <1>2

\* The cap on the number of windows is not reached before the resource is complete.
LEMMA CapSpared ==
  ASSUME AllServable, NEW ds \in SUBSET Docs, NEW ws, NEW off, Paged(ds, ws, off)
  PROVE  Len(ws) < MAX_CONTENT_WINDOWS
<1>1. MAX_CONTENT_WINDOWS \in Nat /\ MAX_CONTENT_WINDOWS > 0 /\ WindowSize \in Nat
  BY BoundsAssumption DEF AllServable
<1>2. CASE ws = <<>>
  BY <1>1, <1>2
<1>3. CASE \E d \in ds, n \in Nat \ {0} : ws = Cut(d, n) /\ n * WindowSize < Len(d.ct)
  <2>1. PICK d \in ds, n \in Nat \ {0} : ws = Cut(d, n) /\ n * WindowSize < Len(d.ct)
    BY <1>3
  <2>2. Len(ws) = n
    BY <2>1 DEF Cut
  <2>3. Len(d.ct) \in Nat /\ Len(d.ct) <= MAX_CONTENT_WINDOWS * WindowSize
    BY DocsAssumption DEF AllServable, Servable
  <2>4. ~(MAX_CONTENT_WINDOWS <= n)
    <3> SUFFICES ASSUME MAX_CONTENT_WINDOWS <= n PROVE FALSE
      OBVIOUS
    <3>1. MAX_CONTENT_WINDOWS * WindowSize <= n * WindowSize
      BY <1>1, Offsets
    <3> DEFINE x == MAX_CONTENT_WINDOWS * WindowSize
               y == n * WindowSize
    <3>2. x \in Nat /\ y \in Nat /\ x <= y /\ y < Len(d.ct) /\ Len(d.ct) <= x
      BY <1>1, <2>1, <2>3, <3>1, Offsets
    <3> HIDE DEF x, y
    <3>3. QED BY <2>3, <3>2
  <2>5. QED BY <1>1, <2>2, <2>4
<1>4. QED BY <1>2, <1>3 DEF Paged

\* The next window continues the cut.
LEMMA NextWindow ==
  ASSUME NEW s, NEW r, NEW k, NEW d \in Supply(s, r, k), NEW ws, NEW off,
         Paged(Supply(s, r, k), ws, off)
  PROVE  \E n \in Nat : /\ off = n * WindowSize /\ (n = 0 \/ n * WindowSize < Len(d.ct))
                        /\ Append(ws, HonestWindow(d, off)) = Cut(d, n + 1)
<1>1. PICK n \in Nat : /\ ws = Cut(d, n) /\ Len(ws) = n /\ off = n * WindowSize
                       /\ n = 0 \/ n * WindowSize < Len(d.ct)
  <2>1. CASE ws = <<>> /\ off = 0
    <3>1. <<>> = Cut(d, 0) /\ 0 = 0 * WindowSize
      BY Offsets DEF Cut
    <3>2. QED BY <2>1, <3>1
  <2>2. CASE \E e \in Supply(s, r, k), n \in Nat \ {0} :
               ws = Cut(e, n) /\ off = n * WindowSize /\ n * WindowSize < Len(e.ct)
    <3>1. PICK e \in Supply(s, r, k), n \in Nat \ {0} :
               ws = Cut(e, n) /\ off = n * WindowSize /\ n * WindowSize < Len(e.ct)
      BY <2>2
    <3>2. e = d /\ Len(ws) = n
      BY <3>1, SupplyOne DEF Cut
    <3>3. QED BY <3>1, <3>2
  <2>3. QED BY <2>1, <2>2 DEF Paged
<1> DEFINE w == HonestWindow(d, off)
<1>2. Append(ws, w) = Cut(d, n + 1)
  <2> DEFINE W(i) == HonestWindow(d, (i - 1) * WindowSize)
  <2>1. ws = [i \in 1 .. n |-> W(i)] /\ Cut(d, n + 1) = [i \in 1 .. n + 1 |-> W(i)]
    BY <1>1 DEF Cut
  <2>2. W(n + 1) = w
    <3>1. (n + 1) - 1 = n
      OBVIOUS
    <3>2. QED BY <1>1, <3>1
  <2> HIDE DEF W, w
  <2>3. QED BY <2>1, <2>2
<1>3. QED BY <1>1, <1>2

\* What becomes of the complete windows of an honest node.
LEMMA HonestOutcome ==
  ASSUME AllServable, NEW c, Target(c).store \in Id, job[c].key \in Keys,
         NEW d \in Supply(Target(c).store, trusted[c], job[c].key), NEW n \in Nat,
         n = 0 \/ n * WindowSize < Len(d.ct), Len(d.ct) <= (n + 1) * WindowSize
  PROVE  OfWindows(c, Cut(d, n + 1)).tag =
           IF Under(Target(c).store, trusted[c], job[c].key) = {} THEN "NotFound" ELSE "Ok"
<1> DEFINE s == Target(c).store
           k == job[c].key
           ws == Cut(d, n + 1)
           f == assemble_windows(ws)
           r == verify_and_decrypt(s, k, f.ciphertext, f.proof, trusted[c], f.lens)
<1>1. /\ d \in Docs /\ d.root = trusted[c] /\ d.store = s
      /\ Under(s, trusted[c], k) # {} => d.key = k
  BY SupplyOne
<1>2. d.chunks # <<>> /\ Len(d.ct) <= UsizeMax
  BY <1>1 DEF AllServable, Servable
<1>3. f = [ok |-> TRUE, ciphertext |-> d.ct, proof |-> OwnProof(d), lens |-> ChunkLens(d)]
  <2>1. n + 1 \in Nat \ {0} /\ (n + 1) - 1 = n /\ (n = 0 => n + 1 = 1)
    OBVIOUS
  <2>2. QED BY <1>1, <2>1, CutAssembles
<1> HIDE DEF f
<1>4. f.ok /\ r = verify_and_decrypt(s, k, d.ct, OwnProof(d), d.root, ChunkLens(d))
  BY <1>1, <1>3
<1>5. r.err = IF Under(s, trusted[c], k) = {} THEN "Decrypt" ELSE "none"
  <2>1. CASE Under(s, trusted[c], k) = {}
    BY <1>1, <1>2, <1>4, <2>1, DecoyShut
  <2>2. CASE Under(s, trusted[c], k) # {}
    BY <1>1, <1>2, <1>4, <2>2, OpensOwn
  <2>3. QED BY <2>1, <2>2
<1>6. OfWindows(c, ws) = IF ~f.ok THEN OfError("Malformed")
                         ELSE IF r.err = "none" THEN [tag |-> "Ok", pt |-> r.pt]
                         ELSE Fetched(IF r.err = "Decrypt" THEN "NotFound" ELSE "IntegrityFail")
  BY Zenon DEF OfWindows, f
<1> HIDE DEF r, ws
<1>7. QED BY <1>4, <1>5, <1>6 DEF Fetched, ws

(***************************************************************************)
(* Why HeldIsServed is inductive.                                          *)
(***************************************************************************)

\* The resource being fetched, and the one the path names itself.
Wanted(c) == Under(Target(c).store, trusted[c], job[c].key)
OwnResource(c) == Under(Target(c).store, trusted[c], resource_key_for_path(req[c].path))

\* The node held what is being fetched, if it exists, when the request arrived.
Known(c) == Wanted(c) \subseteq hist[c].had

\* A request that waits for its root has fetched nothing.
StartAt(c) ==
  pc[c] = "root" =>
    trusted[c] = None /\ job[c].windows = <<>> /\ job[c].offset = 0 /\ ~job[c].fallback

\* The windows collected are the first ones of what the node sends for the key.
PagingAt(c) ==
  pc[c] = "content" /\ Known(c) =>
    Paged(Supply(Target(c).store, trusted[c], job[c].key), job[c].windows, job[c].offset)

\* The fetch of a resource that was held is Ok, of one that does not exist NotFound.
OutcomeAt(c) ==
  pc[c] = "fetched" /\ ~hist[c].hurt /\ Known(c) =>
    fetched[c].tag = IF Wanted(c) = {} THEN "NotFound" ELSE "Ok"

\* The fallback page is fetched only where the path's own resource was not to be had.
TurnedAt(c) ==
  pc[c] \in {"content", "fetched"} /\ job[c].fallback =>
    OwnResource(c) = {} \/ ~(OwnResource(c) \subseteq hist[c].had)

ServedAt(c) ==
  Answered(c) /\ ~hist[c].hurt /\ trusted[c] # None =>
    LET found == Under(Target(c).store, trusted[c], ExpectedKey(c))
    IN  /\ found # {} /\ found \subseteq hist[c].had =>
             resp[c].status \in {200, 206, 416} /\ job[c].key = ExpectedKey(c)
        /\ found = {} => resp[c].status = 404

FetchInv(c) == StartAt(c) /\ PagingAt(c) /\ OutcomeAt(c) /\ TurnedAt(c) /\ ServedAt(c)

\* What the node holds stays held, and is of anchored roots.
HeldAnchored == \A d \in held : d.root \in AnchoredRoots(d.store)

HeldInv == HeldAnchored /\ \A c \in Conns : hist[c].had \subseteq held /\ FetchInv(c)

\* Anchored roots stay anchored.
LEMMA RootsStay ==
  ASSUME TypeOK, [Next]_vars, NEW s, NEW r \in AnchoredRoots(s)
  PROVE  r \in AnchoredRoots(s)'
<1>1. s \in Stores /\ r \in {History[s][i] : i \in 1 .. anchored[s]}
  BY DEF AnchoredRoots
<1>2. PICK i \in 1 .. anchored[s] : r = History[s][i]
  BY <1>1
<1>3. i \in 1 .. anchored'[s]
  BY <1>1, <1>2, AnchoredGrows DEF TypeOK
<1>4. QED BY <1>1, <1>2, <1>3 DEF AnchoredRoots

LEMMA HeldGrows ==
  ASSUME TypeOK, HeldAnchored, [Next]_vars
  PROVE  held \subseteq held' /\ HeldAnchored'
<1>1. held' = held \/ \E d \in Docs : Sync(d)
  BY DEF Next, vars, Receive, Health, ResolveRoot, GetContent, Serve, Deliver, Disconnect,
         Forget, Anchor, NodeFlips, nodeVars
<1>2. \A d \in held' : d \in held \/ d.root \in AnchoredRoots(d.store)
  BY <1>1 DEF Sync
<1>3. \A d \in held' : d.root \in AnchoredRoots(d.store)
  BY <1>2 DEF HeldAnchored
<1>4. \A d \in held' : d.root \in AnchoredRoots(d.store)'
  BY <1>3, RootsStay
<1>5. HeldAnchored'
  BY <1>4 DEF HeldAnchored
<1>6. QED BY <1>1, <1>5 DEF Sync

\* The answers of an honest node to a request for what it held when the request came.
LEMMA KnownAnswers ==
  ASSUME NodeHonest, HeldAnchored, NEW s, NEW r, NEW k, NEW off,
         held \subseteq Docs, Under(s, r, k) \subseteq held,
         NEW a \in ContentAnswers(s, k, r, off)
  PROVE  \/ a = Error("Transport")
         \/ /\ Under(s, r, k) = {}
            /\ a \in {Error("ROOT_NOT_ANCHORED"), Error("RESOURCE_UNAVAILABLE")}
         \/ \E d \in Supply(s, r, k) : a = WindowIs(HonestWindow(d, off))
<1> DEFINE match == {d \in held : d.store = s /\ d.key = k /\ d.root = r}
<1>1. match = Under(s, r, k)
  BY DEF Under
<1>2. a \in IF ~up THEN {Error("Transport")}
            ELSE IF r \notin AnchoredRoots(s) THEN {Error("ROOT_NOT_ANCHORED")}
            ELSE IF match # {} THEN {WindowIs(HonestWindow(d, off)) : d \in match}
            ELSE {Error("RESOURCE_UNAVAILABLE")}
                   \cup {WindowIs(HonestWindow(d, off)) : d \in Decoys(s, r, k)}
  BY Zenon DEF ContentAnswers, Decoys
<1>3. Under(s, r, k) # {} => r \in AnchoredRoots(s)
  BY DEF HeldAnchored, Under
<1> HIDE DEF match
<1>4. CASE ~up
  BY <1>2, <1>4
<1>5. CASE up /\ r \notin AnchoredRoots(s)
  BY <1>2, <1>3, <1>5
<1>6. CASE up /\ r \in AnchoredRoots(s) /\ match # {}
  BY <1>1, <1>2, <1>6 DEF Supply
<1>7. CASE up /\ r \in AnchoredRoots(s) /\ match = {}
  BY <1>1, <1>2, <1>7 DEF Supply
<1>8. QED BY <1>4, <1>5, <1>6, <1>7

\* GetContent: the next window, the miss or the end of the fetch.
LEMMA FetchStep ==
  ASSUME NodeHonest, AllServable, AuthenticInv, HeldInv, NEW c \in Conns, GetContent(c)
  PROVE  FetchInv(c)'
<1> DEFINE s == Target(c).store
           k == job[c].key
           r == trusted[c]
           ds == Supply(s, r, k)
           off == job[c].offset
<1>1. TypeOK /\ PhaseInv(c) /\ FetchInv(c) /\ hist[c].had \subseteq held /\ HeldAnchored
  BY DEF AuthenticInv, ConnInv, HeldInv
<1>2. pc[c] = "content" /\ classify(req[c]) = "Store" /\ UNCHANGED <<req, trusted, resp>>
  BY <1>1 DEF GetContent, PhaseInv
<1>3. s \in Id /\ k \in Keys /\ job[c].windows \in Seq(Window) /\ off \in Nat
  BY <1>1, <1>2, TargetTyped DEF TypeOK
<1>4. Target(c)' = Target(c)
  BY <1>2 DEF Target
<1>5. /\ job'[c].key = k /\ job'[c].fallback = job[c].fallback
      /\ hist'[c].had = hist[c].had /\ pc'[c] \in {"content", "fetched"}
  <2>1. hist'[c].had = hist[c].had
    BY <1>1 DEF GetContent, NoteHurt, TypeOK
  <2>2. CASE \E f : FetchEnds(c, f)
    BY <1>1, <2>1, <2>2 DEF FetchEnds, TypeOK
  <2>3. CASE ~ \E f : FetchEnds(c, f)
    <3>1. PICK w : Page(c, w)
      BY <2>3 DEF GetContent
    <3>2. /\ job' = [job EXCEPT ![c] = [@ EXCEPT !.windows = Append(job[c].windows, w), !.offset = w.next]]
          /\ pc' = pc
      BY <2>3, <3>1 DEF Page
    <3>3. job'[c].key = k /\ job'[c].fallback = job[c].fallback
      BY <1>1, <3>2 DEF TypeOK
    <3>4. QED BY <1>2, <2>1, <3>2, <3>3
  <2>4. QED BY <2>2, <2>3
<1>6. TurnedAt(c)'
  BY <1>1, <1>2, <1>4, <1>5 DEF FetchInv, TurnedAt, OwnResource
<1>7. Wanted(c)' = Wanted(c) /\ Known(c)' = Known(c)
  BY <1>2, <1>4, <1>5 DEF Wanted, Known
<1>8. StartAt(c)' /\ ServedAt(c)'
  BY <1>5 DEF StartAt, ServedAt, Answered
<1>9. PagingAt(c)' /\ OutcomeAt(c)'
  <2>1. CASE ~Known(c)
    BY <1>7, <2>1 DEF PagingAt, OutcomeAt
  <2>2. CASE Known(c)
    <3>1. Paged(ds, job[c].windows, off)
      BY <1>1, <1>2, <2>2 DEF FetchInv, PagingAt
    <3>2. ds \in SUBSET Docs
      BY SupplyOne
    <3>3. WithinCap(c)
      BY <3>1, <3>2, CapSpared DEF WithinCap
    <3>4. PICK a \in ContentAnswers(s, k, r, off) :
            /\ NoteHurt(c, a)
            /\ IF a.tag = "window" THEN Page(c, a.window) ELSE FetchEnds(c, OfError(a.code))
      BY <3>3 DEF GetContent
    <3>5. \/ a = Error("Transport")
          \/ Under(s, r, k) = {} /\ a \in {Error("ROOT_NOT_ANCHORED"), Error("RESOURCE_UNAVAILABLE")}
          \/ \E d \in ds : a = WindowIs(HonestWindow(d, off))
      <4>1. Under(s, r, k) \subseteq held /\ held \subseteq Docs
        BY <1>1, <2>2 DEF Known, Wanted, TypeOK
      <4>2. QED BY <1>1, <4>1, KnownAnswers
    <3>6. CASE a = Error("Transport")
      <4>1. FetchEnds(c, OfError(a.code)) /\ a.tag = "error" /\ a.code = "Transport"
        BY <3>4, <3>6 DEF Error
      <4>2. pc'[c] = "fetched" /\ hist'[c].hurt
        BY <1>1, <3>4, <4>1 DEF FetchEnds, NoteHurt, TypeOK
      <4>3. QED BY <4>2 DEF PagingAt, OutcomeAt
    <3>7. CASE Under(s, r, k) = {} /\ a \in {Error("ROOT_NOT_ANCHORED"), Error("RESOURCE_UNAVAILABLE")}
      <4>1. FetchEnds(c, OfError(a.code)) /\ is_not_found(a.code)
        BY <3>4, <3>7 DEF Error, is_not_found
      <4>2. pc'[c] = "fetched" /\ fetched'[c].tag = "NotFound"
        BY <1>1, <4>1 DEF FetchEnds, OfError, Fetched, TypeOK
      <4>3. Wanted(c) = {}
        BY <3>7 DEF Wanted
      <4>4. QED BY <1>7, <4>2, <4>3 DEF PagingAt, OutcomeAt
    <3>8. CASE \E d \in ds : a = WindowIs(HonestWindow(d, off))
      <4>1. PICK d \in ds : a = WindowIs(HonestWindow(d, off))
        BY <3>8
      <4> DEFINE w == HonestWindow(d, off)
                 ws == Append(job[c].windows, w)
      <4>2. Page(c, w)
        BY <3>4, <4>1 DEF WindowIs
      <4>3. PICK n \in Nat : /\ off = n * WindowSize /\ (n = 0 \/ n * WindowSize < Len(d.ct))
                             /\ ws = Cut(d, n + 1)
        BY <3>1, <4>1, NextWindow
      <4>4. d \in Docs
        BY <4>1, SupplyOne
      <4>5. Len(d.ct) \in Nat /\ WindowSize \in Nat \ {0} /\ off + WindowSize = (n + 1) * WindowSize
        BY <4>3, <4>4, DocsAssumption, BoundsAssumption, Offsets
      <4>6. CASE off + WindowSize >= Len(d.ct)
        <5>1. w.complete
          BY <4>6, WindowBytes, Zenon
        <5> HIDE DEF ws, w
        <5>2. FetchEnds(c, OfWindows(c, ws))
          BY <4>2, <5>1 DEF Page, ws
        <5>3. pc'[c] = "fetched" /\ fetched'[c] = OfWindows(c, ws)
          BY <1>1, <5>2 DEF FetchEnds, TypeOK
        <5>4. Len(d.ct) <= (n + 1) * WindowSize
          BY <1>3, <4>5, <4>6
        <5>5. OfWindows(c, ws).tag = IF Under(s, r, k) = {} THEN "NotFound" ELSE "Ok"
          BY <1>3, <4>1, <4>3, <5>4, HonestOutcome
        <5>6. QED BY <1>7, <5>3, <5>5 DEF PagingAt, OutcomeAt, Wanted
      <4>7. CASE ~(off + WindowSize >= Len(d.ct))
        <5>1. ~w.complete
          BY <4>7, WindowBytes, Zenon
        <5>2. w.next = off + WindowSize
          BY <4>7 DEF HonestWindow
        <5> HIDE DEF ws, w
        <5>3. Advances(c, w)
          BY <1>3, <4>5, <5>2, NoneAssumption DEF Advances
        <5>4. job' = [job EXCEPT ![c] = [@ EXCEPT !.windows = ws, !.offset = w.next]] /\ pc' = pc
          BY <4>2, <5>1, <5>3 DEF Page, ws
        <5>5. job'[c].windows = ws /\ job'[c].offset = (n + 1) * WindowSize
          BY <1>1, <4>5, <5>2, <5>4 DEF TypeOK
        <5>6. n + 1 \in Nat \ {0} /\ (n + 1) * WindowSize < Len(d.ct)
          <6> DEFINE x == (n + 1) * WindowSize
          <6>1. off + WindowSize = x /\ off \in Nat
            BY <1>3, <4>5
          <6> HIDE DEF x, off
          <6>2. x < Len(d.ct)
            BY <4>5, <4>7, <6>1
          <6>3. QED BY <6>2 DEF x
        <5>7. Paged(ds, ws, (n + 1) * WindowSize)
          BY <4>1, <4>3, <5>6 DEF Paged
        <5>8. PagingAt(c)'
          BY <1>2, <1>4, <1>5, <5>5, <5>7 DEF PagingAt
        <5>9. QED BY <1>2, <5>4, <5>8 DEF OutcomeAt
      <4>8. QED BY <4>6, <4>7
    <3>9. QED BY <3>5, <3>6, <3>7, <3>8
  <2>3. QED BY <2>1, <2>2
<1>10. QED BY <1>6, <1>8, <1>9 DEF FetchInv

\* Serve: a miss turns a route to the fallback page, anything else is answered.
LEMMA ServeStep ==
  ASSUME AuthenticInv, HurtInv, HeldInv, NEW c \in Conns, Serve(c)
  PROVE  FetchInv(c)'
<1> DEFINE own == resource_key_for_path(req[c].path)
<1>1. TypeOK /\ PhaseInv(c) /\ FetchInv(c) /\ HurtAt(c)
  BY DEF AuthenticInv, ConnInv, HeldInv, HurtInv
<1>2. /\ pc[c] = "fetched" /\ classify(req[c]) = "Store" /\ KeyRight(c)
      /\ UNCHANGED <<req, trusted, hist>> /\ Target(c)' = Target(c)
  BY <1>1 DEF Serve, PhaseInv, Target
<1>3. ~hist[c].hurt /\ Known(c) => fetched[c].tag = IF Wanted(c) = {} THEN "NotFound" ELSE "Ok"
  BY <1>1, <1>2 DEF FetchInv, OutcomeAt
<1>4. hist[c].hurt => fetched[c].tag = "NodeUnreachable"
  BY <1>1, <1>2 DEF HurtAt
<1>5. job[c].fallback => OwnResource(c) = {} \/ ~(OwnResource(c) \subseteq hist[c].had)
  BY <1>1, <1>2 DEF FetchInv, TurnedAt
<1>6. ~job[c].fallback => Wanted(c) = OwnResource(c) /\ job[c].key = own
  BY <1>2 DEF KeyRight, Wanted, OwnResource
<1>7. job[c].fallback => job[c].key = IndexKey /\ is_extensionless(req[c].path)
  BY <1>2 DEF KeyRight
<1>8. CASE FallsBack(c)
  <2>1. pc'[c] = "content" /\ job'[c] = FetchJob(IndexKey, TRUE)
    BY <1>1, <1>8 DEF Serve, TypeOK
  <2>2. fetched[c].tag = "NotFound" /\ ~job[c].fallback
    BY <1>8 DEF FallsBack
  <2>3. OwnResource(c) = {} \/ ~(OwnResource(c) \subseteq hist[c].had)
    BY <1>3, <1>4, <1>6, <2>2 DEF Known
  <2>4. TurnedAt(c)'
    BY <1>2, <2>3 DEF TurnedAt, OwnResource
  <2>5. PagingAt(c)'
    BY <2>1 DEF PagingAt, Paged, FetchJob
  <2>6. QED BY <2>1, <2>4, <2>5 DEF FetchInv, StartAt, OutcomeAt, ServedAt, Answered
<1>9. CASE ~FallsBack(c)
  <2>1. /\ Respond(c, IF fetched[c].tag = "Ok"
                      THEN ok_body_response(fetched[c].pt, RangeOf(c), IsPinned(c))
                      ELSE Text(FetchedStatus(fetched[c].tag)))
        /\ job' = job
    BY <1>9 DEF Serve
  <2>2. pc'[c] = "done"
    BY <1>1, <2>1 DEF Respond, TypeOK
  <2>3. fetched[c].tag = "Ok" => resp'[c].status \in {200, 206, 416}
    <3> SUFFICES ASSUME fetched[c].tag = "Ok" PROVE resp'[c].status \in {200, 206, 416}
      OBVIOUS
    <3>1. resp'[c] = ok_body_response(fetched[c].pt, RangeOf(c), IsPinned(c))
      BY <1>1, <2>1 DEF Respond, TypeOK
    <3>2. QED BY <3>1 DEF ok_body_response
  <2>4. fetched[c].tag = "NotFound" => resp'[c].status = 404
    <3> SUFFICES ASSUME fetched[c].tag = "NotFound" PROVE resp'[c].status = 404
      OBVIOUS
    <3>1. resp'[c] = Text(404)
      BY <1>1, <2>1 DEF Respond, TypeOK, FetchedStatus
    <3>2. QED BY <3>1 DEF Text
  <2>5. ~(fetched[c].tag = "NotFound" /\ ~job[c].fallback /\ is_extensionless(req[c].path))
    BY <1>9 DEF FallsBack
  <2> DEFINE key == ExpectedKey(c)
             found == Under(Target(c).store, trusted[c], key)
  <2>6. key = IF OwnResource(c) = {} /\ is_extensionless(req[c].path) THEN IndexKey ELSE own
    BY DEF ExpectedKey, OwnResource
  <2> HIDE DEF key
  <2>7. key = own => found = OwnResource(c)
    BY DEF OwnResource
  <2>8. key = job[c].key => found = Wanted(c)
    BY DEF Wanted
  <2>9. ~hist[c].hurt /\ found # {} /\ found \subseteq hist[c].had =>
          resp'[c].status \in {200, 206, 416} /\ job[c].key = key
    <3> SUFFICES ASSUME ~hist[c].hurt, found # {}, found \subseteq hist[c].had
                 PROVE  resp'[c].status \in {200, 206, 416} /\ job[c].key = key
      OBVIOUS
    <3>1. job[c].key = key
      <4>1. CASE job[c].fallback
        BY <1>5, <1>7, <2>6, <2>7, <4>1
      <4>2. CASE ~job[c].fallback
        <5>1. OwnResource(c) = {} => fetched[c].tag = "NotFound"
          BY <1>3, <1>6, <4>2 DEF Known
        <5>2. QED BY <1>6, <2>5, <2>6, <4>2, <5>1
      <4>3. QED BY <4>1, <4>2
    <3>2. Known(c) /\ Wanted(c) # {}
      BY <2>8, <3>1 DEF Known
    <3>3. QED BY <1>3, <2>3, <3>1, <3>2
  <2>10. ~hist[c].hurt /\ found = {} => resp'[c].status = 404
    <3> SUFFICES ASSUME ~hist[c].hurt, found = {} PROVE resp'[c].status = 404
      OBVIOUS
    <3>1. Wanted(c) = {}
      <4>1. CASE job[c].fallback
        BY <1>7, <2>6, <2>7, <2>8, <4>1
      <4>2. CASE ~job[c].fallback
        BY <1>6, <2>6, <2>7, <4>2
      <4>3. QED BY <4>1, <4>2
    <3>2. fetched[c].tag = "NotFound"
      BY <1>3, <3>1 DEF Known
    <3>3. QED BY <2>4, <3>2
  <2>11. ExpectedKey(c)' = key
    BY <1>2 DEF ExpectedKey, key
  <2>12. ServedAt(c)'
    BY <1>2, <2>1, <2>9, <2>10, <2>11 DEF ServedAt
  <2>13. QED BY <2>2, <2>12 DEF FetchInv, StartAt, PagingAt, OutcomeAt, TurnedAt
<1>10. QED BY <1>8, <1>9

\* The other steps of a connection: a request starts, learns its root, or is over.
LEMMA OtherStep ==
  ASSUME AuthenticInv, HeldInv, NEW c \in Conns,
         (\E q \in Requests : Receive(c, q)) \/ Health(c) \/ ResolveRoot(c)
           \/ Deliver(c) \/ Disconnect(c)
  PROVE  FetchInv(c)' /\ hist'[c].had \subseteq held
<1>1. TypeOK /\ PhaseInv(c) /\ FetchInv(c) /\ hist[c].had \subseteq held
  BY DEF AuthenticInv, ConnInv, HeldInv
<1>2. CASE \E q \in Requests : Receive(c, q)
  <2>1. PICK q \in Requests : Receive(c, q)
    BY <1>2
  <2> DEFINE status == handle(q)
             t == parse_dig_host(host_of(q))
  <2>2. /\ hist'[c].had = held /\ req'[c] = q /\ trusted'[c] = IF status = 0 THEN t.root ELSE None
        /\ job'[c] = FetchJob(resource_key_for_path(q.path), FALSE)
        /\ pc'[c] = IF status # 0 THEN "done"
                    ELSE IF classify(q) = "Control" THEN "health"
                    ELSE IF t.kind = "Latest" THEN "root" ELSE "content"
    BY <1>1, <2>1 DEF Receive, TypeOK
  <2>3. t.kind = "Latest" => t.root = None
    BY DEF parse_dig_host, Latest, Pinned, NotDig
  <2> HIDE DEF status, t
  <2>4. job'[c].windows = <<>> /\ job'[c].offset = 0 /\ ~job'[c].fallback
    BY <2>2 DEF FetchJob
  <2>5. StartAt(c)'
    BY <2>2, <2>3, <2>4 DEF StartAt
  <2>6. PagingAt(c)'
    BY <2>4 DEF PagingAt, Paged
  <2>7. OutcomeAt(c)' /\ TurnedAt(c)'
    BY <2>2, <2>4 DEF OutcomeAt, TurnedAt
  <2>8. ServedAt(c)'
    BY <2>2 DEF ServedAt, Answered
  <2>9. QED BY <2>2, <2>5, <2>6, <2>7, <2>8 DEF FetchInv
<1>3. CASE Health(c)
  <2>1. hist' = hist /\ req' = req /\ pc[c] = "health" /\ pc'[c] = "done"
    BY <1>1, <1>3 DEF Health, Respond, TypeOK
  <2>2. classify(req[c]) = "Control"
    BY <1>1, <2>1 DEF PhaseInv
  <2>3. QED
    BY <1>1, <2>1, <2>2
       DEF FetchInv, StartAt, PagingAt, OutcomeAt, TurnedAt, ServedAt, Answered
<1>4. CASE ResolveRoot(c)
  <2>1. pc[c] = "root" /\ job' = job /\ req' = req
    BY <1>4 DEF ResolveRoot
  <2>2. trusted[c] = None /\ job[c].windows = <<>> /\ job[c].offset = 0 /\ ~job[c].fallback
    BY <1>1, <2>1 DEF FetchInv, StartAt
  <2>3. hist'[c].had = hist[c].had
    BY <1>1, <1>4 DEF ResolveRoot, NoteHurt, TypeOK
  <2>4. pc'[c] = "content" \/ (pc'[c] = "done" /\ trusted' = trusted)
    BY <1>1, <1>4 DEF ResolveRoot, Respond, TypeOK
  <2>5. PagingAt(c)'
    BY <2>1, <2>2 DEF PagingAt, Paged
  <2>6. QED
    BY <1>1, <2>1, <2>2, <2>3, <2>4, <2>5
       DEF FetchInv, StartAt, OutcomeAt, TurnedAt, ServedAt, Answered
<1>5. CASE Deliver(c) \/ Disconnect(c)
  <2>1. hist'[c] = NoHist /\ pc'[c] = "idle"
    BY <1>1, <1>5 DEF Deliver, Disconnect, Forget, TypeOK
  <2>2. QED
    BY <2>1 DEF NoHist, FetchInv, StartAt, PagingAt, OutcomeAt, TurnedAt, ServedAt, Answered
<1>6. QED BY <1>2, <1>3, <1>4, <1>5

\* With a node that follows the read contract and resources that fit the gateway's limits,
\* what the node held when a request arrived is served, and what does not exist is a 404,
\* for any number of windows per resource and chunks per window.
THEOREM HeldServed ==
  ASSUME NodeHonest, AllServable
  PROVE  Spec => []HeldIsServed
<1>1. Init => HeldInv
  <2> SUFFICES ASSUME Init PROVE HeldInv
    OBVIOUS
  <2>1. HeldAnchored
    BY DEF Init, HeldAnchored
  <2>2. \A c \in Conns : pc[c] = "idle" /\ hist[c] = NoHist
    BY DEF Init
  <2>3. QED
    BY <2>1, <2>2
       DEF HeldInv, NoHist, FetchInv, StartAt, PagingAt, OutcomeAt, TurnedAt, ServedAt, Answered
<1>2. AuthenticInv /\ HurtInv /\ HeldInv /\ [Next]_vars => HeldInv'
  <2> SUFFICES ASSUME AuthenticInv, HurtInv, HeldInv, [Next]_vars PROVE HeldInv'
    OBVIOUS
  <2>1. TypeOK /\ held \subseteq held' /\ HeldAnchored'
    BY HeldGrows DEF AuthenticInv, HeldInv
  <2>2. ASSUME NEW c \in Conns
        PROVE  hist'[c].had \subseteq held' /\ FetchInv(c)'
    <3>1. hist[c].had \subseteq held /\ FetchInv(c)
      BY DEF HeldInv
    <3>2. CASE SameConn(c)
      <4>1. Target(c)' = Target(c) /\ ExpectedKey(c)' = ExpectedKey(c)
        BY <3>2 DEF SameConn, Target, ExpectedKey
      <4>2. FetchInv(c)'
        BY <3>1, <3>2, <4>1
           DEF SameConn, FetchInv, StartAt, PagingAt, OutcomeAt, TurnedAt, ServedAt, Answered,
               Known, Wanted, OwnResource
      <4>3. QED BY <2>1, <3>1, <3>2, <4>2 DEF SameConn
    <3>3. CASE GetContent(c)
      <4>1. hist'[c].had = hist[c].had
        BY <2>1, <3>3 DEF GetContent, NoteHurt, TypeOK
      <4>2. QED BY <2>1, <3>1, <3>3, <4>1, FetchStep
    <3>4. CASE Serve(c)
      <4>1. hist' = hist
        BY <3>4 DEF Serve
      <4>2. QED BY <2>1, <3>1, <3>4, <4>1, ServeStep
    <3>5. CASE Serves(c) /\ ~GetContent(c) /\ ~Serve(c)
      BY <2>1, <3>5, OtherStep DEF Serves
    <3>6. QED BY <2>1, <3>2, <3>3, <3>4, <3>5, OneConn
  <2>3. QED BY <2>1, <2>2 DEF HeldInv
<1>3. HeldInv => HeldIsServed
  BY DEF HeldInv, FetchInv, ServedAt, HeldIsServed
<1>4. QED BY <1>1, <1>2, <1>3, AuthenticInvariant, HurtInvariant, PTL DEF Spec

(***************************************************************************)
(* Every step of a request is one of a bounded number.                     *)
(***************************************************************************)

\* The steps a request may still take: a call per window and one that finds the cap
\* reached, the answer, and the same again for the fallback page.
Budget(c) ==
  LET turns == IF job[c].fallback THEN 1 ELSE MAX_CONTENT_WINDOWS + 3
  IN  CASE pc[c] = "health" -> 1
        [] pc[c] = "root" -> 2 * MAX_CONTENT_WINDOWS + 5
        [] pc[c] = "content" -> (MAX_CONTENT_WINDOWS - Len(job[c].windows)) + 1 + turns
        [] pc[c] = "fetched" -> turns
        [] OTHER -> 0

\* The steps of the gateway use the budget up; only a new request has a new one.
Descends ==
  \A c \in Conns :
    /\ Step(c) => Budget(c)' < Budget(c)
    /\ pc[c] # "idle" => Budget(c)' <= Budget(c)

\* What a request has at hand for the windows it may still ask for.
BudgetAt(c) ==
  /\ pc[c] = "root" => job[c].windows = <<>> /\ ~job[c].fallback
  /\ Len(job[c].windows) <= MAX_CONTENT_WINDOWS

BudgetInv == \A c \in Conns : BudgetAt(c)

\* Every request has a bounded number of steps.
Bounded == \A c \in Conns : Budget(c) \in 0..2 * MAX_CONTENT_WINDOWS + 5

LEMMA BudgetStep ==
  ASSUME AuthenticInv, BudgetInv, NEW c \in Conns, Serves(c)
  PROVE  /\ BudgetAt(c)'
         /\ Step(c) => Budget(c)' < Budget(c)
         /\ pc[c] # "idle" => Budget(c)' <= Budget(c)
<1> DEFINE max == MAX_CONTENT_WINDOWS
           n == Len(job[c].windows)
           turns == IF job[c].fallback THEN 1 ELSE max + 3
<1>1. TypeOK /\ BudgetAt(c) /\ max \in Nat /\ job[c].fallback \in BOOLEAN
  BY BoundsAssumption DEF AuthenticInv, BudgetInv, TypeOK
<1>2. n \in Nat /\ n <= max /\ job[c].windows \in Seq(Window)
  BY <1>1 DEF TypeOK, BudgetAt
<1>3. turns \in Nat \ {0}
  BY <1>1
<1>4. Budget(c) \in Nat
  BY <1>1, <1>2 DEF Budget
<1>5. ASSUME pc'[c] \in {"done", "idle"}, NEW x, job'[c] = x, Len(x.windows) \in {0, n}
      PROVE  BudgetAt(c)' /\ Budget(c)' = 0
  BY <1>1, <1>2, <1>5 DEF BudgetAt, Budget
<1>0. ASSUME NEW x, job'[c] = x, Len(x.windows) \in 0 .. max, pc'[c] # "root"
      PROVE  BudgetAt(c)'
  BY <1>0, <1>1 DEF BudgetAt
<1>6. CASE (\E q \in Requests : Receive(c, q)) /\ ~Step(c)
  <2>1. PICK q \in Requests : Receive(c, q)
    BY <1>6
  <2>2. job'[c] = FetchJob(resource_key_for_path(q.path), FALSE) /\ pc[c] = "idle"
    BY <1>1, <2>1 DEF Receive, TypeOK
  <2>3. job'[c].windows = <<>> /\ ~job'[c].fallback
    BY <2>2 DEF FetchJob
  <2>4. Len(job'[c].windows) = 0
    BY <2>3
  <2>5. BudgetAt(c)'
    BY <1>1, <2>3, <2>4 DEF BudgetAt
  <2>6. QED BY <1>6, <2>2, <2>5
<1>7. CASE Health(c)
  <2>1. pc[c] = "health" /\ pc'[c] = "done" /\ job' = job
    BY <1>1, <1>7 DEF Health, Respond, TypeOK
  <2>2. QED BY <1>5, <2>1 DEF Budget
<1>8. CASE ResolveRoot(c)
  <2>1. pc[c] = "root" /\ job' = job /\ n = 0 /\ turns = max + 3
    BY <1>1, <1>8 DEF ResolveRoot, BudgetAt
  <2>2. pc'[c] \in {"content", "done"}
    BY <1>1, <1>8 DEF ResolveRoot, Respond, TypeOK
  <2>3. Budget(c) = 2 * max + 5
    BY <2>1 DEF Budget
  <2>4. CASE pc'[c] = "content"
    <3>1. Budget(c)' = (max - n) + 1 + turns
      BY <2>1, <2>4 DEF Budget
    <3>2. QED BY <1>1, <1>2, <2>1, <2>3, <2>4, <3>1 DEF BudgetAt
  <2>5. CASE pc'[c] = "done"
    BY <1>1, <1>5, <2>1, <2>3, <2>5
  <2>6. QED BY <2>2, <2>4, <2>5
<1>9. CASE GetContent(c)
  <2>1. pc[c] = "content" /\ Budget(c) = (max - n) + 1 + turns
    BY <1>9 DEF GetContent, Budget
  <2>2. CASE \E f : FetchEnds(c, f)
    <3>1. pc'[c] = "fetched" /\ job' = job
      BY <1>1, <2>2 DEF FetchEnds, TypeOK
    <3>2. Budget(c)' = turns
      BY <3>1 DEF Budget
    <3>3. QED BY <1>1, <1>2, <1>3, <2>1, <3>1, <3>2 DEF BudgetAt
  <2>3. CASE ~ \E f : FetchEnds(c, f)
    <3>1. WithinCap(c) /\ \E a \in ContentAnswers(Target(c).store, job[c].key, trusted[c], job[c].offset) :
            a.tag = "window" /\ Page(c, a.window)
      BY <1>9, <2>3 DEF GetContent
    <3>2. PICK a \in ContentAnswers(Target(c).store, job[c].key, trusted[c], job[c].offset) :
            a.tag = "window" /\ Page(c, a.window)
      BY <3>1
    <3> DEFINE w == a.window
               ws == Append(job[c].windows, w)
    <3>3. w \in Window
      <4>1. job[c].offset \in Nat
        BY <1>1 DEF TypeOK
      <4>2. QED BY <1>1, <3>2, <4>1, ContentAnswerTyped
    <3>4. Len(ws) = n + 1
      BY <1>2, <3>3
    <3> HIDE DEF w, ws
    <3>5. /\ job' = [job EXCEPT ![c] = [@ EXCEPT !.windows = ws, !.offset = w.next]]
          /\ pc' = pc
      BY <2>3, <3>2 DEF Page, w, ws
    <3>6. job'[c].windows = ws /\ job'[c].fallback = job[c].fallback /\ pc'[c] = "content"
      BY <1>1, <2>1, <3>5 DEF TypeOK
    <3>7. n < max
      BY <3>1 DEF WithinCap
    <3>8. Budget(c)' = (max - (n + 1)) + 1 + turns
      BY <3>4, <3>6 DEF Budget
    <3>9. Budget(c)' < Budget(c) /\ Budget(c)' <= Budget(c)
      <4> HIDE DEF n, turns
      <4>1. QED BY <1>1, <1>2, <1>3, <2>1, <3>7, <3>8
    <3>10. Len(job'[c].windows) \in 0 .. max
      BY <1>1, <1>2, <3>4, <3>6, <3>7
    <3>11. BudgetAt(c)'
      BY <1>0, <3>6, <3>10
    <3>12. QED BY <3>9, <3>11
  <2>4. QED BY <2>2, <2>3
<1>10. CASE Serve(c)
  <2>1. pc[c] = "fetched" /\ Budget(c) = turns
    BY <1>10 DEF Serve, Budget
  <2>2. CASE FallsBack(c)
    <3>1. pc'[c] = "content" /\ job'[c] = FetchJob(IndexKey, TRUE) /\ turns = max + 3
      BY <1>1, <1>10, <2>2 DEF Serve, TypeOK, FallsBack
    <3>2. job'[c].windows = <<>> /\ job'[c].fallback
      BY <3>1 DEF FetchJob
    <3>3. Budget(c)' = (max - 0) + 1 + 1
      BY <3>1, <3>2 DEF Budget
    <3>4. Budget(c)' < Budget(c)
      BY <1>1, <2>1, <3>1, <3>3
    <3>5. BudgetAt(c)'
      <4>1. Len(job'[c].windows) = 0
        BY <3>2
      <4>2. Len(job'[c].windows) \in 0 .. max /\ pc'[c] # "root"
        <5>1. 0 \in 0 .. max
          BY <1>1
        <5>2. pc'[c] # "root"
          BY <3>1
        <5>3. QED BY <4>1, <5>1, <5>2, Zenon
      <4>3. QED BY <1>0, <4>2
    <3> DEFINE b == Budget(c)
               d == Budget(c)'
    <3>6. d \in Nat /\ b \in Nat /\ d < b
      BY <1>1, <1>4, <3>3, <3>4
    <3> HIDE DEF b, d
    <3>7. d <= b
      BY <3>6
    <3>8. QED BY <3>5, <3>6, <3>7 DEF b, d
  <2>3. CASE ~FallsBack(c)
    <3>1. pc'[c] = "done" /\ job' = job
      BY <1>1, <1>10, <2>3 DEF Serve, Respond, TypeOK
    <3>2. BudgetAt(c)' /\ Budget(c)' = 0
      BY <1>5, <3>1
    <3>3. QED BY <1>3, <2>1, <3>2
  <2>4. QED BY <2>2, <2>3
<1>11. CASE (Deliver(c) \/ Disconnect(c)) /\ ~Step(c)
  <2>1. pc'[c] = "idle" /\ job'[c] = NoJob /\ hist'[c] = NoHist
    BY <1>1, <1>11 DEF Deliver, Disconnect, Forget, TypeOK
  <2>2. Len(NoJob.windows) = 0
    BY DEF NoJob
  <2>3. BudgetAt(c)' /\ Budget(c)' = 0
    BY <1>5, <2>1, <2>2
  <2>4. QED BY <1>4, <1>11, <2>3
<1>12. QED BY <1>6, <1>7, <1>8, <1>9, <1>10, <1>11 DEF Serves, Step

\* Whatever the node answers, each step of a request uses up one of at most
\* 2 * MAX_CONTENT_WINDOWS + 5 steps, and nothing gives any back before the next request:
\* with the timeout on every call, EveryRequestEnds rests on this.  (get_content,
\* spa_or_404)
THEOREM RequestsDescend == Spec => []Bounded /\ [][Descends]_vars
<1>1. Init => BudgetInv
  BY BoundsAssumption DEF Init, BudgetInv, BudgetAt, NoJob
<1>2. AuthenticInv /\ BudgetInv /\ [Next]_vars => BudgetInv' /\ Descends
  <2> SUFFICES ASSUME AuthenticInv, BudgetInv, [Next]_vars, NEW c \in Conns
               PROVE  /\ BudgetAt(c)'
                      /\ Step(c) => Budget(c)' < Budget(c)
                      /\ pc[c] # "idle" => Budget(c)' <= Budget(c)
    BY DEF BudgetInv, Descends
  <2>1. TypeOK /\ BudgetAt(c)
    BY DEF AuthenticInv, BudgetInv
  <2>2. CASE Serves(c)
    BY <2>2, BudgetStep
  <2>3. CASE SameConn(c) /\ ~Serves(c)
    <3>1. ~Step(c)
      BY <2>3 DEF Serves, Step
    <3>2. BudgetAt(c)' /\ Budget(c)' = Budget(c)
      BY <2>1, <2>3 DEF SameConn, BudgetAt, Budget
    <3>3. Budget(c) \in Int
      <4>1. Len(job[c].windows) \in Nat /\ MAX_CONTENT_WINDOWS \in Nat
        BY <2>1, BoundsAssumption DEF TypeOK
      <4>2. QED BY <4>1 DEF Budget
    <3>4. QED BY <3>1, <3>2, <3>3
  <2>4. QED BY <2>1, <2>2, <2>3, OneConn
<1>3. AuthenticInv /\ BudgetInv => Bounded
  <2> SUFFICES ASSUME AuthenticInv, BudgetInv, NEW c \in Conns
               PROVE  Budget(c) \in 0..2 * MAX_CONTENT_WINDOWS + 5
    BY DEF Bounded
  <2>1. /\ Len(job[c].windows) \in Nat /\ MAX_CONTENT_WINDOWS \in Nat
        /\ Len(job[c].windows) <= MAX_CONTENT_WINDOWS
    BY BoundsAssumption DEF AuthenticInv, TypeOK, BudgetInv, BudgetAt
  <2> DEFINE max == MAX_CONTENT_WINDOWS
             n == Len(job[c].windows)
             turns == IF job[c].fallback THEN 1 ELSE max + 3
             b == Budget(c)
  <2>2. turns = 1 \/ turns = max + 3
    BY Zenon
  <2>3. b = 1 \/ b = 2 * max + 5 \/ b = (max - n) + 1 + turns \/ b = turns \/ b = 0
    BY Zenon DEF Budget
  <2>4. n \in Nat /\ max \in Nat /\ n <= max
    BY <2>1
  <2> HIDE DEF turns, b, n, max
  <2>5. b \in 0..2 * max + 5
    BY <2>2, <2>3, <2>4
  <2>6. QED BY <2>5 DEF b, max
<1>4. QED BY <1>1, <1>2, <1>3, AuthenticInvariant, PTL DEF Spec
=============================================================================
