----------------------------- MODULE MCGateway -----------------------------
(***************************************************************************)
(* Instances of Gateway for TLC.  Store s1 has two generations: r1 with    *)
(* index.html and the route `about` (two chunks, so two windows), r2 with  *)
(* a new index.html and the same `about`.  x1 is a tree nobody anchored.   *)
(***************************************************************************)
EXTENDS Gateway

Chunk(n) == [ct |-> <<n, 10 + n>>, pt |-> <<100 + n>>]
Doc(s, r, k, chunks) ==
  [store |-> s, root |-> r, key |-> k, chunks |-> chunks,
   ct |-> FlattenSeq([i \in DOMAIN chunks |-> chunks[i].ct]),
   pt |-> FlattenSeq([i \in DOMAIN chunks |-> chunks[i].pt])]

About == <<"about">>
AppJs == <<"app.js">>

I1 == Doc("s1", "r1", IndexKey, <<Chunk(1)>>)
A1 == Doc("s1", "r1", About, <<Chunk(2), Chunk(3)>>)
I2 == Doc("s1", "r2", IndexKey, <<Chunk(4)>>)
A2 == Doc("s1", "r2", About, <<Chunk(2), Chunk(3)>>)
X1 == Doc("s1", "x1", IndexKey, <<Chunk(5)>>)
J1 == Doc("s2", "q1", IndexKey, <<Chunk(6)>>)

MCId == {"s1", "s2", "r1", "r2", "q1", "x1"}
MCByte == 0 .. 120
MCDocs == {I1, A1, I2, A2, X1, J1}
MCDotSegments == {"index.html", "app.js", ".dig", "proxy.pac", ".", ".."}
MCLens == {<<>>, <<1, 1>>, <<2>>, <<2, 2>>, <<1, 3>>, <<4>>, <<0, 2>>}
MCHistory == [s \in {"s1"} |-> <<"r1", "r2">>]
NoHistory == [s \in {} |-> <<>>]
MCInitHeld == {I1, A1}

Hosted(labels) == [labels |-> labels, tld |-> TRUE, dots |-> 0, port |-> FALSE]
Foreign == [labels |-> <<"example">>, tld |-> FALSE, dots |-> 0, port |-> FALSE]

Get(host, path) ==
  [method |-> "GET", proxy |-> FALSE, host |-> host, path |-> path, range |-> WholeHeader]
Ranged(q, a, b) == [q EXCEPT !.range = [single |-> TRUE, a |-> a, b |-> b]]

S1 == Hosted(<<"s1">>)
R1S1 == Hosted(<<"r1", "s1">>)

\* Requests to one store: both host forms, the root path, a route with a resource of its
\* own, one without, and a missing file.
HonestRequests ==
  {Get(S1, <<"">>), Get(S1, About), Get(S1, <<"team">>), Get(S1, AppJs), Get(R1S1, About),
   Get(Hosted(<<"r2", "s1">>), About)}

\* The same paths against a misbehaving node, with ranges and with hosts of every kind.
StoreRequests ==
  {Get(h, p) : h \in {S1, R1S1, Hosted(<<"q1", "s1">>)}, p \in {<<"">>, About, AppJs}}
RangeRequests ==
  {Ranged(Get(R1S1, About), a, b) : a \in {Empty, 0, 1, 2}, b \in {Empty, 0, 1, 5}}
EdgeHosts == {Hosted(<<>>), Hosted(<<"bad">>), Hosted(<<"">>), Hosted(<<"s1", "r1", "s1">>), Foreign,
              [S1 EXCEPT !.dots = 1], [S1 EXCEPT !.dots = 2], [S1 EXCEPT !.port = TRUE],
              [S1 EXCEPT !.dots = 1, !.port = TRUE]}
EdgePaths == {<<"..", "about">>, <<"%2e%2e", "about">>, <<".dig">>, <<".dig", "health">>,
              <<".dig", "proxy.pac">>, <<".dig", "resolve-probe">>}
EdgeRequests ==
  {[method |-> m, proxy |-> p, host |-> h, path |-> path, range |-> WholeHeader] :
     m \in {"GET", "POST", "CONNECT"}, p \in BOOLEAN, h \in EdgeHosts, path \in EdgePaths \cup {About}}
FaultyRequests == StoreRequests \cup RangeRequests \cup EdgeRequests

\* Windows of a misbehaving node: true and forged proofs, true and foreign bytes, cut in
\* one or two, with chunk lengths that fit and that do not, advancing or not.
ProofOf(d) == [decodes |-> TRUE, leaf |-> d.ct, root |-> d.root]
BadProofs == {[decodes |-> FALSE, leaf |-> I1.ct, root |-> "r1"],
              [decodes |-> TRUE, leaf |-> X1.ct, root |-> "r1"],
              [decodes |-> TRUE, leaf |-> A1.ct, root |-> "x1"]}
GoodProofs == {ProofOf(d) : d \in {I1, A1, X1, J1}}
LensFor(bytes) == IF Len(bytes) = 2 THEN {<<>>, <<2>>, <<1, 1>>, <<0, 2>>, <<4>>}
                  ELSE {<<>>, <<2, 2>>, <<1, 3>>, <<4>>}
Piece(bytes, complete, next, proof, lens) ==
  [bytes |-> bytes, complete |-> complete, next |-> next, proof |-> proof, lens |-> lens,
   root |-> "r1"]
WholeWindows ==
  UNION {{Piece(b, TRUE, None, p, l) : p \in GoodProofs \cup BadProofs, l \in LensFor(b)} :
           b \in {I1.ct, A1.ct, X1.ct}}
LackingWindows ==
  {Piece(I1.ct, TRUE, None, None, <<2>>), Piece(I1.ct, TRUE, None, ProofOf(I1), None),
   Piece(None, TRUE, None, ProofOf(I1), <<2>>),
   [Piece(I1.ct, TRUE, None, ProofOf(I1), <<2>>) EXCEPT !.root = None]}
FirstWindows ==
  {Piece(SubSeq(A1.ct, 1, 3), FALSE, n, p, l) :
     n \in {None, 0, 3}, p \in {ProofOf(A1), ProofOf(X1)}, l \in {<<2, 2>>, <<1, 3>>}}
LaterWindows ==
  {Piece(b, c, n, None, None) :
     b \in {SubSeq(A1.ct, 4, 4), X1.ct}, c \in BOOLEAN, n \in {2, 5}}
MCFaultyWindows == WholeWindows \cup LackingWindows \cup FirstWindows \cup LaterWindows
MCFaultyRoots == {"r1", "x1", None}

\* The resources of the instances are ones HeldServed speaks of.
ASSUME AllServable
=============================================================================
