----------------------------- MODULE DnsProofs -----------------------------
(***************************************************************************)
(* What the DNS responder does for every set of queries, proved.           *)
(***************************************************************************)
EXTENDS Dns, TLAPS

\* The 16-bit numbers, and what a cast to them gives.
LEMMA U16Numbers == ASSUME NEW x \in U16 PROVE x \in Nat
  BY DEF U16, U16Mod

LEMMA U16Cast == ASSUME NEW x \in Nat PROVE x % U16Mod \in U16
  BY DEF U16, U16Mod

\* The numbers in a query.
LEMMA QueryNumbers ==
  ASSUME NEW q \in Messages
  PROVE  /\ q.qlen \in Nat
         /\ q.opt = None \/ q.opt \in Nat
         /\ q.name \in Seq(Labels)
<1>1. q.qlen \in U16 /\ q.opt \in U16 \cup {None} /\ q.name \in Seq(Labels)
  BY DEF Messages
<1> QED
  BY <1>1, U16Numbers

\* A datagram is still a query after the UDP buffer has cut it.
LEMMA ReceivedIsQuery ==
  ASSUME NEW q \in Messages
  PROVE  UdpReceived(q) \in Messages
<1> DEFINE form == IF HEADER_LEN + q.qlen > UDP_BUF THEN "cut" ELSE q.form
           opt == IF HEADER_LEN + q.qlen + OPT_MIN > UDP_BUF THEN None ELSE q.opt
<1>1. form \in {"whole", "pointer", "cut"} /\ opt \in U16 \cup {None}
  BY DEF Messages
<1>2. UDP_BUF \in U16
  BY DEF UDP_BUF, U16, U16Mod
<1> HIDE DEF form, opt
<1>3. [q EXCEPT !.len = UDP_BUF, !.form = form, !.opt = opt] \in Messages
  BY <1>1, <1>2 DEF Messages
<1> QED
  BY <1>3 DEF UdpReceived, form, opt

\* The lengths build adds up.
LEMMA Lengths ==
  ASSUME NEW q \in Messages
  PROVE  /\ EmptyLen(q) \in Nat /\ FullLen(q) \in Nat
         /\ EmptyLen(q) >= HEADER_LEN /\ FullLen(q) >= HEADER_LEN
         /\ EmptyLen(q) <= q.qlen + 39 /\ FullLen(q) <= q.qlen + 39
<1> DEFINE o == IF has_opt(q) THEN 11 ELSE 0
           a == IF decide(q) = "A" THEN 16 ELSE 0
<1>1. o \in 0..11 /\ a \in 0..16
  OBVIOUS
<1>2. EmptyLen(q) = 12 + q.qlen + o /\ FullLen(q) = 12 + q.qlen + o + a
  BY DEF EmptyLen, FullLen, HEADER_LEN, OPT_LEN, RR_LEN
<1>3. q.qlen \in Nat
  BY QueryNumbers
<1> HIDE DEF o, a
<1> QED
  BY <1>1, <1>2, <1>3 DEF HEADER_LEN

\* A reply as respond makes it: well formed, at least a header, and no longer than the
\* question, the answer and the OPT record make it.
BuiltFor(q, r) ==
  r \in Replies /\ r.len >= HEADER_LEN /\ r.len <= q.qlen + 39 /\ ~r.cut

\* respond answers a query with such a reply, or not at all.
LEMMA RespondType ==
  ASSUME NEW q \in Messages, NEW transport
  PROVE  respond(q, transport) = None \/ BuiltFor(q, respond(q, transport))
<1>0. q.qlen \in Nat
  BY QueryNumbers
<1>1. build_formerr \in Replies /\ build_formerr.len = HEADER_LEN /\ ~build_formerr.cut
  BY DEF build_formerr, Replies, Rcodes, Labels, HEADER_LEN
<1>2. EmptyLen(q) \in Nat /\ EmptyLen(q) >= HEADER_LEN /\ EmptyLen(q) <= q.qlen + 39
  BY Lengths
<1>3. FullLen(q) \in Nat /\ FullLen(q) >= HEADER_LEN /\ FullLen(q) <= q.qlen + 39
  BY Lengths
<1>4. /\ Truncates(q, transport) \in BOOLEAN
      /\ has_opt(q) \in BOOLEAN
      /\ q.name \in Seq(Labels)
  BY QueryNumbers DEF Truncates, has_opt
<1>5. build(q, transport) \in Replies /\ ~build(q, transport).cut
  BY <1>2, <1>3, <1>4 DEF build, Replies, Rcodes
<1>6. build(q, transport).len \in {EmptyLen(q), FullLen(q)}
  BY DEF build
<1>7. BuiltFor(q, build(q, transport))
  BY <1>2, <1>3, <1>5, <1>6 DEF BuiltFor
<1>8. BuiltFor(q, build_formerr)
  BY <1>0, <1>1 DEF BuiltFor, HEADER_LEN
<1> QED
  BY <1>7, <1>8 DEF respond

\* What is read behind the prefix: a reply of fewer than 2^16 bytes whole, of a longer
\* one what is left of it.  (handle_dns_tcp)
LEMMA TcpReadIs ==
  ASSUME NEW r \in Replies, ~r.cut, r.len >= HEADER_LEN
  PROVE  /\ rlen(r) \in U16
         /\ TcpRead(r) \in Replies
         /\ TcpRead(r).cut \/ TcpRead(r) = r
         /\ TcpRead(r).cut => r.len >= U16Mod
<1>1. r.len \in Nat
  BY DEF Replies
<1>2. rlen(r) \in U16
  BY <1>1, U16Cast DEF rlen
<1>3. [r EXCEPT !.len = rlen(r), !.cut = TRUE] \in Replies
  BY <1>2, U16Numbers DEF Replies
<1>4. r.len < U16Mod => rlen(r) = r.len
  BY <1>1 DEF rlen, U16Mod
<1>5. TcpRead(r) = r \/ (rlen(r) # r.len /\ TcpRead(r) = [r EXCEPT !.len = rlen(r), !.cut = TRUE])
  BY DEF TcpRead
<1>6. r.len < U16Mod \/ r.len >= U16Mod
  BY <1>1 DEF U16Mod
<1>7. [r EXCEPT !.len = rlen(r), !.cut = TRUE].cut
  BY DEF Replies
<1> QED
  BY <1>2, <1>3, <1>4, <1>5, <1>6, <1>7

\* The longest reply to a name DNS allows, with its answer and its OPT record, is no
\* longer than the classic UDP limit.  (build)
LEMMA OrdinaryNotTruncated ==
  ASSUME NEW q \in Messages, Parses(q), q.qlen <= 259, q.opt \notin 0..511,
         respond(q, "Udp") # None
  PROVE  ~respond(q, "Udp").tc
<1>1. FullLen(q) \in Nat /\ FullLen(q) <= 298
  <2>1. FullLen(q) \in Nat /\ q.qlen \in Nat /\ FullLen(q) <= q.qlen + 39
    BY Lengths, QueryNumbers
  <2> QED
    BY <2>1
<1>2. UdpLimit(q) \in Int /\ UdpLimit(q) >= 512
  <2>1. q.opt = None \/ q.opt \in Nat
    BY QueryNumbers
  <2>2. ASSUME NEW x \in Nat, x \notin 0..511 PROVE x >= 512
    BY <2>2
  <2>3. q.opt = None \/ (q.opt \in Int /\ q.opt >= 512)
    BY <2>1, <2>2
  <2> QED
    BY <2>3 DEF UdpLimit, has_opt, edns_udp_size, DEFAULT_UDP_MAX
<1>3. ~Truncates(q, "Udp")
  BY <1>1, <1>2 DEF Truncates
<1>4. respond(q, "Udp") = build(q, "Udp")
  BY DEF respond
<1> QED
  BY <1>3, <1>4 DEF build

-----------------------------------------------------------------------------
\* Types, and the limit, are kept by every step; query is always one of Queries.
DnsInv == TypeOK /\ OrdinaryFitsUdp

\* The responder's replies are well formed and a name DNS allows never needs TCP, whatever
\* the queries are.  (respond, build, serve_dns, handle_dns_tcp)
THEOREM DnsInvariant == Spec => []DnsInv
<1>1. Init => DnsInv
  BY QueriesAssumption DEF Init, DnsInv, TypeOK, OrdinaryFitsUdp
<1>2. DnsInv /\ [Next]_vars => DnsInv'
  <2> SUFFICES ASSUME DnsInv, [Next]_vars PROVE DnsInv'
    OBVIOUS
  <2>1. CASE \E q \in Queries : Ask(q)
    BY <2>1, QueriesAssumption DEF DnsInv, TypeOK, OrdinaryFitsUdp, Ask
  <2>2. CASE ServeUdp
    <3>1. UdpReceived(query) \in Messages
      BY ReceivedIsQuery DEF DnsInv, TypeOK
    <3>2. TypeOK'
      BY <2>2, <3>1, RespondType DEF DnsInv, TypeOK, ServeUdp, BuiltFor
    <3>3. ASSUME Parses(query), query.qlen <= 259, query.len <= UDP_BUF,
                 query.opt \notin 0..511, pc' = "tcp"
          PROVE  FALSE
      <4>1. UdpReceived(query) = query
        BY <3>3 DEF UdpReceived
      <4>2. reply' = respond(query, "Udp") /\ reply' # None /\ reply'.tc
        BY <2>2, <3>3, <4>1 DEF ServeUdp
      <4> QED
        BY <3>3, <4>2, OrdinaryNotTruncated DEF DnsInv, TypeOK
    <3>4. OrdinaryFitsUdp'
      BY <2>2, <3>3 DEF OrdinaryFitsUdp, ServeUdp, Parses
    <3> QED
      BY <3>2, <3>4 DEF DnsInv
  <2>3. CASE UdpLost
    BY <2>3 DEF DnsInv, TypeOK, OrdinaryFitsUdp, UdpLost
  <2>4. CASE ServeTcp
    <3>1. /\ reply' = None \/ (reply' \in Replies /\ (reply'.cut \/ reply'.len >= HEADER_LEN))
          /\ prefix' \in U16 \cup {None}
      <4>1. CASE respond(query, "Tcp") = None
        BY <2>4, <4>1 DEF ServeTcp
      <4>2. CASE respond(query, "Tcp") # None
        <5>1. BuiltFor(query, respond(query, "Tcp"))
          BY <4>2, RespondType DEF DnsInv, TypeOK
        <5>2. reply' = TcpRead(respond(query, "Tcp")) /\ prefix' = rlen(respond(query, "Tcp"))
          BY <2>4, <4>2 DEF ServeTcp
        <5> QED
          BY <5>1, <5>2, TcpReadIs DEF BuiltFor
      <4> QED
        BY <4>1, <4>2
    <3> QED
      BY <2>4, <3>1 DEF DnsInv, TypeOK, OrdinaryFitsUdp, ServeTcp
  <2>5. CASE UNCHANGED vars
    BY <2>5 DEF DnsInv, TypeOK, OrdinaryFitsUdp, Answered, vars
  <2> QED
    BY <2>1, <2>2, <2>3, <2>4, <2>5 DEF Next
<1> QED
  BY <1>1, <1>2, PTL DEF Spec

\* The type invariant of Dns.
THEOREM DnsTypes == Spec => []TypeOK
<1>1. DnsInv => TypeOK
  BY DEF DnsInv
<1> QED
  BY <1>1, DnsInvariant, PTL

\* A legal name asked by a client that follows RFC 6891 is answered whole over UDP: the
\* retry over TCP is never needed for it.  (build)
THEOREM OrdinaryAnsweredOverUdp == Spec => []OrdinaryFitsUdp
<1>1. DnsInv => OrdinaryFitsUdp
  BY DEF DnsInv
<1> QED
  BY <1>1, DnsInvariant, PTL

-----------------------------------------------------------------------------
\* Where the reply a client ends with came from: the UDP responder, and then it was not
\* truncated, or the TCP one, read as far as its prefix says.
Provenance ==
  /\ pc = "udp" => reply = None
  /\ pc \in {"udp", "tcp"} => prefix = None
  /\ Answered =>
       \/ /\ prefix = None
          /\ reply = respond(UdpReceived(query), "Udp") /\ ~reply.tc
       \/ /\ prefix # None
          /\ respond(query, "Tcp") # None
          /\ reply = TcpRead(respond(query, "Tcp"))

\* The policy, for a message the responder heard and its reply.
Ours(name) == name # <<>> /\ name[Len(name)] # "label"
Keeps(q, r) ==
  /\ (q.form = "whole" /\ q.qd) =>
       /\ r.question = q.name
       /\ r.rcode = (IF Ours(q.name) THEN "NOERROR" ELSE "REFUSED")
       /\ (parse_first_a_ipv4(r) = "loopback") <=> (Ours(q.name) /\ q.type = "A")
  /\ ~(q.form = "whole" /\ q.qd) => r.rcode = "FORMERR" /\ r.an = 0

\* A whole reply of respond keeps the policy for what it was asked.
LEMMA RespondPolicy ==
  ASSUME NEW q \in Messages, NEW transport,
         respond(q, transport) # None, ~respond(q, transport).tc
  PROVE  Keeps(q, respond(q, transport))
<1> DEFINE r == respond(q, transport)
           ours == Ours(q.name)
<1>1. q.name # <<>> => q.name[Len(q.name)] \in Labels
  <2>1. q.name \in Seq(Labels)
    BY QueryNumbers
  <2> QED
    BY <2>1
<1>2. under_tld(q.name) <=> ours
  BY <1>1 DEF under_tld, Labels, Ours
<1>3. CASE Parses(q)
  <2>1. r = build(q, transport)
    BY <1>3 DEF respond
  <2>2. ~Truncates(q, transport)
    BY <2>1 DEF build
  <2>3. decide(q) = "A" <=> (ours /\ q.type = "A")
    BY <1>2 DEF decide
  <2>4. decide(q) = "Refused" <=> ~ours
    BY <1>2 DEF decide
  <2>5. r.an = (IF decide(q) = "A" THEN 1 ELSE 0) /\ r.question = q.name
        /\ r.rcode = (IF decide(q) = "Refused" THEN "REFUSED" ELSE "NOERROR")
    BY <2>1, <2>2 DEF build
  <2>6. (parse_first_a_ipv4(r) = "loopback") <=> r.an = 1
    BY DEF parse_first_a_ipv4
  <2> QED
    BY <1>3, <2>3, <2>4, <2>5, <2>6 DEF Parses, Keeps
<1>4. CASE ~Parses(q)
  BY <1>4 DEF Parses, respond, build_formerr, Keeps
<1> QED
  BY <1>3, <1>4

\* A TCP reply is not truncated.
LEMMA TcpNotTruncated ==
  ASSUME NEW q, respond(q, "Tcp") # None
  PROVE  ~respond(q, "Tcp").tc
  BY DEF respond, build, build_formerr, Truncates

\* What the UDP buffer cannot touch.
LEMMA ReceivedSame ==
  ASSUME NEW q \in Messages
  PROVE  /\ UdpReceived(q).qd = q.qd /\ UdpReceived(q).name = q.name
         /\ UdpReceived(q).type = q.type
  BY DEF UdpReceived, Messages

\* Every exchange that ends with a reply ends with the one the policy asks for, by
\* whichever transport it was answered: an address for an A query under the TLD and only
\* then.  It is read whole for every question of at most 65496 bytes; a longer one, asked
\* over TCP, may be answered by a reply whose length wraps in its prefix, and then the
\* client reads only the first bytes of it.  (respond, serve_dns, handle_dns_tcp)
THEOREM PolicyHolds == Spec => []Policy
<1>1. Init => Provenance
  BY DEF Init, Provenance, Answered
<1>2. DnsInv /\ Provenance /\ [Next]_vars => Provenance'
  <2> SUFFICES ASSUME DnsInv, Provenance, [Next]_vars PROVE Provenance'
    OBVIOUS
  <2>1. CASE \E q \in Queries : Ask(q)
    BY <2>1 DEF Ask, Provenance, Answered
  <2>2. CASE ServeUdp
    BY <2>2 DEF ServeUdp, Provenance, Answered
  <2>3. CASE UdpLost
    BY <2>3 DEF UdpLost, Provenance, Answered
  <2>4. CASE ServeTcp
    <3>1. ASSUME respond(query, "Tcp") # None PROVE rlen(respond(query, "Tcp")) # None
      <4>1. BuiltFor(query, respond(query, "Tcp"))
        BY <3>1, RespondType DEF DnsInv, TypeOK
      <4>2. rlen(respond(query, "Tcp")) \in Nat
        BY <4>1, TcpReadIs, U16Numbers DEF BuiltFor
      <4> QED
        BY <4>2, NoneAssumption
    <3> QED
      BY <2>4, <3>1 DEF ServeTcp, Provenance, Answered
  <2>5. CASE UNCHANGED vars
    BY <2>5 DEF Provenance, Answered, vars
  <2> QED
    BY <2>1, <2>2, <2>3, <2>4, <2>5 DEF Next
<1>3. DnsInv /\ Provenance => Policy
  <2> SUFFICES ASSUME DnsInv, Provenance, Answered PROVE Policy
    BY DEF Policy
  <2>1. query \in Messages /\ UdpReceived(query) \in Messages /\ reply # None
    BY ReceivedIsQuery DEF DnsInv, TypeOK, Answered
  <2>2. CASE prefix = None
    <3>1. reply = respond(UdpReceived(query), "Udp") /\ ~reply.tc
      BY <2>2 DEF Provenance
    <3>2. /\ UdpReceived(query).qd = query.qd /\ UdpReceived(query).name = query.name
          /\ UdpReceived(query).type = query.type
      BY <2>1, ReceivedSame
    <3>3. Keeps(UdpReceived(query), reply)
      BY <2>1, <3>1, RespondPolicy
    <3>4. ~reply.cut
      BY <2>1, <3>1, RespondType DEF BuiltFor
    <3> QED
      BY <2>2, <3>1, <3>2, <3>3, <3>4 DEF Policy, Keeps, Ours
  <2>3. CASE prefix # None
    <3> DEFINE r == respond(query, "Tcp")
    <3>1. r # None /\ reply = TcpRead(r) /\ BuiltFor(query, r)
      BY <2>1, <2>3, RespondType DEF Provenance
    <3>2. /\ reply.cut => r.len >= U16Mod
          /\ ~reply.cut => reply = r
      BY <3>1, TcpReadIs DEF BuiltFor
    <3>3. reply.cut => query.qlen >= 65497
      <4>1. r.len \in Nat /\ r.len <= query.qlen + 39 /\ query.qlen \in Nat
        BY <2>1, <3>1, QueryNumbers DEF BuiltFor, Replies
      <4> HIDE DEF r
      <4> QED
        BY <3>2, <4>1 DEF U16Mod
    <3>4. ~r.tc /\ Keeps(query, r)
      BY <2>1, <3>1, TcpNotTruncated, RespondPolicy
    <3> HIDE DEF r
    <3> QED
      BY <2>3, <3>2, <3>3, <3>4 DEF Policy, Keeps, Ours
  <2> QED
    BY <2>2, <2>3
<1> QED
  BY <1>1, <1>2, <1>3, DnsInvariant, PTL DEF Spec
=============================================================================
