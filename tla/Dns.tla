-------------------------------- MODULE Dns --------------------------------
(***************************************************************************)
(* The DNS responder (dns.rs) and its UDP and TCP sockets (server.rs), seen *)
(* by a stub resolver that asks over UDP and, when the reply is truncated,  *)
(* asks again over TCP.                                                     *)
(*                                                                         *)
(* A message is the fields the code reads and its length in bytes.  The     *)
(* lengths are the real ones; a name is the sequence of its labels, which   *)
(* the code only compares with the served TLD, whatever their case.         *)
(***************************************************************************)
EXTENDS Integers, Sequences

CONSTANTS
  None,      \* no reply, no OPT record
  Queries    \* the queries a client may send

HEADER_LEN == 12
DEFAULT_UDP_MAX == 512
RR_LEN == 16          \* write_a_answer: pointer, type, class, ttl, rdlength, address
OPT_LEN == 11         \* write_opt, and the same record in a query
OPT_MIN == 5          \* parse_opt_udp_size reads this much of it
UDP_BUF == 4096       \* serve_dns reads a datagram into this many bytes
U16Mod == 65536
U16 == 0..(U16Mod - 1)

Types == {"A", "AAAA", "OTHER"}
Labels == {"tld", "TLD", "label"}
Rcodes == {"NOERROR", "FORMERR", "REFUSED"}

\* A query: whether its header says there is a question, the question's labels and its
\* length with type and class, whether it is well formed (or ends in a compression
\* pointer, or is cut short), the payload size of its OPT record, and how much of the
\* message is there (a message shorter than a header has no id to answer).
Query(qd, name, qlen, form, type, opt, len) ==
  [qd |-> qd, name |-> name, qlen |-> qlen, form |-> form, type |-> type, opt |-> opt,
   len |-> len]

Messages ==
  [qd : BOOLEAN, name : Seq(Labels), qlen : U16,
   form : {"whole", "pointer", "cut"}, type : Types,
   opt : U16 \cup {None}, len : U16]

ASSUME NoneAssumption == None \notin Int
ASSUME QueriesAssumption == Queries \subseteq Messages

-----------------------------------------------------------------------------
(* dns.rs *)

\* parse: the first question, or an error.
Parses(q) == q.qd /\ q.form = "whole"

\* parse_opt_udp_size
edns_udp_size(q) == q.opt

\* eq_ignore_ascii_case on the last label; the root name has none.
under_tld(name) == name # <<>> /\ name[Len(name)] \in {"tld", "TLD"}

decide(q) ==
  IF ~under_tld(q.name) THEN "Refused"
  ELSE IF q.type = "A" THEN "A"
  ELSE "NoData"

has_opt(q) == edns_udp_size(q) # None

\* The lengths of a reply with its answer and of one without.
EmptyLen(q) == HEADER_LEN + q.qlen + (IF has_opt(q) THEN OPT_LEN ELSE 0)
FullLen(q) == EmptyLen(q) + (IF decide(q) = "A" THEN RR_LEN ELSE 0)

UdpLimit(q) == IF has_opt(q) THEN edns_udp_size(q) ELSE DEFAULT_UDP_MAX

\* Variant: the limit is applied to TCP replies too.
TruncatesAlways(q, transport) == FullLen(q) > UdpLimit(q)

\* Variant: an OPT record halves what a plain query may carry.
TruncatesEarly(q, transport) ==
  transport = "Udp" /\ FullLen(q) > (IF has_opt(q) THEN DEFAULT_UDP_MAX \div 2 ELSE UdpLimit(q))

Truncates(q, transport) == transport = "Udp" /\ FullLen(q) > UdpLimit(q)

\* The question is echoed as it was sent; the A answer points at it.
build(q, transport) ==
  LET tc == Truncates(q, transport)
      refused == decide(q) = "Refused"
  IN  [rcode |-> IF refused THEN "REFUSED" ELSE "NOERROR",
       aa |-> ~refused, tc |-> tc, qd |-> TRUE, question |-> q.name,
       an |-> IF decide(q) = "A" /\ ~tc THEN 1 ELSE 0, opt |-> has_opt(q),
       len |-> IF tc THEN EmptyLen(q) ELSE FullLen(q), cut |-> FALSE]

build_formerr ==
  [rcode |-> "FORMERR", aa |-> FALSE, tc |-> FALSE, qd |-> FALSE, question |-> <<>>,
   an |-> 0, opt |-> FALSE, len |-> HEADER_LEN, cut |-> FALSE]

respond(q, transport) ==
  IF q.len < HEADER_LEN THEN None
  ELSE IF Parses(q) THEN build(q, transport)
  ELSE build_formerr

\* parse_first_a_ipv4, on a reply of build: the address of its A record, if it has one.
parse_first_a_ipv4(r) == IF r.an = 1 THEN "loopback" ELSE "none"

-----------------------------------------------------------------------------
(* server.rs: what the sockets make of a message. *)

\* recv_from drops what does not fit the buffer: the OPT record is found as long as its
\* first OPT_MIN bytes are there, the question only when it is whole.
UdpReceived(q) ==
  LET end == HEADER_LEN + q.qlen
  IN  IF q.len <= UDP_BUF THEN q
      ELSE [q EXCEPT !.len = UDP_BUF,
                     !.form = IF end > UDP_BUF THEN "cut" ELSE @,
                     !.opt = IF end + OPT_MIN > UDP_BUF THEN None ELSE @]

\* Variant: the length is not cast to the two bytes it is written in.
rlen_wide(r) == r.len

\* The two bytes in front of a TCP reply: resp.len() as u16.
rlen(r) == r.len % U16Mod

\* What a client reads behind those two bytes: the reply, or the first few bytes of one
\* that is too long for them.  The fields of a cut reply are those of the message it is
\* cut from; the client cannot read them.
TcpRead(r) == IF rlen(r) = r.len THEN r ELSE [r EXCEPT !.len = rlen(r), !.cut = TRUE]

-----------------------------------------------------------------------------
VARIABLES
  pc,      \* the client's exchange: "idle", "udp", "tcp", "done"
  query,   \* what it asks
  reply,   \* the reply it holds
  prefix   \* the length in front of a TCP reply

vars == <<pc, query, reply, prefix>>

Replies ==
  [rcode : Rcodes, aa : BOOLEAN, tc : BOOLEAN, qd : BOOLEAN, question : Seq(Labels),
   an : {0, 1}, opt : BOOLEAN, len : Nat, cut : BOOLEAN]

TypeOK ==
  /\ pc \in {"idle", "udp", "tcp", "done"}
  /\ query \in Messages
  /\ reply = None \/ (reply \in Replies /\ (reply.cut \/ reply.len >= HEADER_LEN))
  /\ prefix \in U16 \cup {None}

\* A client asks over UDP, or over TCP from the start.
Ask(q) ==
  /\ pc \in {"idle", "done"}
  /\ query' = q
  /\ pc' \in {"udp", "tcp"}
  /\ reply' = None /\ prefix' = None

\* serve_dns, the UDP arm: a reply or silence; the client keeps a whole reply and asks
\* again over TCP after a truncated one.
ServeUdp ==
  /\ pc = "udp"
  /\ reply' = respond(UdpReceived(query), "Udp")
  /\ pc' = IF reply' # None /\ reply'.tc THEN "tcp" ELSE "done"
  /\ UNCHANGED <<query, prefix>>

\* A datagram is lost in either direction, or recv_from reports an error for one that is
\* too long.
UdpLost ==
  /\ pc = "udp"
  /\ pc' = "done"
  /\ UNCHANGED <<query, reply, prefix>>

\* handle_dns_tcp: one message, one length-prefixed reply, or none.
ServeTcp ==
  /\ pc = "tcp"
  /\ LET resp == respond(query, "Tcp")
     IN  /\ reply' = IF resp = None THEN None ELSE TcpRead(resp)
         /\ prefix' = IF resp = None THEN None ELSE rlen(resp)
  /\ pc' = "done"
  /\ UNCHANGED query

Init == pc = "idle" /\ query \in Queries /\ reply = None /\ prefix = None

Next == (\E q \in Queries : Ask(q)) \/ ServeUdp \/ UdpLost \/ ServeTcp

Spec == Init /\ [][Next]_vars

-----------------------------------------------------------------------------
Answered == pc = "done" /\ reply # None

\* The answering policy of the responder, for a client that got an answer, by whichever
\* transport: an address for an A query under the TLD and only then, no data for another
\* type, REFUSED elsewhere, FORMERR for what has no whole question.  No exchange ends with
\* a truncated reply, and the name comes back as it was written.  The one answer that is
\* not read whole is a TCP reply of 65536 bytes or more, whose length wraps in its prefix;
\* it takes a question of at least 65497 bytes (a legal one has at most 259), and
\* nothing else is said of it.  (respond, build, decide, handle_dns_tcp)
Policy ==
  Answered =>
    LET heard == IF prefix = None THEN UdpReceived(query) ELSE query
        ours == query.name # <<>> /\ query.name[Len(query.name)] # "label"
    IN  /\ reply.cut => prefix # None /\ query.qlen >= 65497
        /\ ~reply.cut =>
             /\ ~reply.tc
             /\ (heard.form = "whole" /\ query.qd) =>
                  /\ reply.question = query.name
                  /\ reply.rcode = (IF ours THEN "NOERROR" ELSE "REFUSED")
                  /\ (parse_first_a_ipv4(reply) = "loopback") <=> (ours /\ query.type = "A")
             /\ ~(heard.form = "whole" /\ query.qd) => reply.rcode = "FORMERR" /\ reply.an = 0

\* A name DNS allows (255 bytes and its type and class) is answered whole over UDP for
\* every client that follows RFC 6891 (no OPT record, or at least 512 bytes): answer, OPT
\* record and all stay within the limit, and no second question over TCP is needed.
\* (build)
OrdinaryFitsUdp ==
  (pc # "idle" /\ Parses(query) /\ query.qlen <= 259 /\ query.len <= UDP_BUF
     /\ query.opt \notin 0..511) => ~(pc = "tcp" /\ reply # None)
=============================================================================
