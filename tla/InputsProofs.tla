---------------------------- MODULE InputsProofs ----------------------------
(***************************************************************************)
(* What `install` writes for a service reads back, for every environment.  *)
(* The runs set two variables at most, to a few texts each; here every     *)
(* variable has any text or none, and a Range header any two fields.       *)
(***************************************************************************)
EXTENDS MCInputs, TLAPS

Given == AnyText \cup {Unset}

(***************************************************************************)
(* The parsers, on a text and on what they write.                          *)
(***************************************************************************)

\* One source that is set: its text without the white space, unless that is nothing.
LEMMA OneSource ==
  ASSUME NEW t \in AnyText
  PROVE  resolve_node_override(Unset, t, Unset) = IF Blank(t) THEN Unset ELSE trim(t)
<1> DEFINE src == <<Unset, t, Unset>>
           given == {i \in 1 .. 3 : src[i] # Unset /\ ~Blank(src[i])}
<1>1. t # Unset
  BY SentinelAssumption DEF Values
<1>2. \A i \in 1 .. 3 : i \in given <=> i = 2 /\ ~Blank(t)
  BY <1>1
<1>3. CASE Blank(t)
  <2>1. given = {}
    BY <1>2, <1>3
  <2>2. QED BY <1>3, <2>1 DEF resolve_node_override
<1>4. CASE ~Blank(t)
  <2>1. given = {2}
    BY <1>2, <1>4
  <2>2. (CHOOSE i \in given : \A j \in given : i <= j) = 2
    BY <2>1
  <2>3. QED BY <1>4, <2>1, <2>2 DEF resolve_node_override
<1>5. QED BY <1>3, <1>4

\* Trimming: the text is a text, has no white space left, and is trimmed once for all.
LEMMA Trimmed ==
  ASSUME NEW t \in AnyText
  PROVE  /\ trim(t) \in AnyText /\ trim(trim(t)) = trim(t)
         /\ Blank(trim(t)) <=> Blank(t)
BY DEF trim, AnyText, Blank

\* The fields of a text.
LEMMA Fields ==
  ASSUME NEW t \in AnyText
  PROVE  t = [pad |-> t.pad, dots |-> t.dots, upper |-> t.upper, num |-> t.num, word |-> t.word]
BY DEF AnyText

\* A text, from its fields.
LEMMA TextType ==
  ASSUME NEW p \in BOOLEAN, NEW d \in Nat, NEW u \in BOOLEAN, NEW n \in Nat \cup {NaN},
         NEW w \in STRING
  PROVE  Text(p, d, u, n, w) \in AnyText
BY DEF AnyText, Text

\* normalize_tld field by field.
LEMMA Normalised ==
  ASSUME NEW t \in AnyText
  PROVE  /\ normalize_tld(t) \in AnyText
         /\ normalize_tld(t) = Text(FALSE, IF t.dots = 0 THEN 0 ELSE t.dots - 1, FALSE, t.num, t.word)
<1> DEFINE n == normalize_tld(t)
<1>1. /\ trim(t) \in AnyText /\ trim(t).pad = FALSE /\ trim(t).dots = t.dots
      /\ trim(t).num = t.num /\ trim(t).word = t.word
  BY DEF trim, AnyText
<1>2. PICK d \in Nat : d = (IF t.dots = 0 THEN 0 ELSE t.dots - 1)
  BY DEF AnyText
<1>3. /\ n \in AnyText /\ n.pad = FALSE /\ n.upper = FALSE /\ n.dots = d
      /\ n.num = t.num /\ n.word = t.word
  <2> DEFINE k == trim(t)
  <2>1. n = [k EXCEPT !.dots = d, !.upper = FALSE]
    BY <1>1, <1>2 DEF normalize_tld
  <2> HIDE DEF n, k
  <2>2. k \in AnyText /\ k.pad = FALSE /\ k.num = t.num /\ k.word = t.word
    BY <1>1 DEF k
  <2>3. QED BY <2>1, <2>2 DEF AnyText
<1> HIDE DEF n
<1>4. n = [pad |-> n.pad, dots |-> n.dots, upper |-> n.upper, num |-> n.num, word |-> n.word]
  BY <1>3, Fields
<1>5. QED BY <1>2, <1>3, <1>4 DEF Text, n

\* A top-level domain that is in the charset is normalised to itself.
LEMMA NormalForm ==
  ASSUME NEW t \in AnyText
  PROVE  /\ normalize_tld(t) \in AnyText
         /\ is_safe_tld(normalize_tld(t)) => normalize_tld(normalize_tld(t)) = normalize_tld(t)
<1> DEFINE d == IF t.dots = 0 THEN 0 ELSE t.dots - 1
           n == normalize_tld(t)
<1>1. n = Text(FALSE, d, FALSE, t.num, t.word) /\ d \in Nat
  <2>1. d \in Nat
    BY DEF AnyText
  <2>2. n = Text(FALSE, d, FALSE, t.num, t.word)
    BY Normalised
  <2>3. QED BY <2>1, <2>2
<1> HIDE DEF d, n
<1>2. n \in AnyText
  BY Normalised DEF n
<1>3. ASSUME is_safe_tld(n) PROVE normalize_tld(n) = n
  <2>1. n.dots = 0 /\ n.num = t.num /\ n.word = t.word
    BY <1>1, <1>3 DEF is_safe_tld, Text
  <2>2. normalize_tld(n) = Text(FALSE, 0, FALSE, t.num, t.word)
    BY <1>2, <2>1, Normalised
  <2>3. d = 0
    BY <1>1, <2>1 DEF Text
  <2>4. QED BY <1>1, <2>2, <2>3
<1>4. QED BY <1>2, <1>3 DEF n

\* A number within the width is written and read back as itself.
LEMMA NumberReadsBack ==
  ASSUME NEW max \in Nat, NEW n \in 0 .. max
  PROVE  parse_int(Digits(n), max) = n
BY DEF parse_int, Digits, Text

\* What a parsed number is: within its width.
LEMMA ParsedNumber ==
  ASSUME NEW max \in Nat, NEW t \in AnyText, parse_int(t, max) # Invalid
  PROVE  parse_int(t, max) \in 0 .. max
BY DEF parse_int

(***************************************************************************)
(* A configuration that is accepted.                                       *)
(***************************************************************************)

\* The part of a configuration that is written, as its parser leaves it.
Accepted(c) ==
  /\ c["IP"] \in Loopback
  /\ \A v \in {"DNS_PORT", "HTTP_PORT", "HTTP_FALLBACK_PORT"} : c[v] \in 1 .. U16Max
  /\ c["TTL"] \in 0 .. U32Max
  /\ c["TLD"] \in AnyText /\ is_safe_tld(c["TLD"]) /\ normalize_tld(c["TLD"]) = c["TLD"]
  /\ \/ c["NODE_URL"] = Unset
     \/ /\ c["NODE_URL"] \in AnyText /\ is_safe_node_url(c["NODE_URL"])
        /\ ~Blank(c["NODE_URL"]) /\ trim(c["NODE_URL"]) = c["NODE_URL"]

\* What the environment gives a variable.
Read(e, v) == IF e[v] = Unset THEN Default[v] ELSE Parse(v, e[v])

\* from_env refuses, or every variable reads as Read says and the whole is valid.
LEMMA FromEnv ==
  ASSUME NEW e
  PROVE  \/ from_env(e) = Invalid
         \/ /\ from_env(e) = [v \in Vars |-> Read(e, v)]
            /\ Valid(from_env(e)) /\ \A v \in Vars : Read(e, v) # Invalid
BY DEF from_env, validate, Read

\* What from_env accepts is Accepted.
LEMMA EnvAccepted ==
  ASSUME NEW e \in [Vars -> Given], from_env(e) # Invalid
  PROVE  Accepted(from_env(e))
<1> DEFINE c == from_env(e)
<1>1. /\ c = [v \in Vars |-> Read(e, v)]
      /\ Valid(c) /\ \A v \in Vars : Read(e, v) # Invalid
  BY FromEnv
<1>2. \A v \in Vars : c[v] = Read(e, v) /\ c[v] # Invalid
  BY <1>1
<1> HIDE DEF c
<1>3. c["IP"] \in Loopback
  BY <1>1 DEF Valid, IpVars
<1>4. ASSUME NEW v \in {"DNS_PORT", "HTTP_PORT", "HTTP_FALLBACK_PORT"}
      PROVE  c[v] \in 1 .. U16Max
  <2>1. v \in Vars /\ v \in PortVars /\ v \notin IpVars
    BY DEF Vars, PortVars, IpVars
  <2>2. c[v] # 0
    BY <1>1, <2>1 DEF Valid
  <2>3. CASE e[v] = Unset
    <3>1. Default[v] \in 1 .. 3
      <4>1. /\ Default["DNS_PORT"] = 1 /\ Default["HTTP_PORT"] = 2
            /\ Default["HTTP_FALLBACK_PORT"] = 3
        BY DEF Default, Vars, PortVars
      <4>2. QED BY <4>1
    <3>2. QED BY <1>2, <2>1, <2>3, <3>1, WidthAssumption DEF Read
  <2>4. CASE e[v] # Unset
    <3>1. e[v] \in AnyText
      BY <2>1, <2>4 DEF Given
    <3>2. c[v] = parse_port(e[v])
      BY <1>2, <2>1, <2>4 DEF Read, Parse
    <3>3. parse_int(e[v], U16Max) # Invalid /\ c[v] = parse_int(e[v], U16Max)
      BY <1>2, <2>1, <3>2 DEF parse_port
    <3>4. c[v] \in 0 .. U16Max
      BY <3>1, <3>3, ParsedNumber, WidthAssumption
    <3>5. QED BY <2>2, <3>4, WidthAssumption
  <2>5. QED BY <2>3, <2>4
<1>5. c["TTL"] \in 0 .. U32Max
  <2>1. "TTL" \in Vars /\ "TTL" \notin PortVars /\ "TTL" \notin IpVars
    BY DEF Vars, PortVars, IpVars
  <2>2. CASE e["TTL"] = Unset
    <3>1. Default["TTL"] = 2
      BY <2>1 DEF Default
    <3>2. QED BY <1>2, <2>1, <2>2, <3>1, WidthAssumption DEF Read
  <2>3. CASE e["TTL"] # Unset
    <3>1. e["TTL"] \in AnyText
      BY <2>1, <2>3 DEF Given
    <3>2. c["TTL"] = parse_int(e["TTL"], U32Max)
      BY <1>2, <2>1, <2>3 DEF Read, Parse
    <3>3. QED BY <1>2, <2>1, <3>1, <3>2, ParsedNumber, WidthAssumption
  <2>4. QED BY <2>2, <2>3
<1>6. c["TLD"] \in AnyText /\ is_safe_tld(c["TLD"]) /\ normalize_tld(c["TLD"]) = c["TLD"]
  <2>1. "TLD" \in Vars /\ "TLD" \notin PortVars /\ "TLD" \notin IpVars
    BY DEF Vars, PortVars, IpVars
  <2>2. is_safe_tld(c["TLD"])
    BY <1>1 DEF Valid
  <2>3. CASE e["TLD"] = Unset
    <3>1. c["TLD"] = Word("dig")
      BY <1>2, <2>1, <2>3 DEF Default, Read
    <3>2. Word("dig") \in AnyText
      BY TextType, LiteralAssumption DEF Word, InCharset
    <3>3. normalize_tld(Word("dig")) = Word("dig")
      BY <3>2, Normalised DEF Word, Text
    <3>4. QED BY <2>2, <3>1, <3>2, <3>3
  <2>4. CASE e["TLD"] # Unset
    <3>1. e["TLD"] \in AnyText
      BY <2>1, <2>4 DEF Given
    <3>2. c["TLD"] = normalize_tld(e["TLD"])
      BY <1>2, <2>1, <2>4 DEF Read, Parse
    <3>3. QED BY <2>2, <3>1, <3>2, NormalForm
  <2>5. QED BY <2>3, <2>4
<1>7. \/ c["NODE_URL"] = Unset
      \/ /\ c["NODE_URL"] \in AnyText /\ is_safe_node_url(c["NODE_URL"])
         /\ ~Blank(c["NODE_URL"]) /\ trim(c["NODE_URL"]) = c["NODE_URL"]
  <2>1. "NODE_URL" \in Vars /\ "NODE_URL" \notin PortVars /\ "NODE_URL" \notin IpVars
    BY DEF Vars, PortVars, IpVars
  <2>2. c["NODE_URL"] = Unset \/ is_safe_node_url(c["NODE_URL"])
    BY <1>1 DEF Valid
  <2>3. CASE e["NODE_URL"] = Unset
    BY <1>2, <2>1, <2>3 DEF Default, Read
  <2>4. CASE e["NODE_URL"] # Unset
    <3>1. e["NODE_URL"] \in AnyText
      BY <2>1, <2>4 DEF Given
    <3>2. c["NODE_URL"] = resolve_node_override(Unset, e["NODE_URL"], Unset)
      BY <1>2, <2>1, <2>4 DEF Read, Parse
    <3>3. QED BY <2>2, <3>1, <3>2, OneSource, Trimmed
  <2>5. QED BY <2>3, <2>4
<1>8. QED BY <1>3, <1>4, <1>5, <1>6, <1>7 DEF Accepted, c

\* --node over it: what load_config accepts is Accepted.
LEMMA FlagAccepted ==
  ASSUME NEW e \in [Vars -> Given], NEW f \in Given, load_config(e, f) # Invalid
  PROVE  Accepted(load_config(e, f))
<1> DEFINE c == from_env(e)
           d == load_config(e, f)
<1>1. c # Invalid
  BY DEF load_config
<1>2. Accepted(c) /\ c = [v \in Vars |-> Read(e, v)]
  BY <1>1, EnvAccepted, FromEnv
<1>3. CASE f = Unset \/ Blank(f)
  BY <1>1, <1>2, <1>3 DEF load_config, validate
<1>4. CASE ~(f = Unset \/ Blank(f))
  <2>1. f \in AnyText
    BY <1>4 DEF Given
  <2> DEFINE w == [c EXCEPT !["NODE_URL"] = trim(f)]
  <2>2. d = w /\ Valid(w)
    BY <1>1, <1>4 DEF load_config, validate
  <2>3. w["NODE_URL"] = trim(f) /\ \A v \in Vars \ {"NODE_URL"} : w[v] = c[v]
    BY <1>2 DEF Vars
  <2> HIDE DEF c, d, w
  <2>4. trim(f) # Unset
    BY <2>1, Trimmed, SentinelAssumption DEF Values
  <2>5. is_safe_node_url(w["NODE_URL"])
    BY <2>2, <2>3, <2>4 DEF Valid
  <2>6. \A v \in Baked \ {"NODE_URL"} : w[v] = c[v]
    BY <2>3 DEF Baked, Vars, IpVars, PortVars
  <2>7. Accepted(w)
    BY <1>2, <1>4, <2>1, <2>3, <2>5, <2>6, Trimmed DEF Accepted, Baked
  <2>8. QED BY <2>2, <2>7 DEF d
<1>5. QED BY <1>3, <1>4

(***************************************************************************)
(* The way back.                                                           *)
(***************************************************************************)

\* What an accepted configuration writes for a variable reads back as its value, and a
\* variable that is not written is not set.
LEMMA WrittenReads ==
  ASSUME NEW c, Accepted(c)
  PROVE  /\ \A v \in Baked : Read(build_plan(c), v) = c[v]
         /\ \A v \in Vars \ Baked : Read(build_plan(c), v) = Default[v]
<1> DEFINE p == build_plan(c)
<1>1. p = [v \in Vars |-> IF v \in Baked /\ c[v] # Unset THEN Written(v, c[v]) ELSE Unset]
  BY DEF build_plan
<1>2. Baked \subseteq Vars
  BY DEF Baked, Vars, IpVars, PortVars
<1>3. \A v \in Baked : p[v] = IF c[v] # Unset THEN Written(v, c[v]) ELSE Unset
  BY <1>1, <1>2
<1>4. \A v \in Vars \ Baked : p[v] = Unset
  BY <1>1
<1> HIDE DEF p
<1>5. Read(p, "IP") = c["IP"]
  <2>1. c["IP"] \in Loopback /\ c["IP"] \in STRING
    BY LiteralAssumption DEF Accepted, Addresses
  <2>2. c["IP"] # Unset
    BY <2>1, SentinelAssumption DEF Values
  <2>3. p["IP"] = Word(c["IP"])
    BY <1>3, <2>2 DEF Baked, Written
  <2>4. p["IP"] \in AnyText
    BY <2>1, <2>3, TextType DEF Word
  <2>5. p["IP"] # Unset
    BY <2>4, SentinelAssumption DEF Values
  <2>6. parse_ip(p["IP"]) = c["IP"]
    BY <2>1, <2>3 DEF parse_ip, Word, Text, Addresses
  <2>7. QED BY <2>5, <2>6 DEF Read, Parse, IpVars, PortVars
<1>6. ASSUME NEW v \in {"DNS_PORT", "HTTP_PORT", "HTTP_FALLBACK_PORT", "TTL"}
      PROVE  Read(p, v) = c[v]
  <2>1. c[v] \in Nat /\ (v # "TTL" => c[v] \in 1 .. U16Max) /\ (v = "TTL" => c[v] \in 0 .. U32Max)
    BY WidthAssumption DEF Accepted
  <2>2. c[v] # Unset
    BY <2>1, SentinelAssumption DEF Values
  <2>3. p[v] = Digits(c[v])
    BY <1>3, <2>2 DEF Baked, Written
  <2>4. p[v] \in AnyText
    BY <2>1, <2>3, TextType, LiteralAssumption DEF Digits
  <2>5. p[v] # Unset
    BY <2>4, SentinelAssumption DEF Values
  <2>6. v # "TTL" => parse_port(p[v]) = c[v]
    BY <2>1, <2>3, NumberReadsBack, WidthAssumption DEF parse_port
  <2>7. v = "TTL" => parse_int(p[v], U32Max) = c[v]
    BY <2>1, <2>3, NumberReadsBack, WidthAssumption
  <2>8. QED BY <2>5, <2>6, <2>7 DEF Read, Parse, IpVars, PortVars
<1>7. Read(p, "TLD") = c["TLD"]
  <2>1. c["TLD"] \in AnyText /\ normalize_tld(c["TLD"]) = c["TLD"]
    BY DEF Accepted
  <2>2. c["TLD"] # Unset
    BY <2>1, SentinelAssumption DEF Values
  <2>3. p["TLD"] = c["TLD"]
    BY <1>3, <2>2 DEF Baked, Written
  <2>4. QED BY <2>1, <2>2, <2>3 DEF Read, Parse, IpVars, PortVars
<1>8. Read(p, "NODE_URL") = c["NODE_URL"]
  <2>1. CASE c["NODE_URL"] = Unset
    <3>1. p["NODE_URL"] = Unset
      BY <1>3, <2>1 DEF Baked
    <3>2. Default["NODE_URL"] = Unset
      BY DEF Default, Vars, PortVars, IpVars
    <3>3. QED BY <2>1, <3>1, <3>2 DEF Read
  <2>2. CASE c["NODE_URL"] # Unset
    <3>1. /\ c["NODE_URL"] \in AnyText
          /\ ~Blank(c["NODE_URL"]) /\ trim(c["NODE_URL"]) = c["NODE_URL"]
      BY <2>2 DEF Accepted
    <3>2. p["NODE_URL"] = c["NODE_URL"]
      BY <1>3, <2>2 DEF Baked, Written
    <3>3. resolve_node_override(Unset, p["NODE_URL"], Unset) = c["NODE_URL"]
      BY <3>1, <3>2, OneSource
    <3>4. QED BY <2>2, <3>2, <3>3 DEF Read, Parse, IpVars, PortVars
  <2>3. QED BY <2>1, <2>2
<1>9. \A v \in Vars \ Baked : Read(p, v) = Default[v]
  BY <1>4 DEF Read
<1>10. QED BY <1>5, <1>6, <1>7, <1>8, <1>9 DEF Baked, p

\* The service's own checks pass on what it reads.
LEMMA PlanAccepted ==
  ASSUME NEW c, Accepted(c)
  PROVE  /\ from_env(build_plan(c)) # Invalid
         /\ \A v \in Baked : from_env(build_plan(c))[v] = c[v]
<1> DEFINE p == build_plan(c)
           s == [v \in Vars |-> Read(p, v)]
<1>1. \A v \in Baked : s[v] = c[v]
  BY WrittenReads DEF Baked, Vars, IpVars, PortVars
<1>2. \A v \in Vars \ Baked : s[v] = Default[v]
  BY WrittenReads
<1>3. s = [v \in Vars |-> IF p[v] = Unset THEN Default[v] ELSE Parse(v, p[v])]
  BY DEF Read
<1> HIDE DEF p, s
<1>4. /\ Default["LOCAL_IP"] \in Loopback /\ Default["LOCAL_PORT"] = 2
      /\ Default["SECURE_UPSTREAM"] = TRUE
  BY DEF Default, Vars, PortVars, IpVars, Loopback
<1>5. /\ s["LOCAL_IP"] \in Loopback /\ s["LOCAL_PORT"] = 2 /\ s["SECURE_UPSTREAM"] = TRUE
  BY <1>2, <1>4 DEF Vars, Baked, PortVars, IpVars
<1>6. \A v \in Vars : s[v] \in Values \cup {Unset}
  <2>1. c["IP"] \in STRING /\ c["TLD"] \in AnyText /\ c["NODE_URL"] \in AnyText \cup {Unset}
    BY LiteralAssumption DEF Accepted, Addresses
  <2>2. \A v \in {"DNS_PORT", "HTTP_PORT", "HTTP_FALLBACK_PORT", "TTL"} : c[v] \in Nat
    BY WidthAssumption DEF Accepted
  <2>3. \A v \in Baked : c[v] \in Values \cup {Unset}
    BY <2>1, <2>2 DEF Baked, Values
  <2>4. s["LOCAL_IP"] \in STRING /\ s["LOCAL_PORT"] \in Nat /\ s["SECURE_UPSTREAM"] \in BOOLEAN
    <3>1. s["SECURE_UPSTREAM"] \in BOOLEAN
      BY <1>5, Zenon
    <3>2. s["LOCAL_IP"] \in STRING /\ s["LOCAL_PORT"] \in Nat
      <4>1. s["LOCAL_IP"] \in Loopback /\ s["LOCAL_PORT"] = 2
        BY <1>5, Zenon
      <4>2. \A x \in Loopback : x \in STRING
        BY LiteralAssumption DEF Addresses
      <4>3. s["LOCAL_PORT"] \in Nat
        BY <4>1
      <4>4. QED BY <4>1, <4>2, <4>3, Zenon
    <3>3. QED BY <3>1, <3>2
  <2>5. Vars \ Baked = {"LOCAL_IP", "LOCAL_PORT", "SECURE_UPSTREAM"}
    BY DEF Vars, Baked, PortVars, IpVars
  <2>6. \A v \in Vars \ Baked : s[v] \in Values
    BY <2>4, <2>5 DEF Values
  <2>7. QED BY <1>1, <2>3, <2>6
<1>7. \A v \in Vars : s[v] # Invalid
  BY <1>6, SentinelAssumption
<1>8. s # Invalid
  <2>1. s \in [Vars -> Values \cup {Unset}]
    BY <1>6, <1>3
  <2>2. QED BY <2>1, SentinelAssumption
<1>9. Valid(s)
  <2>1. \A v \in IpVars : s[v] \in Loopback
    BY <1>1, <1>5 DEF Accepted, IpVars, Baked
  <2>2. \A v \in PortVars : s[v] # 0
    BY <1>1, <1>5, WidthAssumption DEF Accepted, PortVars, Baked
  <2>3. is_safe_tld(s["TLD"]) /\ (s["NODE_URL"] = Unset \/ is_safe_node_url(s["NODE_URL"]))
    BY <1>1 DEF Accepted, Baked
  <2>4. QED BY <2>1, <2>2, <2>3 DEF Valid
<1>10. from_env(p) = s
  BY <1>3, <1>7, <1>9 DEF from_env, validate
<1>11. QED BY <1>1, <1>8, <1>10 DEF p

(***************************************************************************)
(* The theorem.                                                            *)
(***************************************************************************)

\* A configuration the service manager carries reaches the service as it was written.
\* (linux_unit_contents)
LEMMA CarriedAsWritten ==
  ASSUME NEW system \in Systems, NEW c, Carries(system, c)
  PROVE  Carried(system, build_plan(c)) = build_plan(c)
<1>1. CASE system = "macos"
  BY <1>1 DEF Carried
<1>2. CASE system = "linux"
  <2>1. build_plan(c)["NODE_URL"] = IF c["NODE_URL"] # Unset THEN c["NODE_URL"] ELSE Unset
    BY DEF build_plan, Baked, Vars, Written
  <2>2. c["NODE_URL"] = Unset \/ c["NODE_URL"].word \notin Interpreted
    BY <1>2 DEF Carries
  <2>3. linux_unit_contents(build_plan(c)) = build_plan(c)
    BY <2>1, <2>2 DEF linux_unit_contents
  <2>4. QED BY <1>2, <2>3 DEF Carried
<1>3. QED BY <1>1, <1>2 DEF Carries

\* Whatever is in the environment and after --node, a configuration `install` accepts is
\* written so that the service reads the same values and refuses none, on macOS, and on
\* Linux unless its node URL holds a character systemd interprets.  Nothing is said of
\* Windows, where the service is registered without an environment.  (build_plan,
\* linux_unit_contents, from_env, load_config)
THEOREM InstallReadsBack ==
  ASSUME env \in [Vars -> Given], flag \in Given
  PROVE  BakedReadsBack
<1> DEFINE c == load_config(env, flag)
<1>1. SUFFICES ASSUME c # Invalid, NEW system \in Systems, Carries(system, c)
               PROVE  /\ from_env(Carried(system, build_plan(c))) # Invalid
                      /\ \A v \in Baked : from_env(Carried(system, build_plan(c)))[v] = c[v]
  BY DEF BakedReadsBack, RoundTrip
<1>2. Accepted(c)
  BY <1>1, FlagAccepted
<1> HIDE DEF c
<1>3. Carried(system, build_plan(c)) = build_plan(c)
  BY <1>1, CarriedAsWritten
<1>4. QED BY <1>2, <1>3, PlanAccepted

(***************************************************************************)
(* The Range header.                                                       *)
(***************************************************************************)

\* parse_range answers exactly the bytes a header names, for every header, every size of
\* the resource and every width of the integers: the fields beyond u64, the suffix longer
\* than the resource and the empty resource included.
THEOREM HeadersExact ==
  ASSUME header \in Header, total \in Nat
  PROVE  Exact
<1> DEFINE h == header
           n == total
<1>1. n \in Nat /\ h.single \in BOOLEAN /\ h.a \in Field /\ h.b \in Field
  BY DEF Header
<1> HIDE DEF h, n
<1> USE U64MaxAssumption, FieldAssumption DEF Parses, Field, RangeExact, parse_range, WellFormed
<1>2. CASE ~WellFormed(h)
  BY <1>1, <1>2 DEF Exact, h, n
<1>3. CASE WellFormed(h) /\ h.a = Empty
  BY <1>1, <1>3 DEF SuffixRange, Selected, MinOf, Satisfiable, Unsatisfiable, Exact, h, n
<1>4. CASE WellFormed(h) /\ h.a # Empty
  BY <1>1, <1>4 DEF FromRange, LastIndex, Selected, MinOf, Satisfiable, Unsatisfiable, Exact, h, n
<1>5. QED BY <1>2, <1>3, <1>4
=============================================================================
