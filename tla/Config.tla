------------------------------- MODULE Config -------------------------------
(***************************************************************************)
(* The configuration (config.rs): how the environment and the --node flag  *)
(* become a validated Config (from_env, load_config of cli.rs), and how    *)
(* `install` writes one back into the environment of the service it        *)
(* registers (build_plan of service.rs), which the service reads again as  *)
(* far as each system's service manager carries it.                        *)
(*                                                                         *)
(* The text of a variable is abstracted to the white space around it, its  *)
(* leading dots, its letter case, and what it spells: a number or a word.  *)
(* Which of several errors is reported is left out.                        *)
(***************************************************************************)
EXTENDS Integers

CONSTANTS
  Unset,    \* no such variable, no such flag
  Invalid,  \* a text that does not parse, a configuration that is refused
  U16Max,   \* the largest u16; TLC takes a small one so that overflow happens
  U32Max,   \* the largest u32, likewise
  WithControl,   \* the words with a control character inside
  Interpreted,   \* the words with white space, a quote, a backslash or % inside
  SystemdReads   \* what systemd makes of each of these in an unquoted line, or Unset

\* The widths hold the defaults: ports up to 3 and a TTL of 2, see Default.
ASSUME WidthAssumption == U16Max \in Nat /\ U16Max >= 3 /\ U32Max \in Nat /\ U32Max >= 2

IpVars == {"IP", "LOCAL_IP"}
PortVars == {"DNS_PORT", "HTTP_PORT", "HTTP_FALLBACK_PORT", "LOCAL_PORT"}
Vars == IpVars \cup PortVars \cup {"TLD", "TTL", "NODE_URL", "SECURE_UPSTREAM"}

NaN == -1

Text(pad, dots, upper, num, word) ==
  [pad |-> pad, dots |-> dots, upper |-> upper, num |-> num, word |-> word]

\* What to_string writes for a number and for a word.
Digits(n) == Text(FALSE, 0, FALSE, n, "")
Word(w) == Text(FALSE, 0, FALSE, NaN, w)

trim(t) == [t EXCEPT !.pad = FALSE]
Blank(t) == trim(t) = Word("")

\* Addresses, by what is_loopback says of them.
Loopback == {"127.0.0.5", "127.0.0.2", "127.0.0.6"}
Addresses == Loopback \cup {"10.0.0.1", "0.0.0.0"}

\* Words inside [a-z0-9-] when in lower case.
InCharset == {"dig", "lab"}

AnyText ==
  [pad : BOOLEAN, dots : Nat, upper : BOOLEAN, num : Nat \cup {NaN}, word : STRING]

\* None and Err are not values, and Err is not a configuration.
Values == Nat \cup STRING \cup BOOLEAN \cup AnyText
ASSUME SentinelAssumption ==
  /\ Unset \notin Values \cup {Invalid} /\ Invalid \notin Values
  /\ Invalid \notin [Vars -> Values \cup {Unset}]

\* A literal is a string: the provers do not know it.
ASSUME LiteralAssumption == Addresses \cup InCharset \cup {""} \subseteq STRING

\* systemd reads an assignment or ignores the line.
ASSUME SystemdAssumption == SystemdReads \in [Interpreted -> STRING \cup {Unset}]

\* The ports and the TTL are small numbers here, within the small widths.
Default ==
  [v \in Vars |->
     CASE v = "IP" -> "127.0.0.5" [] v = "LOCAL_IP" -> "127.0.0.2"
       [] v = "DNS_PORT" -> 1 [] v = "HTTP_FALLBACK_PORT" -> 3
       [] v \in {"HTTP_PORT", "LOCAL_PORT", "TTL"} -> 2
       [] v = "TLD" -> Word("dig") [] v = "NODE_URL" -> Unset
       [] v = "SECURE_UPSTREAM" -> TRUE]

(***************************************************************************)
(* Parsing.                                                                *)
(***************************************************************************)
parse_int(t, max) == IF t.dots = 0 /\ t.num \in 0 .. max THEN t.num ELSE Invalid

parse_port(t) == IF parse_int(t, U16Max) = 0 THEN Invalid ELSE parse_int(t, U16Max)

parse_ip(t) == IF t.dots = 0 /\ t.word \in Addresses THEN t.word ELSE Invalid

\* White space, then one leading dot, then the case.
normalize_tld(t) ==
  [trim(t) EXCEPT !.dots = IF @ = 0 THEN 0 ELSE @ - 1, !.upper = FALSE]

\* Variant: a dot is in the charset.
is_safe_tld_dotted(t) == ~t.upper /\ t.word \in InCharset

is_safe_tld(t) == t.dots = 0 /\ ~t.upper /\ t.word \in InCharset

is_safe_node_url(t) == t.word \notin WithControl

parse_secure_upstream(t) ==
  IF t.dots = 0 /\ t.word \in {"on", "off"} THEN t.word = "on" ELSE Invalid

\* The first source that is set and not blank.
resolve_node_override(flag, env, file) ==
  LET given == {i \in 1 .. 3 : /\ <<flag, env, file>>[i] # Unset
                               /\ ~Blank(<<flag, env, file>>[i])}
  IN  IF given = {} THEN Unset
      ELSE trim(<<flag, env, file>>[CHOOSE i \in given : \A j \in given : i <= j])

Parse(v, t) ==
  CASE v \in IpVars -> parse_ip(t)
    [] v \in PortVars -> parse_port(t)
    [] v = "TLD" -> normalize_tld(t)
    [] v = "TTL" -> parse_int(t, U32Max)
    [] v = "NODE_URL" -> resolve_node_override(Unset, t, Unset)
    [] v = "SECURE_UPSTREAM" -> parse_secure_upstream(t)

Valid(c) ==
  /\ \A v \in IpVars : c[v] \in Loopback
  /\ \A v \in PortVars : c[v] # 0
  /\ is_safe_tld(c["TLD"])
  /\ c["NODE_URL"] = Unset \/ is_safe_node_url(c["NODE_URL"])

validate(c) == IF Valid(c) THEN c ELSE Invalid

\* The variables that are set over the defaults; one that does not parse refuses all.
from_env(env) ==
  LET c == [v \in Vars |-> IF env[v] = Unset THEN Default[v] ELSE Parse(v, env[v])]
  IN  IF \E v \in Vars : c[v] = Invalid THEN Invalid ELSE validate(c)

\* load_config: --node over the environment, and the check again.
load_config(env, flag) ==
  LET c == from_env(env)
  IN  IF c = Invalid THEN Invalid
      ELSE validate(IF flag = Unset \/ Blank(flag) THEN c
                    ELSE [c EXCEPT !["NODE_URL"] = trim(flag)])

(***************************************************************************)
(* build_plan: the environment a service is registered with.               *)
(***************************************************************************)
Baked == {"IP", "DNS_PORT", "HTTP_PORT", "HTTP_FALLBACK_PORT", "TLD", "TTL", "NODE_URL"}

Written(v, x) ==
  CASE v = "IP" -> Word(x)
    [] v \in {"TLD", "NODE_URL"} -> x
    [] OTHER -> Digits(x)

build_plan(c) ==
  [v \in Vars |-> IF v \in Baked /\ c[v] # Unset THEN Written(v, c[v]) ELSE Unset]

(***************************************************************************)
(* What of it reaches the service.                                         *)
(***************************************************************************)
Systems == {"linux", "macos", "windows"}

\* linux_unit_contents writes one line Environment=NAME=value for each, with no quotes and
\* no escapes.  systemd splits such a line at white space, removes quotes, expands %, and
\* ignores what it cannot read.  Only the node URL can hold such a character.  (What
\* follows a space is read as a further assignment, and ignored when it is none.)
linux_unit_contents(plan) ==
  LET url == plan["NODE_URL"]
  IN  IF url = Unset \/ url.word \notin Interpreted THEN plan
      ELSE [plan EXCEPT !["NODE_URL"] =
              IF SystemdReads[url.word] = Unset THEN Unset
              ELSE [url EXCEPT !.word = SystemdReads[url.word]]]

\* The environment the service of a plan starts with: the plist of launchd holds every
\* variable as it is, `sc create` registers a program and no environment.
Carried(system, plan) ==
  CASE system = "linux" -> linux_unit_contents(plan)
    [] system = "macos" -> plan
    [] system = "windows" -> [v \in Vars |-> Unset]

(***************************************************************************)
(* What a reader of the code relies on.                                    *)
(***************************************************************************)
\* The configurations a system's service manager can carry: on macOS every one, on Linux
\* those whose node URL means nothing to systemd, on Windows none.
Carries(system, c) ==
  \/ system = "macos"
  \/ system = "linux" /\ (c["NODE_URL"] = Unset \/ c["NODE_URL"].word \notin Interpreted)

\* Whatever configuration `install` accepts, and as far as the system's service manager
\* carries it (see Carries), the service it registers accepts what was written for it and
\* gets every value that was written: none is refused on the way back, normalised a second
\* time into something else, or overridden.
RoundTrip(env, flag) ==
  LET c == load_config(env, flag)
  IN  c # Invalid =>
        \A system \in Systems : Carries(system, c) =>
          LET s == from_env(Carried(system, build_plan(c)))
          IN  s # Invalid /\ \A v \in Baked : s[v] = c[v]
=============================================================================
