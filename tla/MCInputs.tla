------------------------------ MODULE MCInputs ------------------------------
(***************************************************************************)
(* The functions that read what the program is given, on every input up to *)
(* a bound: Range headers, the numbers beyond u64 included (U64Max is      *)
(* below MaxField), and environments in which any two variables are set,   *)
(* the numbers beyond their width and the malformed spellings included.    *)
(***************************************************************************)
EXTENDS ByteRange, Config

CONSTANTS MaxField, MaxTotal

VARIABLES header, total, env, flag

SmallField == (0 .. MaxField) \cup {Empty, Junk}
SmallHeader == [single : BOOLEAN, a : SmallField, b : SmallField]

Spelled(words) ==
  {t \in {Text(p, d, u, NaN, w) : p \in BOOLEAN, d \in {0, 1}, u \in BOOLEAN, w \in words} :
     t.upper => t.word # ""}
Numbers(max) == {Text(p, d, FALSE, n, "") : p \in BOOLEAN, d \in {0, 1}, n \in {0, 1, max, max + 1}}
Twice == {Text(FALSE, 2, u, NaN, "lab") : u \in BOOLEAN}

Texts(v) ==
  CASE v \in IpVars -> {t \in Spelled({"127.0.0.6", "10.0.0.1", "junk"}) : ~t.upper}
    [] v \in PortVars -> Numbers(U16Max) \cup {Word("junk")}
    [] v = "TLD" -> Spelled({"lab", "la/b", ""}) \cup Twice
    [] v = "TTL" -> Numbers(U32Max) \cup {Word("junk")}
    [] v = "NODE_URL" -> {t \in Spelled({"http://node", "http://no\nde", "http://no de", "http://no'de", ""}) :
                             t.dots = 0}
    [] v = "SECURE_UPSTREAM" -> {t \in Spelled({"on", "off", "junk"}) : t.dots = 0}

MCWithControl == {"http://no\nde"}
MCInterpreted == {"http://no de", "http://no'de"}

\* Up to the first space; nothing of a line whose quote is never closed.
MCSystemdReads == [w \in MCInterpreted |-> IF w = "http://no de" THEN "http://no" ELSE Unset]

NoEnv == [v \in Vars |-> Unset]

PickRange ==
  /\ env = NoEnv /\ flag = Unset
  /\ header' \in SmallHeader /\ total' \in 0 .. MaxTotal
  /\ UNCHANGED <<env, flag>>

PickEnv ==
  /\ header = WholeHeader /\ total = 0 /\ env = NoEnv
  /\ \E v, w \in Vars : \E t \in Texts(v), u \in Texts(w) :
       env' = [NoEnv EXCEPT ![v] = t, ![w] = u]
  /\ flag' \in Texts("NODE_URL") \cup {Unset}
  /\ UNCHANGED <<header, total>>

Init == header = WholeHeader /\ total = 0 /\ env = NoEnv /\ flag = Unset
Spec == Init /\ [][PickRange \/ PickEnv]_<<header, total, env, flag>>

\* Every Range header of the bounded set selects exactly the bytes it names.
Exact == RangeExact(header, total)

\* What `install` writes for a service reads back as what it was (RoundTrip), for every
\* environment and flag of the bounded set, on Linux and macOS; a node URL that means
\* something to systemd is excepted, and so is Windows, where nothing is carried.
\* (build_plan, linux_unit_contents, create, from_env)
BakedReadsBack == RoundTrip(env, flag)
=============================================================================
