------------------------------- MODULE MCDns -------------------------------
(***************************************************************************)
(* Instances of Dns for TLC: the names, lengths and payload sizes on both   *)
(* sides of every limit the code compares with.                             *)
(***************************************************************************)
EXTENDS Dns

Names == {<<>>, <<"tld">>, <<"label", "TLD">>, <<"label", "tld">>, <<"tld", "label">>,
          <<"label">>}

Q(qd, name, qlen, form, type, opt) ==
  Query(qd, name, qlen, form, type, opt,
        HEADER_LEN + qlen + (IF opt = None THEN 0 ELSE OPT_LEN))

\* The smallest and the longest legal question, the first that overflows 512 bytes with
\* its answer, and the lengths around the UDP buffer.
QLens == {5, 259, 484, 485, 4073, 4079, 4080, 4084, 4085}
Opts == {None, 0, 40, 511, 512, 1232, 4096}

Whole ==
  {Q(TRUE, n, l, "whole", t, o) : n \in Names, l \in QLens, t \in Types, o \in Opts}

Malformed ==
  {Q(qd, <<"label", "tld">>, 9, f, "A", o) :
     qd \in BOOLEAN, f \in {"whole", "pointer", "cut"}, o \in {None, 512}}
  \cup {Query(TRUE, <<"tld">>, 9, "cut", "A", None, 11)}

\* The longest question whose reply fits a TCP message with its answer and OPT record,
\* and longer ones, whose replies do not.
Longest == {Q(TRUE, <<"label", "tld">>, l, "whole", "A", 512) : l \in {65496, 65497, 65500}}

MCQueries == Whole \cup Malformed \cup Longest
=============================================================================
