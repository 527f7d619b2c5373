----------------------------- MODULE ByteRange -----------------------------
(***************************************************************************)
(* The `Range: bytes=a-b` header of a gateway request (gateway.rs,         *)
(* parse_range): what part of a resource of `total` bytes a header selects.*)
(*                                                                         *)
(* A header is abstracted to the two decimal fields around the dash.  A    *)
(* field is Empty (no characters), Junk (not a decimal) or the number it   *)
(* spells, which parses only when it fits a u64.  A header with another    *)
(* unit, with several ranges or without a dash is the header WholeHeader.  *)
(***************************************************************************)
EXTENDS Integers

CONSTANTS
  U64Max,   \* the largest u64; TLC takes a small one so that overflow happens
  Empty,    \* an empty field of the header
  Junk      \* a field that is not a decimal number

ASSUME U64MaxAssumption == U64Max \in Nat \ {0}
ASSUME FieldAssumption == Empty \notin Nat /\ Junk \notin Nat /\ Empty # Junk

Field == Nat \cup {Empty, Junk}

Header == [single : BOOLEAN, a : Field, b : Field]

\* No `bytes=` unit, several ranges, or no dash: the early returns.
WholeHeader == [single |-> FALSE, a |-> Empty, b |-> Empty]

Satisfiable(s, e) == [kind |-> "Satisfiable", start |-> s, end |-> e]
Unsatisfiable == [kind |-> "Unsatisfiable", start |-> 0, end |-> 0]
Whole == [kind |-> "Whole", start |-> 0, end |-> 0]

RangeSpec == {Unsatisfiable, Whole} \cup {Satisfiable(s, e) : s, e \in Nat}

\* str::parse::<u64>: a number that fits; anything else is an error.
Parses(f) == f \in Nat /\ f <= U64Max

MinOf(x, y) == IF x <= y THEN x ELSE y

\* u64::saturating_sub(1)
LastIndex(total) == IF total = 0 THEN 0 ELSE total - 1

\* "bytes=-n": the last n bytes.
SuffixRange(n, total) ==
  IF n = 0 \/ total = 0
  THEN Unsatisfiable
  ELSE Satisfiable(total - MinOf(n, total), total - 1)

\* "bytes=a-" and "bytes=a-b", with `end` already clamped to the last byte.
FromRange(start, end, total) ==
  IF total = 0 \/ start >= total \/ start > end
  THEN Unsatisfiable
  ELSE Satisfiable(start, end)

\* Variant: the end of "a-b" is not clamped to the last byte.
parse_range_unclamped(h, total) ==
  IF ~h.single THEN Whole
  ELSE IF h.a = Empty
       THEN IF Parses(h.b) THEN SuffixRange(h.b, total) ELSE Whole
  ELSE IF ~Parses(h.a) THEN Whole
  ELSE IF h.b = Empty THEN FromRange(h.a, LastIndex(total), total)
  ELSE IF Parses(h.b) THEN FromRange(h.a, h.b, total)
  ELSE Whole

parse_range(h, total) ==
  IF ~h.single THEN Whole
  ELSE IF h.a = Empty
       THEN IF Parses(h.b) THEN SuffixRange(h.b, total) ELSE Whole
  ELSE IF ~Parses(h.a) THEN Whole
  ELSE IF h.b = Empty THEN FromRange(h.a, LastIndex(total), total)
  ELSE IF Parses(h.b) THEN FromRange(h.a, MinOf(h.b, LastIndex(total)), total)
  ELSE Whole

(***************************************************************************)
(* The reference: the byte positions a header asks for, whatever the size. *)
(***************************************************************************)
Selected(h, total) ==
  IF h.a = Empty
  THEN {i \in 0 .. total - 1 : i >= total - h.b}
  ELSE {i \in 0 .. total - 1 : i >= h.a /\ (h.b = Empty \/ i <= h.b)}

WellFormed(h) ==
  /\ h.single
  /\ h.a = Empty \/ Parses(h.a)
  /\ h.b = Empty \/ Parses(h.b)
  /\ h.a # Empty \/ h.b # Empty

\* parse_range against the reference: a header that is not one well-formed range is
\* ignored; otherwise the range is exactly the positions selected, all of them inside
\* the resource (the slice in ok_body_response cannot panic), and 416 means none is.
RangeExact(h, total) ==
  LET r == parse_range(h, total)
  IN  IF ~WellFormed(h) THEN r = Whole
      ELSE IF Selected(h, total) = {} THEN r = Unsatisfiable
      ELSE /\ r.kind = "Satisfiable"
           /\ r.start \in 0 .. total - 1 /\ r.end \in r.start .. total - 1
           /\ r.start .. r.end = Selected(h, total)
=============================================================================
