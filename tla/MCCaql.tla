------------------------------- MODULE MCCaql -------------------------------
(***************************************************************************)
(* Inputs for the CaQL runs: every short text, literal and numeral for the *)
(* lexer, sentences of the grammar and the same with one atom left out for *)
(* the parser, overlapping projections, every short topic pattern, and     *)
(* topics that the split at `?`, `&` and `/` cuts in the wrong place.      *)
(***************************************************************************)
EXTENDS CaqlReference

CONSTANTS MaxText,      \* bound: length of the arbitrary texts
          MaxQuoted,    \* bound: length of a literal between its quotes
          MaxNumeral,   \* bound: length of a numeral
          MaxSegments   \* bound: length of the topic patterns

A == <<"a">>
B == <<"b">>
MCCharOrder == [c \in {"a", "b", "*", "?"} |-> CASE c = "*" -> 1 [] c = "?" -> 2 [] c = "a" -> 3 [] c = "b" -> 4]

UpToLen(S, max) == UNION {[1..n -> S] : n \in 1..max}

Texts == UpToLen({"a", "OR", "exists", "1", "e", "-", ".", "<", "=", "!", "\"", "\\", " ", "#", "eacute"}, MaxText)

Quote(s) == <<"\"">> \o s \o <<"\"">>
Strings == {Quote(s) : s \in UpToLen({"a", "n", "\\", "\"", "eacute"}, MaxQuoted)}
(* Exponents of one digit keep the value within TLC's integers. *)
Numbers == {s \in UpToLen({"0", "1", "e", "-", "+", "."}, MaxNumeral) :
              \A n \in 1..(Len(s) - 2) : s[n] = "e" => ~(s[n + 1] \in Digit /\ s[n + 2] \in Digit)}

Simple == {<<"a", "=", "1">>, <<"exists", " ", "b">>, <<"a", ".", "b", "<=", "1">>}
Binary(S, T) == {x \o <<" ", op, " ">> \o y : x \in S, op \in {"and", "or"}, y \in T}
Nested(S) == S \cup {<<"not", " ">> \o x : x \in S} \cup {<<"not", " ", "not", " ">> \o x : x \in S} \cup {<<"(">> \o x \o <<")">> : x \in S}
Sentences == Nested(Binary(Simple, Nested(Simple))) \cup Binary(Nested(Binary(Simple, Simple)), Simple)

Words == UNION {[1..n -> {"a", "b", "*", "?"}] : n \in 1..3}
Patterns == {<<"a", op>> \o Quote(w) : op \in {" like ", " < ", " > "}, w \in Words}
Spaced(s) == IF s[2] = " like " THEN <<"a", " ", "like", " ">> \o SubSeq(s, 3, Len(s))
             ELSE <<"a", IF s[2] = " < " THEN "<" ELSE ">">> \o SubSeq(s, 3, Len(s))
Values == {<<"1">>, <<"-", "1", ".", "2">>, <<"1", "e", "1">>, <<"null">>, <<"true">>, Quote(<<"a">>),
           <<"[", "]">>, <<"[", "1", ",", "null", "]">>, <<"[", "[", "1", "]", ",", "2", "]">>, <<"[", "1", ",">>}
Comparisons == {<<"a", op>> \o v : op \in {"=", "<", ">="}, v \in Values}
  \cup {<<"a", "!", "=">> \o v : v \in Values} \cup {<<"a", " ", op, " ">> \o v : op \in {"in", "contains", "like"}, v \in Values}
  \cup {<<"a">>, <<"a", "=">>, <<"a", ".", "=">>, <<"not">>, <<"(", "a", "=", "1">>, <<"exists">>}

Where(s) == <<"where", " ">> \o s
Paths == {<<"a">>, <<"b">>, <<"a", ".", "b">>, <<"a", ".", "a">>, <<"a", ".", "b", ".", "a">>}
Selects == {<<"select", " ">> \o x : x \in Paths \cup {<<"*">>, <<"*", ",", "a">>, <<",">>}}
  \cup {<<"select", " ">> \o x \o <<",">> \o y : x, y \in Paths}
  \cup {<<"select", " ">> \o x \o <<",">> \o y \o <<" ">> \o Where(<<"a", "=", "1">>) : x, y \in Paths}

Dropped(s) == {[n \in 1..(Len(s) - 1) |-> IF n < m THEN s[n] ELSE s[n + 1]] : m \in DOMAIN s}
Queries == LET all == {Where(s) : s \in Sentences}
           IN all \cup UNION {Dropped(s) : s \in all} \cup {Where(Spaced(s)) : s \in Patterns}
                \cup {Where(s) : s \in Comparisons} \cup Selects

H == <<"h">>
X == <<"x">>
Slash(s, t) == s \o <<"/">> \o t
MCRegexes ==   \* `h|x`, `x` and the empty regex, each with the segments it finds a match in
  [r \in {<<"h", "|", "x">>, X, <<>>} |->
     CASE r = X -> {X} [] r = <<>> -> {H, X, <<>>} [] OTHER -> {H, X}]
Segs == {H, <<"*">>, <<"*", "*">>, <<"{", "x", "}">>}
RECURSIVE Joined(_)
Joined(ps) == IF Len(ps) = 1 THEN ps[1] ELSE Slash(ps[1], Joined(Tail(ps)))
Odd == {<<>>, <<"/">>, <<"{", "}">>, <<"{">>, <<"{", "h", "|", "x", "}">>, <<"{", "*", "}">>, <<"*", "*", "*">>,
        <<"{", "h", "/", "x", "}">>, <<"{", "x", "?", "}">>, Slash(H, <<>>), Slash(<<"{", "*", "}">>, H)}

Encoded(s) == [n \in DOMAIN s |-> IF s[n] = "+" THEN "%2B" ELSE s[n]]
Ql(s) == <<"ql", "=">> \o Encoded(s)
With(path, suffix) == path \o <<"?">> \o suffix
Filter == Where(<<"a", "=", "1">>)
Suffixes ==
  {<<>>, <<"ql">>, <<"&">>, <<"q", "=", "a">>, <<"q", "=", "a", "&">> \o Ql(Filter), <<"&", "&">> \o Ql(Filter),
   Ql(A) \o <<"&">> \o Ql(Filter), Ql(Filter) \o <<"&">> \o Ql(A), <<"q", "l", "=", "a">>,
   <<"ql", "=", "where", "+", "a", "=", "1">>, <<"ql", "=", "where", "%2B", "a">>, Ql(Filter) \o <<"?">>}
MCInputs ==
  {With(H, Ql(s)) : s \in Texts \cup Strings \cup Numbers \cup Queries}
  \cup {Joined(p) : p \in UpToLen(Segs, MaxSegments)} \cup Odd
  \cup {With(p, x) : p \in {H, <<>>, <<"{", "*", "}">>}, x \in Suffixes}

Doc1 == Obj([f \in {A} |-> Num(1 * 10^Scale)])
Payloads ==
  {Obj(NoFields), Doc1, Null}
  \cup {Obj([f \in {A} |-> v]) : v \in {Null, Bool(TRUE), Arr(<<Num(10^Scale), Str(<<"a">>)>>), Arr(<<Num(10^Scale), Null>>)}
                                         \cup {Str(w) : w \in {<<"a">>, <<"b">>, <<"a", "b">>, <<"b", "a", "b">>, <<>>}}}
  \cup {Obj([f \in {A, B} |-> IF f = A THEN Obj([g \in {A, B} |-> IF g = B THEN Obj([x \in {A} |-> Null]) ELSE Num(0)]) ELSE Null])}
MCEvents ==
  {[topic |-> H, payload |-> p] : p \in Payloads}
  \cup {[topic |-> Joined(t), payload |-> Doc1] : t \in UpToLen({H, X}, MaxSegments + 1)}
  \cup {[topic |-> t, payload |-> Doc1] : t \in {<<>>, Slash(H, <<>>), <<"/">>, Slash(<<"{", "h">>, <<"x", "}">>), <<"*", "*", "*">>, <<"{">>}}
=============================================================================
