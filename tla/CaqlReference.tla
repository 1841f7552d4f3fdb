--------------------------- MODULE CaqlReference ---------------------------
(***************************************************************************)
(* What CaQL means, independently of how the code computes it: the grammar *)
(* of docs/caql.md as the set of trees a token sequence derives, the       *)
(* spelling of each token, the truth of a predicate, and the topics a      *)
(* pattern denotes.  The invariants compare the code with it.              *)
(***************************************************************************)
EXTENDS Caql

Lib == INSTANCE SequencesExt

(* The text of token n: up to the next token, or as far as the lexer got. *)
RECURSIVE Trimmed(_)
Trimmed(t) == IF t # <<>> /\ t[Len(t)] \in Whitespace THEN Trimmed(SubSeq(t, 1, Len(t) - 1)) ELSE t
TokText(n) ==
  Trimmed(SubSeq(src, toks[n].at + 1, IF n < Len(toks) THEN toks[n + 1].at ELSE i - 1))

(* A character is escaped when an odd run of backslashes stands before it. *)
BackslashRun(t, n) == {m \in 2..(n - 1) : \A l \in m..(n - 1) : t[l] = "\\"}
EscapedAt(t, n) == Cardinality(BackslashRun(t, n)) % 2 = 1
Denotes(t, Chars(_)) ==
  LET kept == {n \in 2..(Len(t) - 1) : t[n] = "\\" => EscapedAt(t, n)}
      nth(k) == CHOOSE n \in kept : Cardinality({m \in kept : m <= n}) = k
  IN Lib!FlattenSeq([k \in 1..Cardinality(kept) |->
       Chars(IF EscapedAt(t, nth(k)) THEN Escaped(t[nth(k)]) ELSE t[nth(k)])])
QuotesOf(t) == {n \in 2..Len(t) : t[n] = "\"" /\ ~EscapedAt(t, n)}

(* A numeral: where its sign, its point and its exponent stand, if it has  *)
(* them, and the digits around them.  The point stands at the exponent and *)
(* the exponent behind the text when there is none.                        *)
Digits(t, from, to) == \A k \in from..to : t[k] \in Digit
Numerals(t) ==
  {r \in [sign : 0..1, point : 1..(Len(t) + 1), exp : 1..(Len(t) + 1), expSign : 0..1] :
    /\ r.sign = 1 => t # <<>> /\ t[1] \in {"+", "-"}
    /\ r.sign < r.point /\ r.point <= r.exp
    /\ r.point < r.exp => t[r.point] = "."
    /\ Digits(t, r.sign + 1, r.point - 1) /\ Digits(t, r.point + 1, r.exp - 1)
    /\ \E k \in (r.sign + 1)..(r.exp - 1) : k # r.point
    /\ IF r.exp > Len(t) THEN r.expSign = 0
       ELSE /\ t[r.exp] \in {"e", "E"}
            /\ r.expSign = 1 => r.exp < Len(t) /\ t[r.exp + 1] \in {"+", "-"}
            /\ r.exp + r.expSign < Len(t) /\ Digits(t, r.exp + r.expSign + 1, Len(t))}

DigitValue(c) == CASE c = "0" -> 0 [] c = "1" -> 1 [] c = "2" -> 2
Exponent(t, r) ==
  (IF r.expSign = 1 /\ t[r.exp + 1] = "-" THEN -1 ELSE 1)
    * Lib!MapThenSumSet(LAMBDA k : DigitValue(t[k]) * 10^(Len(t) - k), (r.exp + r.expSign + 1)..Len(t))
Value(t, r) ==
  (IF r.sign = 1 /\ t[1] = "-" THEN -1 ELSE 1)
    * Lib!MapThenSumSet(LAMBDA k : DigitValue(t[k]) * 10^(Scale + Exponent(t, r) + r.point - k - IF k < r.point THEN 1 ELSE 0),
                        ((r.sign + 1)..(r.exp - 1)) \ {r.point})

(* The numbers of JSON: no plus sign, no leading zero, digits on both      *)
(* sides of the point.                                                     *)
IsJson(t, r) ==
  /\ r.sign = 1 => t[1] = "-"
  /\ r.sign + 1 < r.point
  /\ t[r.sign + 1] = "0" => r.point = r.sign + 2
  /\ r.point < r.exp => r.point + 1 < r.exp

IsWord(t) == t # <<>> /\ t[1] \in Letter /\ \A n \in DOMAIN t : t[n] \in Alnum
Spells(t, tok) ==
  CASE tok.k = "ident" -> IsWord(t) /\ tok.id = t /\ ~(Len(t) = 1 /\ ToLower(t[1]) \in Keywords)
    [] tok.k \in Keywords -> Len(t) = 1 /\ ToLower(t[1]) = tok.k
    [] tok.k = "string" -> t[1] = "\"" /\ QuotesOf(t) = {Len(t)} /\ tok.s = Denotes(t, Bytes)
    [] tok.k = "number" -> Numerals(t) # {} /\ \A r \in Numerals(t) : tok.n = Value(t, r)
    [] tok.k \in {"!=", "<=", ">="} -> Len(t) = 2 /\ t[2] = "="
    [] OTHER -> t = <<tok.k>>

(* The tokenizer loses and invents nothing: every token spells exactly the *)
(* text between its offset and the next token (an identifier is never cut  *)
(* short by a keyword it starts with, a string literal ends at its first   *)
(* unescaped quote and denotes the bytes of its text, each as a character, *)
(* with the escapes resolved, a number is the value of a decimal numeral   *)
(* as Rust's str::parse::<f64> takes it, which is more than JSON has), and *)
(* only white space lies between tokens.                                   *)
TokensSpellSource ==
  /\ \A n \in DOMAIN toks : Spells(TokText(n), toks[n])
  /\ \A n \in DOMAIN toks : toks[n].k \in {"ident"} \cup Keywords =>
       LET end == toks[n].at + Len(TokText(n)) IN end + 1 < i => src[end + 1] \notin Alnum
  /\ \A m \in 1..(IF toks = <<>> THEN i - 1 ELSE toks[1].at) : src[m] \in Whitespace

-----------------------------------------------------------------------------
(* Statements of the documentation that do not hold; InTakesAnArray below  *)
(* is another.                                                             *)
(*                                                                         *)
(* docs/caql.md: "Numbers are JSON numbers".  The lexer takes digits and   *)
(* dots and leaves the rest to str::parse, which also takes `1.` and `+1`. *)
NumbersAreJson ==
  \A n \in DOMAIN toks : toks[n].k = "number" =>
    \E r \in Numerals(TokText(n)) : IsJson(TokText(n), r)

(* docs/caql.md: "Strings are double-quoted with backslash escapes".  The  *)
(* characters between the quotes, escapes resolved, are the string; the    *)
(* lexer pushes bytes.                                                     *)
StringsDenoteText ==
  \A n \in DOMAIN toks : toks[n].k = "string" => toks[n].s = Denotes(TokText(n), LAMBDA c : <<c>>)

(* docs/caql.md: "Identifiers are unquoted Unicode XID".  The lexer never  *)
(* stops at a letter it does not expect.                                   *)
IdentifiersAreUnicode ==
  error.e = "parse" /\ i <= Len(src) => src[i] \notin Letter \cup NonAscii

-----------------------------------------------------------------------------
From(ts, n) == SubSeq(ts, n, Len(ts))
UpTo(ts, n) == SubSeq(ts, 1, n)
Positions(ts, k) == {n \in DOMAIN ts : ts[n].k = k}

DPath(ts) ==
  IF /\ Len(ts) % 2 = 1
     /\ \A n \in DOMAIN ts : ts[n].k = IF n % 2 = 1 THEN "ident" ELSE "."
  THEN {[n \in 1..((Len(ts) + 1) \div 2) |-> ts[2 * n - 1].id]} ELSE {}

RECURSIVE DPaths(_)
DPaths(ts) == {<<p>> : p \in DPath(ts)} \cup
  UNION {{<<p>> \o rest : p \in DPath(UpTo(ts, n - 1)), rest \in DPaths(From(ts, n + 1))}
           : n \in Positions(ts, ",")}

RECURSIVE DValue(_), DList(_)
DValue(ts) ==
  IF Len(ts) = 1 THEN IF ts[1].k \in ScalarToks THEN {Scalar(ts[1])} ELSE {}
  ELSE IF Len(ts) >= 2 /\ ts[1].k = "[" /\ ts[Len(ts)].k = "]"
  THEN {Arr(items) : items \in IF Len(ts) = 2 THEN {<<>>} ELSE DList(SubSeq(ts, 2, Len(ts) - 1))}
  ELSE {}
DList(ts) == {<<v>> : v \in DValue(ts)} \cup
  UNION {{<<v>> \o rest : v \in DValue(UpTo(ts, n - 1)), rest \in DList(From(ts, n + 1))}
           : n \in Positions(ts, ",")}

RECURSIVE DOr(_), DAnd(_), DNot(_)
DOr(ts) == DAnd(ts) \cup
  UNION {{Or(<<l, r>>) : l \in DOr(UpTo(ts, n - 1)), r \in DAnd(From(ts, n + 1))} : n \in Positions(ts, "or")}
DAnd(ts) == DNot(ts) \cup
  UNION {{And(<<l, r>>) : l \in DAnd(UpTo(ts, n - 1)), r \in DNot(From(ts, n + 1))} : n \in Positions(ts, "and")}
DPrimary(ts) ==
  (IF Peek(ts, 1, "exists") THEN {Exists(p) : p \in DPath(From(ts, 2))} ELSE {})
  \cup (IF Peek(ts, 1, "(") /\ Peek(ts, Len(ts), ")") THEN DOr(SubSeq(ts, 2, Len(ts) - 1)) ELSE {})
  \cup UNION {{Contains(p, v) : p \in DPath(UpTo(ts, n - 1)),
                                v \in {w \in DValue(From(ts, n + 1)) : w.k # "array"}}
                : n \in Positions(ts, "contains")}
  \cup UNION {{Compare(p, Operators[ts[n].k], v) : p \in DPath(UpTo(ts, n - 1)), v \in DValue(From(ts, n + 1))}
                : n \in {m \in DOMAIN ts : ts[m].k \in DOMAIN Operators}}
DNot(ts) == DPrimary(ts) \cup
  (IF Peek(ts, 1, "not") THEN {Not(x) : x \in DNot(From(ts, 2))} ELSE {})

DProjection(ts) ==
  IF ts = <<>> THEN {AllFields}
  ELSE IF ts[1].k # "select" THEN {}
  ELSE IF Len(ts) = 2 /\ ts[2].k = "*" THEN {AllFields}
  ELSE {Fields(ps) : ps \in DPaths(From(ts, 2))}
DQuery(ts) ==
  {[projection |-> pr, predicate |-> PTrue] : pr \in DProjection(ts)} \cup
  UNION {{[projection |-> pr, predicate |-> pd] : pr \in DProjection(UpTo(ts, n - 1)), pd \in DOr(From(ts, n + 1))}
           : n \in Positions(ts, "where")}

(* The recursive descent parser accepts exactly the sentences of the       *)
(* documented grammar, with repeated `not`, and builds the one tree the    *)
(* grammar gives: `and` binds tighter than `or`, both group to the left.   *)
ParseIsGrammar ==
  LET trees == DQuery(toks)
  IN /\ pc = "ready" /\ pattern.filter.filter => trees = {pattern.filter.q}
     /\ error.e = "parse" /\ i > Len(src) => trees = {}

(* caql/mod.rs: "`in` requires an array value".  The parser asks that of   *)
(* no operator: a query with another value is taken and matches nothing.   *)
RECURSIVE InHasArray(_)
InHasArray(p) ==
  CASE p.p \in {"and", "or"} -> \A n \in DOMAIN p.items : InHasArray(p.items[n])
    [] p.p = "not" -> InHasArray(p.inner)
    [] p.p = "compare" -> p.op = "in" => p.right.k = "array"
    [] OTHER -> TRUE
InTakesAnArray == pattern.filter.filter => InHasArray(pattern.filter.q.predicate)

-----------------------------------------------------------------------------
(* A glob as the automaton over its positions. *)
Closed(p, S) == {m \in 0..Len(p) : \E n \in S : n <= m /\ \A l \in (n + 1)..m : p[l] = "*"}
RECURSIVE Reached(_, _, _)
Reached(p, s, S) ==
  IF s = <<>> THEN S
  ELSE Reached(p, Tail(s), Closed(p,
         {n \in S : n < Len(p) /\ p[n + 1] = "*"}
         \cup {n + 1 : n \in {m \in S : m < Len(p) /\ p[m + 1] \in {"?", Head(s)} /\ p[m + 1] # "*"}}))
GlobAccepts(p, s) == Len(p) \in Reached(p, s, Closed(p, {0}))

Before(v, w) ==
  \/ v.k = "number" /\ w.k = "number" /\ v.n < w.n
  \/ /\ v.k = "string" /\ w.k = "string"
     /\ \E n \in 0..Len(v.s) :
          /\ n < Len(w.s) /\ SubSeq(v.s, 1, n) = SubSeq(w.s, 1, n)
          /\ n < Len(v.s) => CharOrder[v.s[n + 1]] < CharOrder[w.s[n + 1]]
Comparable(v, w) == v.k = w.k /\ v.k \in {"number", "string"}
Same(v, w) == v = w /\ v.k \notin {"array", "object"}

(* A field that is missing counts as null for `=` and `!=` and satisfies   *)
(* no other comparison.                                                    *)
RECURSIVE Holds(_, _)
Holds(p, t) ==
  LET got == IF p.p = "compare" THEN Lookup(p.left, t) ELSE Absent
      sameAsRhs == Same(IF got = Absent THEN Null ELSE got, p.right)
  IN CASE p.p = "true" -> TRUE
       [] p.p = "and" -> {Holds(p.items[n], t) : n \in DOMAIN p.items} = {TRUE}
       [] p.p = "or" -> TRUE \in {Holds(p.items[n], t) : n \in DOMAIN p.items}
       [] p.p = "not" -> Holds(p.inner, t) = FALSE
       [] p.p = "exists" -> Lookup(p.path, t) # Absent
       [] p.p = "contains" -> LET arr == Lookup(p.path, t)
                              IN arr.k = "array" /\ p.value \in {arr.items[n] : n \in DOMAIN arr.items}
       [] p.p = "compare" ->
            CASE p.op = "eq" -> sameAsRhs
              [] p.op = "ne" -> ~sameAsRhs
              [] p.op = "lt" -> Before(got, p.right)
              [] p.op = "le" -> Comparable(got, p.right) /\ ~Before(p.right, got)
              [] p.op = "gt" -> Before(p.right, got)
              [] p.op = "ge" -> Comparable(got, p.right) /\ ~Before(got, p.right)
              [] p.op = "like" -> got.k = "string" /\ p.right.k = "string" /\ GlobAccepts(p.right.s, got.s)
              [] p.op = "in" -> p.right.k = "array" /\ \E n \in DOMAIN p.right.items : Same(got, p.right.items[n])

(* The pieces of a text between its slashes. *)
Pieces(t) ==
  LET ends == {n \in 1..(Len(t) + 1) : n = Len(t) + 1 \/ t[n] = "/"}
      nth(k) == IF k = 0 THEN 0 ELSE CHOOSE n \in ends : Cardinality({m \in ends : m <= n}) = k
  IN [k \in 1..Cardinality(ends) |-> SubSeq(t, nth(k - 1) + 1, nth(k) - 1)]
Written ==
  Pieces(UpTo(raw, CHOOSE n \in 0..Len(raw) : /\ \A m \in 1..n : raw[m] # "?"
                                              /\ n < Len(raw) => raw[n + 1] = "?"))

(* What one segment, as it is written, stands for. *)
Bracketed(t) == Len(t) >= 2 /\ t[1] = "{" /\ t[Len(t)] = "}"
StandsFor(t, part) ==
  \/ t = <<"*">>
  \/ Bracketed(t) /\ part \in Regexes[SubSeq(t, 2, Len(t) - 1)]
  \/ ~Bracketed(t) /\ t = part

(* The topics a pattern denotes: cut the topic into one run of segments    *)
(* per pattern segment, one long except under `**`.                        *)
DenotesTopic(pat, parts) ==
  \E cut \in [0..Len(pat) -> 0..Len(parts)] :
    /\ cut[0] = 0 /\ cut[Len(pat)] = Len(parts)
    /\ \A n \in DOMAIN pat :
         \/ pat[n] = <<"*", "*">> /\ cut[n - 1] < cut[n]
         \/ pat[n] # <<"*", "*">> /\ cut[n] = cut[n - 1] + 1 /\ StandsFor(pat[n], parts[cut[n]])

(* A subscription gets an event exactly when its pattern, as written up to *)
(* the first `?`, denotes the topic and its filter holds of the payload,   *)
(* whatever the backtracking over `**` and `*` and the evaluation of the   *)
(* predicate do on the way.                                                *)
VerdictIsMeaning ==
  \A n \in DOMAIN verdict.event :
    verdict.said = /\ DenotesTopic(Written, Pieces(verdict.event[n].topic))
                   /\ pattern.filter.filter => Holds(pattern.filter.q.predicate, verdict.event[n].payload)

(* A projection answers every selected path as the document does, in any   *)
(* order and overlap of the paths, and holds nothing that was not          *)
(* selected: projecting it again changes nothing.                          *)
ProjectionFaithful ==
  pc = "ready" /\ pattern.filter.filter =>
    \A e \in Events :
      LET q == pattern.filter.q
          got == Project(q, e.payload)
      IN /\ q.projection.proj = "fields" =>
              /\ \A n \in DOMAIN q.projection.paths :
                   Lookup(q.projection.paths[n], got) = Lookup(q.projection.paths[n], e.payload)
              /\ \A f \in DOMAIN got.map : \E n \in DOMAIN q.projection.paths : q.projection.paths[n][1] = f
         /\ Project(q, got) = got
=============================================================================
