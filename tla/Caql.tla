-------------------------------- MODULE Caql --------------------------------
(***************************************************************************)
(* CaQL (caql/lex.rs, caql/parse.rs) on its way into a subscription: a     *)
(* topic is split at its first `?`, the query text in the suffix is        *)
(* tokenized and parsed, then the path's segments, and the pattern is      *)
(* matched against events (events/topic.rs).  The lexer takes one step per *)
(* token, with one action for each arm of its match; the parser is the     *)
(* recursive descent of the code, as operators that return the parsed      *)
(* value and the next position, or the offset of the error.                *)
(*                                                                         *)
(* The text is a sequence of atoms: a character, or a run of letters the   *)
(* lexer would not stop in (a keyword, a name).  The atom eacute is a      *)
(* letter outside ASCII, two bytes in UTF-8.  Offsets count atoms, from 0  *)
(* as in the code; positions in src and toks count from 1.                 *)
(***************************************************************************)
EXTENDS Topics

CONSTANTS Inputs,     \* the topics subscribers write, as texts
          Events,     \* the events that arrive: [topic, payload]
          Scale       \* bound: numbers are multiples of 10^-Scale

VARIABLES raw,        \* the topic as the subscriber wrote it
          src, i,     \* the query text and the lexer's position in it
          toks,       \* tokens so far, each with its offset
          pc,
          pattern,    \* the TopicPattern, as far as it is parsed
          error,      \* the TopicParseError, with the offset of a QueryError::Parse
          verdict     \* what matches_event said of the last event

lexVars == <<raw, src, pattern, verdict>>
vars == <<raw, src, i, toks, pc, pattern, error, verdict>>

NoPattern == [segments |-> <<>>, filter |-> NoFilter]
NoVerdict == [event |-> <<>>, said |-> FALSE]
NoError == [e |-> "none"]
Failure(kind) == [e |-> kind]                  \* Empty, MissingQlParam, BadRegex
ParseError(offset) == [e |-> "parse", at |-> offset]

Keywords == {"select", "where", "and", "or", "not", "in", "like", "contains", "exists",
             "true", "false", "null"}
Whitespace == {" "}
Digit == {"0", "1", "2"}
Sign == {"+", "-"}
Symbol == {".", ",", "*", "(", ")", "[", "]", "="}
Letter == {"a", "b", "e", "n", "E", "_", "OR"} \cup Keywords
Alnum == Letter \cup Digit

(* What the lexer pushes for an atom inside a literal: each of its bytes   *)
(* as a character, so that a character of two bytes becomes two others.    *)
NonAscii == {"eacute"}
Bytes(c) == IF c = "eacute" THEN <<"Atilde", "copyright">> ELSE <<c>>

Init ==
  /\ raw \in Inputs
  /\ src = <<>> /\ i = 1 /\ toks = <<>>
  /\ pc = "split"
  /\ pattern = NoPattern
  /\ error = NoError
  /\ verdict = NoVerdict

-----------------------------------------------------------------------------
(* form_urlencoded::parse: parameters stand between `&`s, empty ones do    *)
(* not count, the first `=` ends the key, `+` is a space.                  *)
Decoded(s) == [n \in DOMAIN s |-> CASE s[n] = "+" -> " " [] s[n] = "%2B" -> "+" [] OTHER -> s[n]]
Params(suffix) ==
  LET given == SelectSeq(Split(suffix, "&"), LAMBDA p : p # <<>>)
  IN [n \in DOMAIN given |-> LET kv == SplitAt(given[n], {"="})
                             IN [key |-> Decoded(kv[1]), value |-> Decoded(kv[2])]]
FirstQl(ps) == SelectSeq(ps, LAMBDA p : p.key = <<"ql">>)[1].value

(* TopicPattern::parse up to the query: an empty topic is an error, and so *)
(* is a suffix, from the first `?` on, without a `ql` parameter; the first *)
(* `ql` is the filter.                                                     *)
Path == SplitAt(raw, {"?"})[1]
Suffix == SplitAt(raw, {"?"})[2]
HasSuffix == SplitAt(raw, {"?"})[3]
HasQl == \E n \in DOMAIN Params(Suffix) : Params(Suffix)[n].key = <<"ql">>

SplitTopic ==
  /\ pc = "split"
  /\ \/ /\ raw = <<>>
        /\ pc' = "error" /\ error' = Failure("empty")
        /\ UNCHANGED src
     \/ /\ raw # <<>> /\ ~HasSuffix
        /\ pc' = "segments"
        /\ UNCHANGED <<src, error>>
     \/ /\ HasSuffix /\ ~HasQl
        /\ pc' = "error" /\ error' = Failure("missing_ql")
        /\ UNCHANGED src
     \/ /\ HasSuffix /\ HasQl
        /\ pc' = "lex" /\ src' = FirstQl(Params(Suffix))
        /\ UNCHANGED error
  /\ UNCHANGED <<raw, i, toks, pattern, verdict>>

-----------------------------------------------------------------------------
(* tokenize: one step for each turn of the loop. *)
Lexing == pc = "lex" /\ i <= Len(src)
At(n) == IF n <= Len(src) THEN src[n] ELSE "eof"
SkipWhile(n, S) ==
  CHOOSE m \in n..(Len(src) + 1) : At(m) \notin S /\ \A k \in n..(m - 1) : src[k] \in S
Text(n, m) == SubSeq(src, n, m - 1)
Tok(k) == [k |-> k, at |-> i - 1]
Emit(tok, next) ==
  /\ toks' = Append(toks, tok)
  /\ i' = next
  /\ UNCHANGED <<lexVars, pc, error>>
Fail(offset) ==
  /\ pc' = "error"
  /\ error' = ParseError(offset)
  /\ UNCHANGED <<lexVars, i, toks>>

LexSpace == Lexing /\ src[i] \in Whitespace /\ i' = i + 1 /\ UNCHANGED <<lexVars, toks, pc, error>>

LexSymbol == Lexing /\ src[i] \in Symbol /\ Emit(Tok(src[i]), i + 1)

(* `!=`, `<=`, `>=`, and `<`, `>` on their own; a lone `!` is an error. *)
LexOperator ==
  /\ Lexing /\ src[i] \in {"!", "<", ">"}
  /\ IF At(i + 1) = "=" THEN Emit(Tok(CASE src[i] = "!" -> "!=" [] src[i] = "<" -> "<=" [] src[i] = ">" -> ">="), i + 2)
     ELSE IF src[i] = "!" THEN Fail(i - 1)
     ELSE Emit(Tok(src[i]), i + 1)

(* A string literal from after its opening quote: what was pushed, where   *)
(* the loop stopped, and why: at the closing quote, after a backslash with *)
(* nothing behind it, or at the end of the text.                           *)
Escaped(c) == CASE c = "n" -> "newline" [] c = "t" -> "tab" [] c = "r" -> "return" [] OTHER -> c
Stopped(why, s, next) == [why |-> why, s |-> s, next |-> next]
RECURSIVE Quoted(_, _)
Quoted(n, s) ==
  CASE n > Len(src) -> Stopped("end", s, n)
    [] n <= Len(src) /\ src[n] = "\\" ->
         IF n + 1 > Len(src) THEN Stopped("escape", s, n + 1)
         ELSE Quoted(n + 2, s \o Bytes(Escaped(src[n + 1])))
    [] n <= Len(src) /\ src[n] = "\"" -> Stopped("quote", s, n + 1)
    [] OTHER -> Quoted(n + 1, s \o Bytes(src[n]))

(* The closing quote pushed the token.  At the end of the text the literal *)
(* was closed if the last token is a string with this literal's offset.    *)
LexStringAnyLast ==   \* faulty: any last string token will do
  /\ Lexing /\ src[i] = "\""
  /\ LET q == Quoted(i + 1, <<>>)
         out == IF q.why = "quote" THEN Append(toks, [k |-> "string", s |-> q.s, at |-> i - 1]) ELSE toks
         closed == out # <<>> /\ out[Len(out)].k = "string"
     IN IF q.why = "escape" \/ (q.next > Len(src) /\ ~closed) THEN Fail(i - 1)
        ELSE toks' = out /\ i' = q.next /\ UNCHANGED <<lexVars, pc, error>>

LexString ==
  /\ Lexing /\ src[i] = "\""
  /\ LET q == Quoted(i + 1, <<>>)
         out == IF q.why = "quote" THEN Append(toks, [k |-> "string", s |-> q.s, at |-> i - 1]) ELSE toks
         closed == out # <<>> /\ out[Len(out)].k = "string" /\ out[Len(out)].at = i - 1
     IN IF q.why = "escape" \/ (q.next > Len(src) /\ ~closed) THEN Fail(i - 1)
        ELSE toks' = out /\ i' = q.next /\ UNCHANGED <<lexVars, pc, error>>

(* A number reaches as far as digits and dots, then an exponent; str::parse *)
(* then takes it or refuses it.                                            *)
NumberEnd ==
  LET a == SkipWhile(IF src[i] \in Sign THEN i + 1 ELSE i, Digit \cup {"."})
      b == IF At(a + 1) \in Sign THEN a + 2 ELSE a + 1
  IN IF At(a) \in {"e", "E", "exists"} THEN SkipWhile(b, Digit) ELSE a

RECURSIVE Natural(_)
Natural(ds) ==
  IF ds = <<>> THEN 0
  ELSE Natural(SubSeq(ds, 1, Len(ds) - 1)) * 10
         + (CHOOSE d \in 0..2 : <<"0", "1", "2">>[d + 1] = ds[Len(ds)])

(* str::parse::<f64> on [sign] digits ["." digits] ["e" [sign] digits]: at *)
(* least one digit in the mantissa and, after an `e`, in the exponent.     *)
Unsigned(s) == IF s # <<>> /\ Head(s) \in Sign THEN Tail(s) ELSE s
Negative(s) == s # <<>> /\ Head(s) = "-"
AllDigits(s) == \A n \in DOMAIN s : s[n] \in Digit
ParseNumber(s) ==
  LET me == SplitAt(Unsigned(s), {"e", "E"})
      wf == SplitAt(me[1], {"."})
      ex == Unsigned(me[2])
      e == (IF Negative(me[2]) THEN -1 ELSE 1) * Natural(ex) - Len(wf[2]) + Scale
      valid == /\ AllDigits(wf[1]) /\ AllDigits(wf[2]) /\ wf[1] \o wf[2] # <<>>
               /\ me[3] => AllDigits(ex) /\ ex # <<>>
  IN IF ~valid THEN [ok |-> FALSE]
     ELSE [ok |-> TRUE, n |-> (IF Negative(s) THEN -1 ELSE 1) * Natural(wf[1] \o wf[2]) * 10^e]

LexNumber ==
  /\ Lexing /\ src[i] \in Digit \cup Sign
  /\ LET num == ParseNumber(Text(i, NumberEnd))
     IN IF num.ok THEN Emit([k |-> "number", n |-> num.n, at |-> i - 1], NumberEnd) ELSE Fail(i - 1)

(* A word is a maximal run of word atoms: a keyword, in any case, when the *)
(* whole run is one, an identifier otherwise.                              *)
ToLower(w) == IF w = "OR" THEN "or" ELSE w
WordTok(w) ==
  IF Len(w) = 1 /\ ToLower(w[1]) \in Keywords THEN Tok(ToLower(w[1]))
  ELSE [k |-> "ident", id |-> w, at |-> i - 1]

LexWord ==
  /\ Lexing /\ src[i] \in Letter
  /\ LET end == SkipWhile(i + 1, Alnum) IN Emit(WordTok(Text(i, end)), end)

LexUnexpected ==
  /\ Lexing
  /\ src[i] \notin Whitespace \cup Symbol \cup {"!", "<", ">", "\""} \cup Digit \cup Sign \cup Letter
  /\ Fail(i - 1)

LexDone == pc = "lex" /\ i > Len(src) /\ pc' = "parse" /\ UNCHANGED <<lexVars, i, toks, error>>

-----------------------------------------------------------------------------
(* The parser.  `?` returns the first error; bump consumes a token whether *)
(* or not it is the wanted one, and err reports the offset of the token    *)
(* after it, 0 at the end of the input.                                    *)
Good(v, next) == [ok |-> TRUE, v |-> v, next |-> next]
Err(ts, p) == [ok |-> FALSE, at |-> IF p <= Len(ts) THEN ts[p].at ELSE 0]
Then(r, F(_)) == IF r.ok THEN F(r) ELSE r
Peek(ts, p, k) == p <= Len(ts) /\ ts[p].k = k
Bumped(ts, p) == IF p <= Len(ts) THEN p + 1 ELSE p

RECURSIVE ParsePath(_, _, _)
ParsePath(ts, p, segs) ==
  IF ~Peek(ts, p, "ident") THEN Err(ts, Bumped(ts, p))
  ELSE IF Peek(ts, p + 1, ".") THEN ParsePath(ts, p + 2, Append(segs, ts[p].id))
  ELSE Good(Append(segs, ts[p].id), p + 1)

RECURSIVE ParsePaths(_, _)
ParsePaths(ts, p) ==
  Then(ParsePath(ts, p, <<>>), LAMBDA r :
    IF Peek(ts, r.next, ",")
    THEN Then(ParsePaths(ts, r.next + 1), LAMBDA rest : Good(<<r.v>> \o rest.v, rest.next))
    ELSE Good(<<r.v>>, r.next))

ParseProjection(ts, p) ==
  IF Peek(ts, p, "*") THEN Good(AllFields, p + 1)
  ELSE Then(ParsePaths(ts, p), LAMBDA r : Good(Fields(r.v), r.next))

Scalar(tok) ==
  CASE tok.k = "string" -> Str(tok.s) [] tok.k = "number" -> Num(tok.n)
    [] tok.k \in {"true", "false"} -> Bool(tok.k = "true") [] tok.k = "null" -> Null
ScalarToks == {"string", "number", "true", "false", "null"}

RECURSIVE ParseValue(_, _), ParseItems(_, _)
ParseValue(ts, p) ==
  IF p <= Len(ts) /\ ts[p].k \in ScalarToks THEN Good(Scalar(ts[p]), p + 1)
  ELSE IF ~Peek(ts, p, "[") THEN Err(ts, Bumped(ts, p))
  ELSE Then(IF Peek(ts, p + 1, "]") THEN Good(<<>>, p + 1) ELSE ParseItems(ts, p + 1),
            LAMBDA r : IF Peek(ts, r.next, "]") THEN Good(Arr(r.v), r.next + 1)
                       ELSE Err(ts, Bumped(ts, r.next)))
ParseItems(ts, p) ==
  Then(ParseValue(ts, p), LAMBDA r :
    IF Peek(ts, r.next, ",")
    THEN Then(ParseItems(ts, r.next + 1), LAMBDA rest : Good(<<r.v>> \o rest.v, rest.next))
    ELSE Good(<<r.v>>, r.next))

Operators == [o \in {"=", "!=", "<", "<=", ">", ">=", "like", "in"} |->
  CASE o = "=" -> "eq" [] o = "!=" -> "ne" [] o = "<" -> "lt" [] o = "<=" -> "le"
    [] o = ">" -> "gt" [] o = ">=" -> "ge" [] OTHER -> o]

RECURSIVE ParseOr(_, _), ParseAnd(_, _), ParseNot(_, _), ParseCmp(_, _), OrTail(_, _), AndTail(_, _)
OrTail(ts, r) ==
  IF r.ok /\ Peek(ts, r.next, "or")
  THEN OrTail(ts, Then(ParseAnd(ts, r.next + 1), LAMBDA rhs : Good(Or(<<r.v, rhs.v>>), rhs.next)))
  ELSE r
ParseOr(ts, p) == OrTail(ts, ParseAnd(ts, p))

AndTail(ts, r) ==
  IF r.ok /\ Peek(ts, r.next, "and")
  THEN AndTail(ts, Then(ParseNot(ts, r.next + 1), LAMBDA rhs : Good(And(<<r.v, rhs.v>>), rhs.next)))
  ELSE r
ParseAndLoose(ts, p) ==   \* faulty: the right operand of `and` swallows a following `or`
  Then(ParseNot(ts, p), LAMBDA l :
    IF Peek(ts, l.next, "and")
    THEN Then(ParseOr(ts, l.next + 1), LAMBDA rhs : Good(And(<<l.v, rhs.v>>), rhs.next))
    ELSE l)
ParseAnd(ts, p) == AndTail(ts, ParseNot(ts, p))

ParseNot(ts, p) ==
  IF Peek(ts, p, "not") THEN Then(ParseNot(ts, p + 1), LAMBDA r : Good(Not(r.v), r.next))
  ELSE IF Peek(ts, p, "exists") THEN Then(ParsePath(ts, p + 1, <<>>), LAMBDA r : Good(Exists(r.v), r.next))
  ELSE ParseCmp(ts, p)

ParseCmp(ts, p) ==
  IF Peek(ts, p, "(")
  THEN Then(ParseOr(ts, p + 1), LAMBDA r :
         IF Peek(ts, r.next, ")") THEN Good(r.v, r.next + 1) ELSE Err(ts, Bumped(ts, r.next)))
  ELSE Then(ParsePath(ts, p, <<>>), LAMBDA left :
         IF Peek(ts, left.next, "contains")
         THEN Then(ParseValue(ts, left.next + 1), LAMBDA r :
                IF r.v.k = "array" THEN Err(ts, r.next) ELSE Good(Contains(left.v, r.v), r.next))
         ELSE IF left.next <= Len(ts) /\ ts[left.next].k \in DOMAIN Operators
         THEN Then(ParseValue(ts, left.next + 1), LAMBDA r :
                Good(Compare(left.v, Operators[ts[left.next].k], r.v), r.next))
         ELSE Err(ts, Bumped(ts, left.next)))

ParseQuery(ts) ==
  Then(IF Peek(ts, 1, "select") THEN ParseProjection(ts, 2) ELSE Good(AllFields, 1), LAMBDA proj :
    Then(IF Peek(ts, proj.next, "where") THEN ParseOr(ts, proj.next + 1) ELSE Good(PTrue, proj.next),
         LAMBDA pred : IF pred.next <= Len(ts) THEN Err(ts, pred.next)
                       ELSE Good([projection |-> proj.v, predicate |-> pred.v], pred.next)))

(* caql::parse, once the text is tokenized: the filter of the pattern. *)
ParseFilter ==
  /\ pc = "parse"
  /\ LET r == ParseQuery(toks)
     IN \/ /\ r.ok
           /\ pc' = "segments"
           /\ pattern' = [pattern EXCEPT !.filter = FilterBy(r.v)]
           /\ UNCHANGED error
        \/ /\ ~r.ok
           /\ pc' = "error"
           /\ error' = ParseError(r.at)
           /\ UNCHANGED pattern
  /\ UNCHANGED <<raw, src, i, toks, verdict>>

(* TopicPattern::parse from the filter on: the path's segments, an error   *)
(* at the first regex that does not compile.                               *)
ParseSegments ==
  /\ pc = "segments"
  /\ LET texts == Split(Path, "/")
         segs == [n \in DOMAIN texts |-> ParseSegment(texts[n])]
     IN \/ /\ \E n \in DOMAIN segs : segs[n] = BadRegex
           /\ pc' = "error" /\ error' = Failure("bad_regex")
           /\ UNCHANGED pattern
        \/ /\ \A n \in DOMAIN segs : segs[n] # BadRegex
           /\ pc' = "ready" /\ pattern' = [pattern EXCEPT !.segments = segs]
           /\ UNCHANGED error
  /\ UNCHANGED <<raw, src, i, toks, verdict>>

(* An event reaches the subscription. *)
MatchEvent(e) ==
  /\ pc = "ready"
  /\ verdict' = [event |-> <<e>>, said |-> MatchesEvent(pattern, e.topic, e.payload)]
  /\ UNCHANGED <<raw, src, i, toks, pc, pattern, error>>

Next ==
  \/ SplitTopic
  \/ LexSpace \/ LexSymbol \/ LexOperator \/ LexString \/ LexNumber \/ LexWord
  \/ LexUnexpected \/ LexDone
  \/ ParseFilter \/ ParseSegments
  \/ \E e \in Events : MatchEvent(e)

Spec == Init /\ [][Next]_vars
=============================================================================
