------------------------------- MODULE Topics -------------------------------
(***************************************************************************)
(* Topic patterns (events/topic.rs): segments, wildcards, regex segments,  *)
(* and an optional CaQL filter on the payload.  A pattern and a topic are  *)
(* texts: sequences of atoms, of which `/`, `?`, `*`, `{` and `}` have a   *)
(* meaning here.  Regular expressions belong to a library: Regexes gives   *)
(* the texts it compiles and, for each, the segments it finds a match in.  *)
(***************************************************************************)
EXTENDS Query

CONSTANT Regexes      \* Regexes[r]: the segments that the regex with text r matches

Literal(s) == [seg |-> "literal", s |-> s]
SingleWild == [seg |-> "*"]
MultiWild == [seg |-> "**"]
Regex(re) == [seg |-> "regex", re |-> re]
BadRegex == [seg |-> "bad"]

(* A text before and after its first character in C, and whether it has one. *)
SplitAt(s, C) ==
  LET cuts == {n \in DOMAIN s : s[n] \in C}
      c == IF cuts = {} THEN Len(s) + 1 ELSE CHOOSE n \in cuts : \A m \in cuts : n <= m
  IN <<SubSeq(s, 1, c - 1), SubSeq(s, c + 1, Len(s)), cuts # {}>>
RECURSIVE Split(_, _)
Split(s, c) == LET p == SplitAt(s, {c}) IN IF p[3] THEN <<p[1]>> \o Split(p[2], c) ELSE <<p[1]>>

(* One segment of a pattern, as TopicPattern::parse reads it. *)
ParseSegment(t) ==
  IF t = <<"*">> THEN SingleWild
  ELSE IF t = <<"*", "*">> THEN MultiWild
  ELSE IF Len(t) >= 2 /\ t[1] = "{" /\ t[Len(t)] = "}"
       THEN LET inner == SubSeq(t, 2, Len(t) - 1)
            IN IF inner \in DOMAIN Regexes THEN Regex(inner) ELSE BadRegex
  ELSE Literal(t)

(* matches_at *)
SegMatches(seg, part) ==
  CASE seg.seg = "*" -> TRUE
    [] seg.seg = "literal" -> seg.s = part
    [] seg.seg = "regex" -> part \in Regexes[seg.re]

RECURSIVE MatchesAt(_, _)
MatchesAt(pat, parts) ==
  IF pat = <<>> THEN parts = <<>>
  ELSE IF Head(pat) = MultiWild
       THEN IF Len(pat) = 1 THEN parts # <<>>
            ELSE \E n \in 1..Len(parts) : MatchesAt(Tail(pat), SubSeq(parts, n + 1, Len(parts)))
  ELSE /\ parts # <<>>
       /\ SegMatches(Head(pat), Head(parts))
       /\ MatchesAt(Tail(pat), Tail(parts))

NoFilter == [filter |-> FALSE]
FilterBy(q) == [filter |-> TRUE, q |-> q]

(* TopicPattern::matches_event *)
MatchesEvent(pattern, topic, payload) ==
  /\ MatchesAt(pattern.segments, Split(topic, "/"))
  /\ pattern.filter.filter => Matches(pattern.filter.q, payload)
=============================================================================
