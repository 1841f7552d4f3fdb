------------------------------- MODULE Query -------------------------------
(***************************************************************************)
(* The query model and its evaluator (query/ast.rs, query/eval.rs): what a *)
(* parsed CaQL query matches in a JSON value and what it projects from it. *)
(*                                                                         *)
(* A JSON value is a record tagged by its kind; a string or a field name   *)
(* is a sequence of characters, a number an integer (a multiple of a fixed *)
(* power of ten), an object a function on field names.  Literals are the   *)
(* JSON values without objects.                                            *)
(***************************************************************************)
EXTENDS Integers, Sequences, FiniteSets

CONSTANT CharOrder   \* CharOrder[c]: the code point of c, as < compares it

Str(s) == [k |-> "string", s |-> s]
Num(n) == [k |-> "number", n |-> n]
Bool(b) == [k |-> "bool", b |-> b]
Null == [k |-> "null"]
Arr(items) == [k |-> "array", items |-> items]
Obj(map) == [k |-> "object", map |-> map]
Absent == [k |-> "absent"]   \* Option::None

PTrue == [p |-> "true"]
And(items) == [p |-> "and", items |-> items]
Or(items) == [p |-> "or", items |-> items]
Not(inner) == [p |-> "not", inner |-> inner]
Compare(left, op, right) == [p |-> "compare", left |-> left, op |-> op, right |-> right]
Contains(path, value) == [p |-> "contains", path |-> path, value |-> value]
Exists(path) == [p |-> "exists", path |-> path]

AllFields == [proj |-> "all"]
Fields(paths) == [proj |-> "fields", paths |-> paths]

-----------------------------------------------------------------------------
(* lookup, FieldPath::extract: walk objects only. *)
RECURSIVE Lookup(_, _)
Lookup(segs, t) ==
  IF segs = <<>> THEN t
  ELSE IF t.k = "object" /\ Head(segs) \in DOMAIN t.map
       THEN Lookup(Tail(segs), t.map[Head(segs)])
       ELSE Absent

(* json_eq: scalars of one kind; an array literal equals nothing. *)
JsonEq(j, c) == j.k \in {"string", "number", "bool", "null"} /\ j = c

(* str's <, byte by byte. *)
RECURSIVE StrLess(_, _)
StrLess(a, b) ==
  /\ b # <<>>
  /\ \/ a = <<>>
     \/ CharOrder[Head(a)] < CharOrder[Head(b)]
     \/ Head(a) = Head(b) /\ StrLess(Tail(a), Tail(b))

Ordered(op, less, equal) ==
  CASE op = "lt" -> less
    [] op = "le" -> less \/ equal
    [] op = "gt" -> ~less /\ ~equal
    [] op = "ge" -> ~less

(* glob_match: `*` tries the empty run first, `?` takes one character. *)
RECURSIVE GlobMatchShort(_, _)
GlobMatchShort(p, s) ==   \* faulty: `*` never gives a character back
  IF p = <<>> THEN s = <<>>
  ELSE IF Head(p) = "*" THEN GlobMatchShort(Tail(p), s) \/ Tail(p) = <<>>
  ELSE s # <<>> /\ Head(p) \in {"?", Head(s)} /\ GlobMatchShort(Tail(p), Tail(s))

RECURSIVE GlobMatch(_, _)
GlobMatch(p, s) ==
  IF p = <<>> THEN s = <<>>
  ELSE IF Head(p) = "*" THEN GlobMatch(Tail(p), s) \/ (s # <<>> /\ GlobMatch(p, Tail(s)))
  ELSE s # <<>> /\ Head(p) \in {"?", Head(s)} /\ GlobMatch(Tail(p), Tail(s))

CompareOp(op, got, rhs) ==
  CASE op = "eq" -> IF got = Absent THEN rhs = Null ELSE JsonEq(got, rhs)
    [] op = "ne" -> IF got = Absent THEN rhs # Null ELSE ~JsonEq(got, rhs)
    [] op \in {"lt", "le", "gt", "ge"} ->
         \/ got.k = "number" /\ rhs.k = "number" /\ Ordered(op, got.n < rhs.n, got.n = rhs.n)
         \/ got.k = "string" /\ rhs.k = "string" /\ Ordered(op, StrLess(got.s, rhs.s), got.s = rhs.s)
    [] op = "like" -> got.k = "string" /\ rhs.k = "string" /\ GlobMatch(rhs.s, got.s)
    [] op = "in" -> /\ rhs.k = "array"
                    /\ got # Absent
                    /\ \E i \in DOMAIN rhs.items : JsonEq(got, rhs.items[i])

RECURSIVE EvalPred(_, _)
EvalPred(p, t) ==
  CASE p.p = "true" -> TRUE
    [] p.p = "and" -> \A i \in DOMAIN p.items : EvalPred(p.items[i], t)
    [] p.p = "or" -> \E i \in DOMAIN p.items : EvalPred(p.items[i], t)
    [] p.p = "not" -> ~EvalPred(p.inner, t)
    [] p.p = "compare" -> CompareOp(p.op, Lookup(p.left, t), p.right)
    [] p.p = "contains" -> LET got == Lookup(p.path, t)
                           IN got.k = "array" /\ \E i \in DOMAIN got.items : JsonEq(got.items[i], p.value)
    [] p.p = "exists" -> Lookup(p.path, t) # Absent

(* matches *)
Matches(q, t) == EvalPred(q.predicate, t)

-----------------------------------------------------------------------------
(* insert_path: make the missing objects on the way, overwrite at the end, *)
(* give up where a non-object is in the way.                               *)
Put(map, f, v) == [g \in DOMAIN map \cup {f} |-> IF g = f THEN v ELSE map[g]]
NoFields == [f \in {} |-> Null]

RECURSIVE InsertPathReset(_, _, _)
InsertPathReset(map, segs, v) ==   \* faulty: a shared prefix starts over
  IF Len(segs) = 1 THEN Put(map, segs[1], v)
  ELSE Put(map, segs[1], Obj(InsertPathReset(NoFields, Tail(segs), v)))

RECURSIVE InsertPath(_, _, _)
InsertPath(map, segs, v) ==
  IF Len(segs) = 1 THEN Put(map, segs[1], v)
  ELSE LET next == IF segs[1] \in DOMAIN map THEN map[segs[1]] ELSE Obj(NoFields)
       IN IF next.k = "object" THEN Put(map, segs[1], Obj(InsertPath(next.map, Tail(segs), v)))
          ELSE map

RECURSIVE ProjectPaths(_, _, _)
ProjectPaths(paths, t, out) ==
  IF paths = <<>> THEN out
  ELSE LET v == Lookup(Head(paths), t)
       IN ProjectPaths(Tail(paths), t, IF v = Absent THEN out ELSE InsertPath(out, Head(paths), v))

(* project *)
Project(q, t) ==
  IF q.projection = AllFields THEN t ELSE Obj(ProjectPaths(q.projection.paths, t, NoFields))
=============================================================================
