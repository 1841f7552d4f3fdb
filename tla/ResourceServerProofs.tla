------------------------ MODULE ResourceServerProofs ------------------------
(***************************************************************************)
(* Proofs about ResourceServer for every set of ids, keys, requests and    *)
(* inputs and any number of starts, crashes, changes and failed writes.    *)
(***************************************************************************)
EXTENDS ResourceServer, WellFoundedInduction, NaturalsInduction, TLAPS

Ops == {"get", "list", "register", "transition"}
Registering == {"lookup", "check", "write", "insert", "first", "store"}
Steps == Registering \cup {"run", "read", "compare", "upsert", "answer", "list", "keep"}
Snapshots == Nat \X Nat
Request ==
  [pc : Steps \cup {"idle", "done"}, op : Ops, key : Keys \cup {None}, id : Ids \cup {None},
   form : {"ok", "media type", "malformed", "no kind", "unknown kind"},
   snap : Snapshots \cup {None}, ran : Snapshots \cup {None},
   todo : SUBSET Ids, got : SUBSET [id : Ids, snap : Snapshots], status : Nat]

(* The tables, the process and the requests keep their types. *)
TypeOK ==
  /\ identities \in [Ids -> Keys \cup {None}]
  /\ latest \in [Ids -> Snapshots \cup {None}]
  /\ boot \in Nat
  /\ phase \in {"down", "resolving", "sentinel", "up"}
  /\ config \subseteq [key : Keys, id : Given \cup {None}]
  /\ dir \in [Ids -> Keys \cup {None}]
  /\ actor \in [Ids -> [alive : BOOLEAN, n : Nat]]
  /\ req \in [Requests -> Request]
  /\ faults \in Nat
  /\ raced \subseteq Keys \cup {None}
  /\ lag \subseteq Ids

-----------------------------------------------------------------------------
(* What one step does to the requests: r is at another step and nothing     *)
(* else of it changed, or r is answered; the others are where they were.    *)
OnlyOf(r) == req' \in [Requests -> Request] /\ \A s \in Requests : s # r => req'[s] = req[s]
KeepsId(r) == req'[r].op = req[r].op /\ req'[r].key = req[r].key /\ req'[r].id = req[r].id
KeepsData(r) ==
  /\ req'[r].snap = req[r].snap /\ req'[r].ran = req[r].ran
  /\ req'[r].todo = req[r].todo /\ req'[r].got = req[r].got
Moved(r, p) == OnlyOf(r) /\ req'[r].pc = p /\ KeepsId(r) /\ KeepsData(r)
Finished(r, status) ==
  /\ OnlyOf(r)
  /\ req'[r].pc = "done" /\ req'[r].op = req[r].op /\ req'[r].status = status
  /\ req'[r].ran = req[r].ran /\ (req[r].ran # None => req'[r].snap = req[r].snap)

LEMMA GotoMoves ==
  ASSUME TypeOK, NEW r \in Requests, NEW p \in Steps, Goto(r, p)
  PROVE  Moved(r, p)
<1>1. req \in [Requests -> Request] /\ req[r] \in Request
  BY DEF TypeOK
<1>2. /\ [req[r] EXCEPT !.pc = p] \in Request
      /\ [req[r] EXCEPT !.pc = p].pc = p /\ [req[r] EXCEPT !.pc = p].op = req[r].op
      /\ [req[r] EXCEPT !.pc = p].key = req[r].key /\ [req[r] EXCEPT !.pc = p].id = req[r].id
      /\ [req[r] EXCEPT !.pc = p].snap = req[r].snap /\ [req[r] EXCEPT !.pc = p].ran = req[r].ran
      /\ [req[r] EXCEPT !.pc = p].todo = req[r].todo /\ [req[r] EXCEPT !.pc = p].got = req[r].got
  BY <1>1 DEF Request
<1> QED
  BY <1>1, <1>2 DEF Goto, Moved, OnlyOf, KeepsId, KeepsData

LEMMA DoneFields ==
  ASSUME TypeOK, NEW r \in Requests, NEW s \in Nat
  PROVE  /\ Done(r, s) \in Request /\ Done(r, s).pc = "done" /\ Done(r, s).op = req[r].op
         /\ Done(r, s).status = s /\ Done(r, s).ran = req[r].ran
         /\ req[r].ran # None => Done(r, s).snap = req[r].snap
<1>1. req[r] \in Request
  BY DEF TypeOK
<1>2. req[r].op \in Ops /\ req[r].snap \in Snapshots \cup {None} /\ req[r].ran \in Snapshots \cup {None}
  BY <1>1 DEF Request
<1> QED
  BY <1>2 DEF Done, Idle, Request

LEMMA ReplyFinishes ==
  ASSUME TypeOK, NEW r \in Requests, NEW s \in Nat, Reply(r, s)
  PROVE  Finished(r, s)
<1>1. req \in [Requests -> Request] /\ req' = [req EXCEPT ![r] = Done(r, s)]
  BY DEF TypeOK, Reply
<1> QED
  BY <1>1, DoneFields DEF Finished, OnlyOf

-----------------------------------------------------------------------------
(* The identity an existing record gives is one that carries the key. *)
LEMMA FoundCarries ==
  ASSUME NEW table, DOMAIN table = Ids, NEW key
  PROVE  \/ FindByIdentityKey(table, key) = None /\ \A id \in Ids : table[id] # key
         \/ FindByIdentityKey(table, key) \in Ids /\ table[FindByIdentityKey(table, key)] = key
<1> DEFINE C == Carrying(table, key)
<1>1. CASE C = {}
  BY <1>1 DEF FindByIdentityKey, Carrying
<1>2. CASE C # {}
  <2>1. C \subseteq Nat
    BY RepositoriesAssumption DEF Carrying
  <2> HIDE DEF C
  <2> DEFINE R == {ss \in Nat \X Nat : ss[1] < ss[2]}
  <2>2. IsWellFoundedOn(R, Nat)
    BY NatLessThanWellFounded, Zenon DEF OpToRel
  <2> HIDE DEF R
  <2>3. PICK m \in C : \A n \in C : ~(<<n, m>> \in R)
    BY <1>2, <2>1, <2>2, WFMin
  <2>4. \A n \in C : m <= n
    <3>1. ASSUME NEW n \in C PROVE m <= n
      <4>1. n \in Nat /\ m \in Nat
        BY <2>1
      <4>2. <<n, m>> \notin R
        BY <2>3
      <4>3. ~(n < m)
        BY <4>1, <4>2 DEF R
      <4> QED
        BY <4>1, <4>3
    <3> QED
      BY <3>1
  <2>5. (CHOOSE id \in C : \A other \in C : id <= other) \in C
    BY <2>4
  <2> QED
    BY <1>2, <2>5 DEF FindByIdentityKey, Carrying, C
<1> QED
  BY <1>1, <1>2

(* resolve_or_create_resource_identity: a record that carries the key, a    *)
(* conflict, or an id that is free for a key that no record carries.        *)
LEMMA IdentityDecides ==
  ASSUME TypeOK, NEW key \in Keys, NEW given \in Given \cup {None}
  PROVE  LET i == Identity(identities, key, given)
         IN \/ i.is = "conflict"
            \/ i.is = "known" /\ i.id \in Ids /\ identities[i.id] = key
            \/ i.is = "mint" /\ given = None /\ \A id \in Ids : identities[id] # key
            \/ /\ i.is = "put" /\ i.id = given /\ given \in Ids /\ identities[given] = None
               /\ \A id \in Ids : identities[id] # key
<1> DEFINE found == FindByIdentityKey(identities, key)
<1>1. /\ identities \in [Ids -> Keys \cup {None}] /\ Given \subseteq Ids
      /\ None \notin Ids /\ None \notin Keys
  BY ServerAssumption, RepositoriesAssumption DEF TypeOK
<1>2. \/ found = None /\ \A id \in Ids : identities[id] # key
      \/ found \in Ids /\ identities[found] = key
  BY <1>1, FoundCarries
<1> HIDE DEF found
<1>3. Identity(identities, key, given) =
        IF given = None
        THEN IF found # None THEN [is |-> "known", id |-> found] ELSE [is |-> "mint", id |-> None]
        ELSE IF identities[given] # None
        THEN IF identities[given] = key THEN [is |-> "known", id |-> given]
             ELSE [is |-> "conflict", id |-> given]
        ELSE IF found # None /\ found # given THEN [is |-> "conflict", id |-> given]
        ELSE [is |-> "put", id |-> given]
  BY DEF Identity, found
<1> QED
  BY <1>1, <1>2, <1>3

-----------------------------------------------------------------------------
(* Which request is at which step, and what it carries there. *)
OpAt(r) ==
  /\ req[r].pc \in Registering => req[r].op = "register"
  /\ req[r].pc = "run" => req[r].op = "transition"
  /\ req[r].pc \in {"list", "keep"} => req[r].op = "list"
  /\ req[r].pc \in {"read", "answer"} => req[r].op # "list"
  /\ req[r].op = "register" /\ InFlight(r) => req[r].key \in Keys
  /\ req[r].pc = "lookup" => req[r].id \in Given \cup {None}
  /\ req[r].pc \in Steps \ {"lookup", "list", "keep"} => req[r].id \in Ids
  /\ req[r].pc \in {"store", "compare", "upsert"} => req[r].snap \in Snapshots
  /\ phase # "up" => req[r].pc = "idle"

OpInv == \A r \in Requests : OpAt(r)

-----------------------------------------------------------------------------
(* The steps of a request, field by field.  A request arrives ...           *)
Entered(r, i) ==
  /\ req'[r].op = i.op /\ req'[r].key = i.key /\ req'[r].id = i.id
  /\ req'[r].snap = None /\ req'[r].ran = None /\ req'[r].got = {}
  /\ \/ i.op = "register" /\ req'[r].pc = "lookup"
     \/ i.op = "transition" /\ req'[r].pc = "run"
     \/ i.op = "get" /\ req'[r].pc = "read"
     \/ i.op = "list" /\ req'[r].pc = "list"

LEMMA ArriveDoes ==
  ASSUME TypeOK, NEW r \in Requests, Arrive(r)
  PROVE  \E i \in Inputs :
           /\ OnlyOf(r)
           /\ Entered(r, i) \/ (req'[r].pc = "done" /\ req'[r].status \in {400, 415})
           /\ raced' = raced \cup Races(i)
           /\ lag' = lag \cup (IF i.id # None THEN Touch(r, i.id) ELSE {})
<1>1. req \in [Requests -> Request]
  BY DEF TypeOK
<1>2. PICK i \in Inputs :
        LET first == CASE i.op = "register" -> "lookup" [] i.op = "transition" -> "run"
                       [] i.op = "get" -> "read" [] i.op = "list" -> "list"
        IN /\ req' = [req EXCEPT ![r] = IF i.form # "ok" THEN [Idle EXCEPT !.pc = "done", !.op = i.op, !.status = Refusal(i.form)]
                                        ELSE [i EXCEPT !.pc = first,
                                                       !.todo = IF i.op = "list" THEN {id \in Ids : dir[id] # None} ELSE {}]]
           /\ raced' = raced \cup Races(i)
           /\ lag' = lag \cup (IF i.id # None THEN Touch(r, i.id) ELSE {})
  BY DEF Arrive
<1>3. i \in [pc : {"idle"}, op : Ops, key : Keys \cup {None}, id : Ids \cup {None},
             form : {"ok", "media type", "malformed", "no kind", "unknown kind"},
             snap : {None}, ran : {None}, todo : {{}}, got : {{}}, status : {0}]
  BY <1>2, ServerAssumption DEF Ops
<1>4. CASE i.form # "ok"
  <2> DEFINE q == [Idle EXCEPT !.pc = "done", !.op = i.op, !.status = Refusal(i.form)]
  <2>1. Refusal(i.form) \in {400, 415} /\ i.op \in Ops
    <3>1. i.op \in Ops /\ i.form \in {"media type", "malformed", "no kind", "unknown kind"}
      BY <1>3, <1>4
    <3>2. CASE i.form = "media type"
      <4>1. i.form \notin {"malformed", "no kind", "unknown kind"}
        BY <3>2
      <4>2. Refusal(i.form) = 415
        BY <3>2, <4>1 DEF Refusal
      <4> QED
        BY <3>1, <4>2
    <3>3. CASE i.form \in {"malformed", "no kind", "unknown kind"}
      BY <3>1, <3>3 DEF Refusal
    <3> QED
      BY <3>1, <3>2, <3>3
  <2>2. q \in Request /\ q.pc = "done" /\ q.status \in {400, 415}
    <3>1. Refusal(i.form) \in Nat
      BY <2>1
    <3> QED
      BY <2>1, <3>1 DEF Idle, Request
  <2> HIDE DEF q
  <2>3. req' = [req EXCEPT ![r] = q]
    BY <1>2, <1>4 DEF q
  <2>4. OnlyOf(r) /\ req'[r].pc = "done" /\ req'[r].status \in {400, 415}
    BY <1>1, <2>2, <2>3 DEF OnlyOf
  <2> QED
    BY <1>2, <2>4
<1>5. CASE i.form = "ok"
  <2> DEFINE first == CASE i.op = "register" -> "lookup" [] i.op = "transition" -> "run"
                        [] i.op = "get" -> "read" [] i.op = "list" -> "list"
             todo == IF i.op = "list" THEN {id \in Ids : dir[id] # None} ELSE {}
             q == [i EXCEPT !.pc = first, !.todo = todo]
  <2>1. /\ \/ i.op = "register" /\ first = "lookup"
           \/ i.op = "transition" /\ first = "run"
           \/ i.op = "get" /\ first = "read"
           \/ i.op = "list" /\ first = "list"
        /\ todo \in SUBSET Ids
    BY <1>3 DEF Ops
  <2> HIDE DEF first, todo
  <2>2. /\ q \in Request /\ q.pc = first /\ q.op = i.op /\ q.key = i.key /\ q.id = i.id
        /\ q.snap = None /\ q.ran = None /\ q.got = {}
    <3>1. i \in Request /\ i.snap = None /\ i.ran = None /\ i.got = {}
      <4>1. /\ i.pc = "idle" /\ i.op \in Ops /\ i.key \in Keys \cup {None} /\ i.id \in Ids \cup {None}
            /\ i.snap = None /\ i.ran = None /\ i.todo = {} /\ i.got = {} /\ i.status = 0
            /\ i.form \in {"ok", "media type", "malformed", "no kind", "unknown kind"}
        BY <1>3
      <4>2. i = [pc |-> i.pc, op |-> i.op, key |-> i.key, id |-> i.id, form |-> i.form, snap |-> i.snap,
                 ran |-> i.ran, todo |-> i.todo, got |-> i.got, status |-> i.status]
        BY <1>3
      <4>3. 0 \in Nat /\ {} \in SUBSET Ids /\ {} \in SUBSET [id : Ids, snap : Snapshots]
        OBVIOUS
      <4> QED
        BY <4>1, <4>2, <4>3 DEF Request
    <3>2. first \in Steps
      BY <2>1 DEF Steps, Registering
    <3> QED
      BY <2>1, <3>1, <3>2 DEF Request
  <2> HIDE DEF q
  <2>3. req' = [req EXCEPT ![r] = q]
    BY <1>2, <1>5 DEF q, first, todo
  <2>4. req'[r] = q /\ OnlyOf(r)
    BY <1>1, <2>2, <2>3 DEF OnlyOf
  <2>5. Entered(r, i)
    BY <2>1, <2>2, <2>4 DEF Entered
  <2> QED
    BY <1>2, <2>4, <2>5
<1> QED
  BY <1>4, <1>5

(* ... a registration finds its id, ... *)
Placed(r, id, p) ==
  /\ OnlyOf(r) /\ KeepsData(r)
  /\ req'[r].pc = p /\ req'[r].op = req[r].op /\ req'[r].key = req[r].key /\ req'[r].id = id

LEMMA LookupDoes ==
  ASSUME TypeOK, OpInv, NEW r \in Requests, Lookup(r)
  PROVE  \/ Finished(r, 409) /\ lag \subseteq lag' /\ lag' \subseteq Ids
         \/ \E id \in Ids :
              /\ Placed(r, id, "insert") /\ identities[id] = req[r].key
              /\ lag' = lag \cup Touch(r, id)
         \/ \E id \in Ids :
              /\ Placed(r, id, "check") /\ identities[id] = None
              /\ \A j \in Ids : identities[j] # req[r].key
              /\ \/ id = req[r].id
                 \/ id \notin Given /\ \A s \in Requests : InFlight(s) => req[s].id # id
              /\ lag' = lag \cup Touch(r, id)
<1> DEFINE i == Identity(identities, req[r].key, req[r].id)
<1>1. /\ req \in [Requests -> Request] /\ req[r] \in Request /\ lag \subseteq Ids
      /\ identities \in [Ids -> Keys \cup {None}]
  BY DEF TypeOK
<1>2. req[r].key \in Keys /\ req[r].id \in Given \cup {None}
  BY DEF OpInv, OpAt, Lookup, Step, Registering, InFlight
<1>3. \/ i.is = "conflict"
      \/ i.is = "known" /\ i.id \in Ids /\ identities[i.id] = req[r].key
      \/ i.is = "mint" /\ \A id \in Ids : identities[id] # req[r].key
      \/ /\ i.is = "put" /\ i.id = req[r].id /\ req[r].id \in Ids /\ identities[req[r].id] = None
         /\ \A id \in Ids : identities[id] # req[r].key
  BY <1>2, IdentityDecides
<1>4. PICK id \in IF i.is = "mint" THEN Fresh ELSE {i.id} :
        /\ req' = [req EXCEPT ![r] = IF i.is = "conflict" THEN Done(r, 409)
                                     ELSE [@ EXCEPT !.id = id, !.pc = IF i.is = "known" THEN "insert" ELSE "check"]]
        /\ lag' = lag \cup Touch(r, id)
  BY DEF Lookup
<1> HIDE DEF i
<1>5. ASSUME NEW p \in {"insert", "check"}, id \in Ids,
             req' = [req EXCEPT ![r] = [@ EXCEPT !.id = id, !.pc = p]]
      PROVE  Placed(r, id, p)
  <2> DEFINE q == [req[r] EXCEPT !.id = id, !.pc = p]
  <2>1. /\ q \in Request /\ q.pc = p /\ q.op = req[r].op /\ q.key = req[r].key /\ q.id = id
        /\ q.snap = req[r].snap /\ q.ran = req[r].ran /\ q.todo = req[r].todo /\ q.got = req[r].got
    <3>1. p \in Steps
      BY <1>5 DEF Steps, Registering
    <3>2. q \in Request
      BY <1>1, <1>5, <3>1 DEF Request
    <3>3. /\ q.pc = p /\ q.op = req[r].op /\ q.key = req[r].key /\ q.id = id
          /\ q.snap = req[r].snap /\ q.ran = req[r].ran /\ q.todo = req[r].todo /\ q.got = req[r].got
      BY <1>1 DEF Request
    <3> QED
      BY <3>2, <3>3
  <2> HIDE DEF q
  <2>2. req' = [req EXCEPT ![r] = q]
    BY <1>5 DEF q
  <2> QED
    BY <1>1, <2>1, <2>2 DEF Placed, OnlyOf, KeepsData
<1>6. CASE i.is = "conflict"
  <2>1. Reply(r, 409)
    BY <1>4, <1>6 DEF Reply
  <2>2. Touch(r, id) \subseteq {id} /\ id = i.id
    BY <1>4, <1>6 DEF Touch
  <2>3. i.id \in Ids
    BY <1>2, <1>6, ServerAssumption DEF i, Identity
  <2> QED
    BY <1>1, <1>4, <2>1, <2>2, <2>3, ReplyFinishes
<1>7. CASE i.is = "known"
  BY <1>3, <1>4, <1>5, <1>7
<1>8. CASE i.is = "put"
  BY <1>3, <1>4, <1>5, <1>8
<1>9. CASE i.is = "mint"
  <2>1. id \in Fresh
    BY <1>4, <1>9
  <2>2. /\ id \in Ids /\ identities[id] = None /\ id \notin Given
        /\ \A s \in Requests : InFlight(s) => req[s].id # id
    BY <1>1, <2>1 DEF Fresh
  <2> QED
    BY <1>3, <1>4, <1>5, <1>9, <2>2
<1> QED
  BY <1>3, <1>6, <1>7, <1>8, <1>9

(* ... an actor is read for the first time, ... *)
LEMMA FirstReadDoes ==
  ASSUME TypeOK, OpInv, NEW r \in Requests, FirstRead(r)
  PROVE  /\ OnlyOf(r) /\ KeepsId(r) /\ req'[r].ran = req[r].ran /\ req'[r].got = req[r].got
         /\ \/ actor[req[r].id].alive /\ req'[r].pc = "store" /\ req'[r].snap = Snapshot(req[r].id)
            \/ ~actor[req[r].id].alive /\ req'[r].pc = "read" /\ req'[r].snap = None
<1> DEFINE a == actor[req[r].id]
           p == IF a.alive THEN "store" ELSE "read"
           sn == IF a.alive THEN Snapshot(req[r].id) ELSE None
           q == [req[r] EXCEPT !.pc = p, !.snap = sn]
<1>1. req \in [Requests -> Request] /\ req[r] \in Request /\ boot \in Nat
  BY DEF TypeOK
<1>2. req[r].id \in Ids
  BY DEF OpInv, OpAt, FirstRead, Step, Steps, Registering
<1>3. a.n \in Nat /\ a.alive \in BOOLEAN
  BY <1>2 DEF TypeOK
<1>4. /\ sn \in Snapshots \cup {None} /\ p \in Steps
      /\ \/ a.alive /\ p = "store" /\ sn = Snapshot(req[r].id)
         \/ ~a.alive /\ p = "read" /\ sn = None
  BY <1>1, <1>3 DEF Snapshot, Snapshots, Steps, Registering
<1> HIDE DEF p, sn
<1>5. /\ q \in Request /\ q.pc = p /\ q.snap = sn /\ q.op = req[r].op /\ q.key = req[r].key
      /\ q.id = req[r].id /\ q.ran = req[r].ran /\ q.got = req[r].got
  BY <1>1, <1>4 DEF Request
<1> HIDE DEF q
<1>6. req' = [req EXCEPT ![r] = q]
  <2>1. req' = [req EXCEPT ![r].pc = p, ![r].snap = sn]
    BY DEF FirstRead, p, sn
  <2> QED
    BY <1>1, <2>1 DEF q
<1>7. req'[r] = q /\ OnlyOf(r)
  BY <1>1, <1>5, <1>6 DEF OnlyOf
<1> QED
  BY <1>4, <1>5, <1>7 DEF KeepsId

(* ... a transition runs, ... *)
Failed(s) == req'[s] \in Request /\ req'[s].pc = "done" /\ req'[s].status = 500

Alive(r) == dir[req[r].id] # None /\ actor[req[r].id].alive
Changed(r) == Alive(r) /\ actor' = [actor EXCEPT ![req[r].id].n = @ + 1]
Completed(r) ==
  /\ Changed(r) /\ UNCHANGED lag /\ OnlyOf(r) /\ KeepsId(r)
  /\ req'[r].pc = "read" /\ req'[r].ran = <<boot, actor[req[r].id].n + 1>> /\ req'[r].got = req[r].got
Accepted(r) == Changed(r) /\ lag' = lag \cup {req[r].id} /\ Finished(r, 202)
Refused(r) == UNCHANGED <<actor, lag>> /\ (Finished(r, 404) \/ Finished(r, 409) \/ Finished(r, 500))
Panicked(r) ==
  /\ Alive(r) /\ actor' = [actor EXCEPT ![req[r].id].alive = FALSE] /\ lag' = lag \cup {req[r].id}
  /\ req' \in [Requests -> Request]
  /\ \A s \in Requests : req'[s] = req[s] \/ (Failed(s) /\ req[s].id = req[r].id)
  /\ Failed(r)

LEMMA RunDoes ==
  ASSUME TypeOK, OpInv, NEW r \in Requests, RunTransition(r)
  PROVE  req[r].id \in Ids /\ (Completed(r) \/ Accepted(r) \/ Refused(r) \/ Panicked(r))
<1> DEFINE id == req[r].id
<1>1. req \in [Requests -> Request] /\ req[r] \in Request /\ boot \in Nat
  BY DEF TypeOK
<1>2. id \in Ids /\ req[r].pc = "run"
  BY DEF OpInv, OpAt, RunTransition, Step, Steps, Registering
<1>3. actor[id].n \in Nat /\ actor[id].alive \in BOOLEAN
  BY <1>2 DEF TypeOK
<1>4. CASE dir[id] = None
  <2>1. Reply(r, 404) /\ UNCHANGED <<actor, lag>>
    BY <1>4 DEF RunTransition
  <2>2. Finished(r, 404)
    BY <2>1, ReplyFinishes
  <2> QED
    BY <1>2, <2>1, <2>2 DEF Refused
<1>5. CASE dir[id] # None /\ ~actor[id].alive
  <2>1. Reply(r, 500) /\ UNCHANGED <<actor, lag>>
    BY <1>5 DEF RunTransition
  <2>2. Finished(r, 500)
    BY <2>1, ReplyFinishes
  <2> QED
    BY <1>2, <2>1, <2>2 DEF Refused
<1>6. CASE dir[id] # None /\ actor[id].alive
  <2>1. \/ /\ actor' = [actor EXCEPT ![id].n = @ + 1]
           /\ \/ req' = [req EXCEPT ![r].pc = "read", ![r].ran = <<boot, actor[id].n + 1>>] /\ UNCHANGED lag
              \/ Reply(r, 202) /\ lag' = lag \cup {id}
        \/ Reply(r, 409) /\ UNCHANGED <<actor, lag>>
        \/ /\ actor' = [actor EXCEPT ![id].alive = FALSE]
           /\ \E dropped \in SUBSET {s \in Requests : req[s].id = id} :
                req' = [s \in Requests |-> IF s \in dropped \cup {r} THEN Done(s, 500) ELSE req[s]]
           /\ lag' = lag \cup {id}
    <3>1. \E outcome \in Outcomes :
            \/ /\ actor' = [actor EXCEPT ![id].n = @ + 1]
               /\ IF outcome = "completed"
                  THEN req' = [req EXCEPT ![r].pc = "read", ![r].ran = <<boot, actor[id].n + 1>>] /\ UNCHANGED lag
                  ELSE Reply(r, 202) /\ lag' = lag \cup {id}
            \/ Reply(r, 409) /\ UNCHANGED <<actor, lag>>
            \/ /\ actor' = [actor EXCEPT ![id].alive = FALSE]
               /\ \E dropped \in SUBSET {s \in Requests : InFlight(s) /\ req[s].pc = "read" /\ req[s].id = id} :
                    req' = [s \in Requests |-> IF s \in dropped \cup {r} THEN Done(s, 500) ELSE req[s]]
               /\ lag' = lag \cup {id}
      BY <1>6, Zenon DEF RunTransition
    <3>2. ASSUME NEW dropped \in SUBSET {s \in Requests : InFlight(s) /\ req[s].pc = "read" /\ req[s].id = id}
          PROVE  dropped \in SUBSET {s \in Requests : req[s].id = id}
      OBVIOUS
    <3>3. (\E dropped \in SUBSET {s \in Requests : InFlight(s) /\ req[s].pc = "read" /\ req[s].id = id} :
             req' = [s \in Requests |-> IF s \in dropped \cup {r} THEN Done(s, 500) ELSE req[s]])
          => \E dropped \in SUBSET {s \in Requests : req[s].id = id} :
               req' = [s \in Requests |-> IF s \in dropped \cup {r} THEN Done(s, 500) ELSE req[s]]
      BY <3>2, Zenon
    <3> QED
      BY <3>1, <3>3, Zenon
  <2>2. ASSUME req' = [req EXCEPT ![r].pc = "read", ![r].ran = <<boot, actor[id].n + 1>>]
        PROVE  /\ OnlyOf(r) /\ KeepsId(r) /\ req'[r].pc = "read"
               /\ req'[r].ran = <<boot, actor[id].n + 1>> /\ req'[r].got = req[r].got
    <3> DEFINE rn == <<boot, actor[id].n + 1>>
               q == [req[r] EXCEPT !.pc = "read", !.ran = rn]
    <3>1. rn \in Snapshots
      BY <1>1, <1>3 DEF Snapshots
    <3> HIDE DEF rn
    <3>2. /\ q \in Request /\ q.pc = "read" /\ q.ran = rn /\ q.op = req[r].op /\ q.key = req[r].key
          /\ q.id = req[r].id /\ q.got = req[r].got
      BY <1>1, <3>1 DEF Request, Steps
    <3> HIDE DEF q
    <3>3. req' = [req EXCEPT ![r] = q]
      BY <1>1, <2>2 DEF q, rn
    <3>4. req'[r] = q /\ OnlyOf(r)
      BY <1>1, <3>2, <3>3 DEF OnlyOf
    <3> QED
      BY <3>2, <3>4 DEF KeepsId, rn
  <2>3. ASSUME NEW dropped \in SUBSET {s \in Requests : req[s].id = id},
               req' = [s \in Requests |-> IF s \in dropped \cup {r} THEN Done(s, 500) ELSE req[s]]
        PROVE  /\ req' \in [Requests -> Request]
               /\ \A s \in Requests : req'[s] = req[s] \/ (Failed(s) /\ req[s].id = id)
               /\ Failed(r)
    <3>1. \A s \in Requests : Done(s, 500) \in Request /\ Done(s, 500).pc = "done" /\ Done(s, 500).status = 500
      BY DoneFields
    <3> QED
      BY <1>1, <2>3, <3>1 DEF Failed
  <2>4. Reply(r, 202) => Finished(r, 202)
    BY ReplyFinishes
  <2>5. Reply(r, 409) => Finished(r, 409)
    BY ReplyFinishes
  <2>6. (\E dropped \in SUBSET {s \in Requests : req[s].id = id} :
           req' = [s \in Requests |-> IF s \in dropped \cup {r} THEN Done(s, 500) ELSE req[s]])
        => /\ req' \in [Requests -> Request]
           /\ \A s \in Requests : req'[s] = req[s] \/ (Failed(s) /\ req[s].id = id)
           /\ Failed(r)
    BY <2>3
  <2>7. \/ UNCHANGED <<actor, lag>> /\ Finished(r, 409)
        \/ /\ Changed(r)
           /\ \/ /\ UNCHANGED lag /\ OnlyOf(r) /\ KeepsId(r) /\ req'[r].pc = "read"
                 /\ req'[r].ran = <<boot, actor[id].n + 1>> /\ req'[r].got = req[r].got
              \/ lag' = lag \cup {id} /\ Finished(r, 202)
        \/ /\ actor' = [actor EXCEPT ![id].alive = FALSE]
           /\ lag' = lag \cup {id}
           /\ req' \in [Requests -> Request]
           /\ \A s \in Requests : req'[s] = req[s] \/ (Failed(s) /\ req[s].id = id)
           /\ Failed(r)
    <3>1. actor' = [actor EXCEPT ![id].n = @ + 1] => Changed(r)
      BY <1>6 DEF Changed, Alive
    <3> QED
      BY <2>1, <2>2, <2>4, <2>5, <2>6, <3>1
  <2>8. Alive(r)
    BY <1>6 DEF Alive
  <2> QED
    BY <1>2, <2>7, <2>8 DEF Completed, Accepted, Refused, Panicked
<1> QED
  BY <1>3, <1>4, <1>5, <1>6

LEMMA RunEnds ==
  ASSUME TypeOK, OpInv, NEW r \in Requests, RunTransition(r)
  PROVE  req'[r].pc = "done" \/ (req'[r].pc = "read" /\ Completed(r))
<1>1. Completed(r) => req'[r].pc = "read"
  BY DEF Completed
<1>2. Accepted(r) \/ Refused(r) => req'[r].pc = "done"
  BY DEF Accepted, Refused, Finished
<1>3. Panicked(r) => req'[r].pc = "done"
  BY DEF Panicked, Failed
<1> QED
  BY <1>1, <1>2, <1>3, RunDoes

(* ... the actor is read again, ... *)
LEMMA ReadDoes ==
  ASSUME TypeOK, OpInv, NEW r \in Requests, ReadSnapshot(r)
  PROVE  LET id == req[r].id
         IN /\ id \in Ids
            /\ \/ /\ dir[id] # None /\ actor[id].alive
                  /\ OnlyOf(r) /\ KeepsId(r) /\ req'[r].ran = req[r].ran /\ req'[r].got = req[r].got
                  /\ req'[r].pc = "compare" /\ req'[r].snap = Snapshot(id)
               \/ /\ dir[id] = None \/ ~actor[id].alive
                  /\ \E status \in {200, 201, 404, 500, 503} :
                       Finished(r, status) /\ (status = 200 => req[r].op # "transition")
<1> DEFINE id == req[r].id
<1>1. req \in [Requests -> Request] /\ req[r] \in Request /\ boot \in Nat
  BY DEF TypeOK
<1>2. id \in Ids /\ req[r].pc = "read"
  BY DEF OpInv, OpAt, ReadSnapshot, Step, Steps
<1>3. actor[id].n \in Nat /\ actor[id].alive \in BOOLEAN
  BY <1>2 DEF TypeOK
<1>4. CASE dir[id] # None /\ actor[id].alive
  <2> DEFINE sn == Snapshot(id)
             q == [req[r] EXCEPT !.pc = "compare", !.snap = sn]
  <2>1. sn \in Snapshots
    BY <1>1, <1>3 DEF Snapshots, Snapshot
  <2>2. req' = [req EXCEPT ![r].pc = "compare", ![r].snap = sn]
    BY <1>4 DEF ReadSnapshot
  <2> HIDE DEF sn
  <2>3. /\ q \in Request /\ q.pc = "compare" /\ q.snap = sn /\ q.op = req[r].op /\ q.key = req[r].key
        /\ q.id = req[r].id /\ q.got = req[r].got /\ q.ran = req[r].ran
    BY <1>1, <2>1 DEF Request, Steps
  <2> HIDE DEF q
  <2>4. req' = [req EXCEPT ![r] = q]
    BY <1>1, <2>2 DEF q
  <2>5. req'[r] = q /\ OnlyOf(r)
    BY <1>1, <2>3, <2>4 DEF OnlyOf
  <2> QED
    BY <1>2, <1>4, <2>3, <2>5 DEF KeepsId, sn
<1>5. CASE dir[id] = None \/ ~actor[id].alive
  <2>1. \/ Reply(r, 404) \/ Reply(r, 500) \/ Reply(r, 503)
        \/ req[r].op # "transition" /\ (Reply(r, 200) \/ Reply(r, 201))
    BY <1>5 DEF ReadSnapshot, Status
  <2>2. \A status \in {200, 201, 404, 500, 503} : Reply(r, status) => Finished(r, status)
    BY ReplyFinishes
  <2> QED
    BY <1>2, <1>5, <2>1, <2>2
<1> QED
  BY <1>3, <1>4, <1>5

(* ... a list reads its entries and stores them one by one.                 *)
LEMMA ListReadDoes ==
  ASSUME TypeOK, NEW r \in Requests, ListRead(r)
  PROVE  \E id \in Ids :
           /\ OnlyOf(r) /\ KeepsId(r) /\ req'[r].pc = "list" /\ req'[r].ran = req[r].ran
           /\ req'[r].got = IF actor[id].alive THEN req[r].got \cup {[id |-> id, snap |-> Snapshot(id)]}
                            ELSE req[r].got
           /\ lag' = lag \cup Touch(r, id)
<1>1. req \in [Requests -> Request] /\ req[r] \in Request /\ boot \in Nat
  BY DEF TypeOK
<1>2. PICK id \in req[r].todo :
        /\ req' = [req EXCEPT ![r].todo = @ \ {id},
                              ![r].got = IF actor[id].alive THEN @ \cup {[id |-> id, snap |-> Snapshot(id)]} ELSE @]
        /\ lag' = lag \cup Touch(r, id)
  BY DEF ListRead
<1> DEFINE td == req[r].todo \ {id}
           gt == IF actor[id].alive THEN req[r].got \cup {[id |-> id, snap |-> Snapshot(id)]} ELSE req[r].got
           q == [req[r] EXCEPT !.todo = td, !.got = gt]
<1>3. id \in Ids /\ req[r].got \in SUBSET [id : Ids, snap : Snapshots] /\ td \in SUBSET Ids
  BY <1>1, <1>2 DEF Request
<1>4. gt \in SUBSET [id : Ids, snap : Snapshots]
  <2>1. actor[id].n \in Nat
    BY <1>3 DEF TypeOK
  <2>2. Snapshot(id) \in Snapshots
    BY <1>1, <2>1 DEF Snapshot, Snapshots
  <2> QED
    BY <1>3, <2>2
<1>5. req' = [req EXCEPT ![r] = q]
  <2>1. req' = [req EXCEPT ![r].todo = td, ![r].got = gt]
    BY <1>1, <1>2
  <2> QED
    BY <1>1, <2>1
<1> HIDE DEF td, gt
<1>6. /\ q \in Request /\ q.pc = req[r].pc /\ q.op = req[r].op /\ q.key = req[r].key /\ q.id = req[r].id
      /\ q.ran = req[r].ran /\ q.got = gt
  BY <1>1, <1>3, <1>4 DEF Request
<1> HIDE DEF q
<1>7. req'[r] = q /\ OnlyOf(r)
  BY <1>1, <1>5, <1>6 DEF OnlyOf
<1>8. req[r].pc = "list"
  BY DEF ListRead, Step
<1> QED
  BY <1>2, <1>3, <1>6, <1>7, <1>8 DEF KeepsId, gt

LEMMA ListKeepDoes ==
  ASSUME TypeOK, NEW r \in Requests, ListKeep(r)
  PROVE  \/ Finished(r, 200)
         \/ \E g \in req[r].got :
              /\ g.id \in Ids /\ g.snap \in Snapshots
              /\ OnlyOf(r) /\ req'[r].pc = "compare" /\ req'[r].op = req[r].op /\ req'[r].key = req[r].key
              /\ req'[r].id = g.id /\ req'[r].snap = g.snap /\ req'[r].ran = req[r].ran
              /\ req'[r].got \subseteq req[r].got
<1>1. req \in [Requests -> Request] /\ req[r] \in Request
  BY DEF TypeOK
<1>2. CASE req[r].got = {}
  BY <1>2, ReplyFinishes DEF ListKeep
<1>3. CASE req[r].got # {}
  <2>1. PICK g \in req[r].got :
          req' = [req EXCEPT ![r].got = @ \ {g}, ![r].id = g.id, ![r].snap = g.snap, ![r].pc = "compare"]
    BY <1>3 DEF ListKeep
  <2> DEFINE gt == req[r].got \ {g}
             q == [req[r] EXCEPT !.got = gt, !.id = g.id, !.snap = g.snap, !.pc = "compare"]
  <2>2. /\ g.id \in Ids /\ g.snap \in Snapshots /\ gt \subseteq req[r].got
        /\ gt \in SUBSET [id : Ids, snap : Snapshots]
    BY <1>1 DEF Request
  <2>3. req' = [req EXCEPT ![r] = q]
    BY <1>1, <2>1
  <2> HIDE DEF gt
  <2>4. /\ q \in Request /\ q.pc = "compare" /\ q.op = req[r].op /\ q.key = req[r].key /\ q.id = g.id
        /\ q.snap = g.snap /\ q.ran = req[r].ran /\ q.got = gt
    BY <1>1, <2>2 DEF Request, Steps
  <2> HIDE DEF q
  <2>5. req'[r] = q /\ OnlyOf(r)
    BY <1>1, <2>3, <2>4 DEF OnlyOf
  <2> QED
    BY <2>2, <2>4, <2>5
<1> QED
  BY <1>2, <1>3

(* The other steps only move the request on or answer it. *)
LEMMA MoveDoes ==
  ASSUME TypeOK, OpInv, NEW r \in Requests
  PROVE  /\ PutCheck(r) => Finished(r, 409) \/ Moved(r, "write")
         /\ PutWrite(r) => Moved(r, "insert")
         /\ PutFails(r) => Finished(r, 500)
         /\ Insert(r) => Finished(r, 409) \/ Moved(r, "first")
         /\ Compare(r) \/ Upsert(r) \/ UpsertFails(r) =>
              \/ Moved(r, "upsert") /\ Compare(r) /\ latest[req[r].id] # req[r].snap
              \/ Moved(r, "keep") /\ req[r].op = "list"
              \/ Moved(r, "read") /\ req[r].pc = "store"
              \/ Moved(r, "answer") /\ req[r].op # "list"
         /\ Answer(r) => (IF req[r].op = "register" THEN Finished(r, 201) ELSE Finished(r, 200))
         /\ ListReadDone(r) => Moved(r, "keep")
<1>1. \A p \in Steps : Goto(r, p) => Moved(r, p)
  BY GotoMoves
<1>2. \A status \in Nat : Reply(r, status) => Finished(r, status)
  BY ReplyFinishes
<1>3. {"write", "insert", "first", "upsert", "keep", "read", "answer"} \subseteq Steps
  BY DEF Steps, Registering
<1>4. PutCheck(r) => Finished(r, 409) \/ Moved(r, "write")
  BY <1>1, <1>2, <1>3 DEF PutCheck
<1>5. PutWrite(r) => Moved(r, "insert")
  BY <1>1, <1>3 DEF PutWrite
<1>6. PutFails(r) => Finished(r, 500)
  BY <1>2 DEF PutFails
<1>7. Insert(r) => Finished(r, 409) \/ Moved(r, "first")
  BY <1>1, <1>2, <1>3 DEF Insert
<1>8. ASSUME Compare(r) \/ Upsert(r) \/ UpsertFails(r)
      PROVE  \/ Moved(r, "upsert") /\ Compare(r) /\ latest[req[r].id] # req[r].snap
             \/ Moved(r, "keep") /\ req[r].op = "list"
             \/ Moved(r, "read") /\ req[r].pc = "store"
             \/ Moved(r, "answer") /\ req[r].op # "list"
  BY <1>1, <1>3, <1>8 DEF Compare, Upsert, UpsertFails, AfterStore
<1>9. Answer(r) => (IF req[r].op = "register" THEN Finished(r, 201) ELSE Finished(r, 200))
  BY <1>2 DEF Answer, Status
<1>10. ListReadDone(r) => Moved(r, "keep")
  BY <1>1, <1>3 DEF ListReadDone
<1> QED
  BY <1>4, <1>5, <1>6, <1>7, <1>8, <1>9, <1>10

-----------------------------------------------------------------------------
(* Types. *)
LEMMA InitType == Init => TypeOK
<1> SUFFICES ASSUME Init PROVE TypeOK
  OBVIOUS
<1>1. Idle \in Request
  BY DEF Idle, Request, Ops
<1> QED
  BY <1>1 DEF Init, TypeOK, Gone

LEMMA ServerStepType ==
  ASSUME TypeOK, \/ Start \/ WriteSentinel \/ WriteNodeConfig \/ Halt
                 \/ \E c \in config : Resolve(c) \/ BuildFails(c)
  PROVE  TypeOK'
<1>1. Idle \in Request /\ Gone \in [alive : BOOLEAN, n : Nat]
  BY DEF Idle, Request, Ops, Gone
<1>2. CASE Start
  <2>1. config' \subseteq [key : Keys, id : Given \cup {None}] /\ boot' \in Nat
    <3>1. config' \in Configs /\ boot' = boot + 1
      BY <1>2 DEF Start
    <3>2. \A c \in Configs : c \subseteq [key : Keys, id : Given \cup {None}]
      BY ServerAssumption
    <3> QED
      BY <3>1, <3>2 DEF TypeOK
  <2> QED
    BY <1>2, <2>1 DEF Start, TypeOK, tables
<1>3. ASSUME NEW c \in config, Resolve(c)
      PROVE  TypeOK'
  <2>1. PICK id : /\ identities' = PutRow(identities, id, c.key)
                  /\ dir' = [dir EXCEPT ![id] = c.key]
                  /\ actor' = [actor EXCEPT ![id] = [alive |-> TRUE, n |-> 0]]
    BY <1>3 DEF Resolve
  <2>2. c.key \in Keys
    BY <1>3 DEF TypeOK
  <2>3. /\ identities' \in [Ids -> Keys \cup {None}] /\ dir' \in [Ids -> Keys \cup {None}]
        /\ actor' \in [Ids -> [alive : BOOLEAN, n : Nat]]
    BY <2>1, <2>2 DEF TypeOK, PutRow
  <2> QED
    BY <1>3, <2>3 DEF Resolve, TypeOK, history
<1>4. ASSUME NEW c \in config, BuildFails(c)
      PROVE  TypeOK'
  BY <1>1, <1>4 DEF BuildFails, TypeOK, tables, history
<1>5. CASE WriteSentinel
  BY <1>5 DEF WriteSentinel, TypeOK, history
<1>6. CASE WriteNodeConfig
  BY <1>6 DEF WriteNodeConfig, TypeOK
<1>7. CASE Halt
  BY <1>1, <1>7 DEF Halt, TypeOK, tables
<1> QED
  BY <1>2, <1>3, <1>4, <1>5, <1>6, <1>7

(* A step of a request changes that request, except that a panic also fails *)
(* others; it runs only while the server is up.                             *)
LEMMA ServeReq ==
  ASSUME TypeOK, OpInv, NEW r \in Requests, Serve(r)
  PROVE  /\ phase = "up" /\ UNCHANGED <<boot, phase, config>>
         /\ req' \in [Requests -> Request]
         /\ \A s \in Requests : s # r => req'[s] = req[s] \/ Failed(s)
         /\ ~RunTransition(r) => OnlyOf(r)
<1>1. phase = "up" /\ UNCHANGED <<boot, phase, config>>
  BY DEF Serve, Arrive, Lookup, PutCheck, PutWrite, PutFails, Insert, FirstRead, RunTransition, ReadSnapshot,
         Compare, Upsert, UpsertFails, Answer, ListRead, ListReadDone, ListKeep, Step, process
<1>3. CASE OnlyOf(r)
  BY <1>1, <1>3 DEF OnlyOf
<1>4. CASE RunTransition(r)
  BY <1>1, <1>3, <1>4, RunDoes DEF Finished, Completed, Accepted, Refused, Panicked
<1>5. CASE Arrive(r)
  BY <1>3, <1>5, ArriveDoes
<1>6. CASE Lookup(r)
  BY <1>3, <1>6, LookupDoes DEF Finished, Placed
<1>7. CASE FirstRead(r)
  BY <1>3, <1>7, FirstReadDoes
<1>8. CASE ReadSnapshot(r)
  BY <1>3, <1>8, ReadDoes DEF Finished
<1>9. CASE ListRead(r)
  BY <1>3, <1>9, ListReadDoes
<1>10. CASE ListKeep(r)
  BY <1>3, <1>10, ListKeepDoes DEF Finished
<1>11. CASE \/ PutCheck(r) \/ PutWrite(r) \/ PutFails(r) \/ Insert(r) \/ Compare(r) \/ Upsert(r)
            \/ UpsertFails(r) \/ Answer(r) \/ ListReadDone(r)
  BY <1>3, <1>11, MoveDoes DEF Finished, Moved
<1> QED
  BY <1>4, <1>5, <1>6, <1>7, <1>8, <1>9, <1>10, <1>11 DEF Serve

LEMMA ServeType ==
  ASSUME TypeOK, OpInv, NEW r \in Requests, Serve(r)
  PROVE  TypeOK'
<1>1. /\ UNCHANGED <<boot, phase, config>> /\ req' \in [Requests -> Request]
  BY ServeReq
<1>2. ASSUME NEW id \in Ids PROVE Touch(r, id) \subseteq Ids
  BY DEF Touch
<1>3. lag' \subseteq Ids
  <2>1. lag \subseteq Ids
    BY DEF TypeOK
  <2>2. CASE UNCHANGED lag
    BY <2>1, <2>2
  <2>3. CASE Arrive(r)
    <3>1. PICK i \in Inputs : lag' = lag \cup (IF i.id # None THEN Touch(r, i.id) ELSE {})
      BY <2>3, ArriveDoes
    <3>2. i.id \in Ids \cup {None}
      BY ServerAssumption
    <3> QED
      BY <1>2, <2>1, <3>1, <3>2
  <2>4. CASE Lookup(r)
    BY <1>2, <2>1, <2>4, LookupDoes DEF Lookup, history
  <2>5. CASE RunTransition(r)
    BY <2>1, <2>5, RunDoes DEF Completed, Accepted, Refused, Panicked
  <2>6. CASE UpsertFails(r)
    <3>1. req[r].id \in Ids
      BY <2>6 DEF OpInv, OpAt, UpsertFails, Step, Steps, Registering
    <3> QED
      BY <2>1, <2>6, <3>1 DEF UpsertFails
  <2>7. CASE ListRead(r)
    BY <1>2, <2>1, <2>7, ListReadDoes
  <2> QED
    BY <2>2, <2>3, <2>4, <2>5, <2>6, <2>7
       DEF Serve, PutCheck, PutWrite, PutFails, Insert, FirstRead, ReadSnapshot, Compare, Upsert, Answer,
           ListReadDone, ListKeep, history
<1>4. raced' \subseteq Keys \cup {None}
  <2>1. CASE Arrive(r)
    <3>1. PICK i \in Inputs : raced' = raced \cup Races(i)
      BY <2>1, ArriveDoes
    <3>2. i.key \in Keys \cup {None}
      BY ServerAssumption
    <3>3. \A s \in Requests : req[s].key \in Keys \cup {None}
      BY DEF TypeOK, Request
    <3>4. Races(i) \subseteq Keys \cup {None}
      BY <3>2, <3>3 DEF Races
    <3> QED
      BY <3>1, <3>4 DEF TypeOK
  <2>2. CASE ~Arrive(r)
    <3>1. UNCHANGED raced
      BY <2>2 DEF Serve, Lookup, PutCheck, PutWrite, PutFails, Insert, FirstRead, RunTransition, ReadSnapshot,
                  Compare, Upsert, UpsertFails, Answer, ListRead, ListReadDone, ListKeep, history
    <3> QED
      BY <3>1 DEF TypeOK
  <2> QED
    BY <2>1, <2>2
<1>5. faults' \in Nat
  <2>1. faults' = faults \/ faults' = faults + 1
    BY DEF Serve, Arrive, Lookup, PutCheck, PutWrite, PutFails, Insert, FirstRead, RunTransition, ReadSnapshot,
           Compare, Upsert, UpsertFails, Answer, ListRead, ListReadDone, ListKeep
  <2> QED
    BY <2>1 DEF TypeOK
<1>6. identities' \in [Ids -> Keys \cup {None}]
  <2>1. CASE PutWrite(r)
    <3>1. req[r].key \in Keys
      BY <2>1 DEF OpInv, OpAt, PutWrite, Step, Registering, InFlight
    <3> QED
      BY <2>1, <3>1 DEF PutWrite, PutRow, TypeOK
  <2>2. CASE ~PutWrite(r)
    <3>1. UNCHANGED identities
      BY <2>2 DEF Serve, Arrive, Lookup, PutCheck, PutFails, Insert, FirstRead, RunTransition, ReadSnapshot,
                  Compare, Upsert, UpsertFails, Answer, ListRead, ListReadDone, ListKeep, tables
    <3> QED
      BY <3>1 DEF TypeOK
  <2> QED
    BY <2>1, <2>2
<1>7. latest' \in [Ids -> Snapshots \cup {None}]
  <2>1. CASE Upsert(r)
    <3>1. req[r].snap \in Snapshots
      BY <2>1 DEF OpInv, OpAt, Upsert, Step
    <3> QED
      BY <2>1, <3>1 DEF Upsert, PutRow, TypeOK
  <2>2. CASE ~Upsert(r)
    <3>1. UNCHANGED latest
      BY <2>2 DEF Serve, Arrive, Lookup, PutCheck, PutWrite, PutFails, Insert, FirstRead, RunTransition,
                  ReadSnapshot, Compare, UpsertFails, Answer, ListRead, ListReadDone, ListKeep, tables
    <3> QED
      BY <3>1 DEF TypeOK
  <2> QED
    BY <2>1, <2>2
<1>8. dir' \in [Ids -> Keys \cup {None}] /\ actor' \in [Ids -> [alive : BOOLEAN, n : Nat]]
  <2>0. dir \in [Ids -> Keys \cup {None}] /\ actor \in [Ids -> [alive : BOOLEAN, n : Nat]]
    BY DEF TypeOK
  <2>1. CASE Insert(r)
    <3>1. req[r].key \in Keys
      BY <2>1 DEF OpInv, OpAt, Insert, Step, Registering, InFlight
    <3>2. [alive |-> TRUE, n |-> 0] \in [alive : BOOLEAN, n : Nat]
      OBVIOUS
    <3>3. \/ UNCHANGED <<dir, actor>>
          \/ /\ dir' = [dir EXCEPT ![req[r].id] = req[r].key]
             /\ actor' = [actor EXCEPT ![req[r].id] = [alive |-> TRUE, n |-> 0]]
      BY <2>1 DEF Insert
    <3> QED
      BY <2>0, <3>1, <3>2, <3>3
  <2>2. CASE RunTransition(r)
    <3>1. UNCHANGED dir
      BY <2>2 DEF RunTransition
    <3>2. /\ req[r].id \in Ids
          /\ \/ UNCHANGED actor
             \/ actor' = [actor EXCEPT ![req[r].id].n = @ + 1]
             \/ actor' = [actor EXCEPT ![req[r].id].alive = FALSE]
      BY <2>2, RunDoes DEF Completed, Accepted, Refused, Panicked, Changed
    <3>3. ASSUME NEW a \in [alive : BOOLEAN, n : Nat]
          PROVE  /\ [a EXCEPT !.n = @ + 1] \in [alive : BOOLEAN, n : Nat]
                 /\ [a EXCEPT !.alive = FALSE] \in [alive : BOOLEAN, n : Nat]
      <4>1. a.alive \in BOOLEAN /\ a.n \in Nat /\ a.n + 1 \in Nat
        OBVIOUS
      <4>2. [a EXCEPT !.n = @ + 1] \in [alive : BOOLEAN, n : Nat]
        BY <4>1
      <4>3. [a EXCEPT !.alive = FALSE] \in [alive : BOOLEAN, n : Nat]
        BY <4>1, Zenon
      <4> QED
        BY <4>2, <4>3
    <3>4. /\ [actor[req[r].id] EXCEPT !.n = @ + 1] \in [alive : BOOLEAN, n : Nat]
          /\ [actor[req[r].id] EXCEPT !.alive = FALSE] \in [alive : BOOLEAN, n : Nat]
      BY <2>0, <3>2, <3>3
    <3> QED
      BY <2>0, <3>1, <3>2, <3>4
  <2>3. CASE ~Insert(r) /\ ~RunTransition(r)
    <3>1. UNCHANGED <<dir, actor>>
      BY <2>3 DEF Serve, Arrive, Lookup, PutCheck, PutWrite, PutFails, FirstRead, ReadSnapshot,
                  Compare, Upsert, UpsertFails, Answer, ListRead, ListReadDone, ListKeep, process
    <3> QED
      BY <2>0, <3>1
  <2> QED
    BY <2>1, <2>2, <2>3
<1> QED
  BY <1>1, <1>3, <1>4, <1>5, <1>6, <1>7, <1>8 DEF TypeOK

(* Every step of a request leaves it at a step of its operation. *)
LEMMA ServeOp ==
  ASSUME TypeOK, OpInv, NEW r \in Requests, Serve(r)
  PROVE  OpInv'
<1>1. /\ phase = "up" /\ phase' = "up"
      /\ \A s \in Requests : s # r => req'[s] = req[s] \/ Failed(s)
  BY ServeReq
<1>2. OpAt(r)
  BY DEF OpInv
<1>3. \A s \in Requests : s # r => OpAt(s)'
  BY <1>1 DEF OpInv, OpAt, Failed, InFlight, Steps, Registering
<1> SUFFICES OpAt(r)'
  BY <1>3 DEF OpInv
<1>4. ASSUME NEW status, Finished(r, status)
      PROVE  OpAt(r)'
  BY <1>1, <1>4 DEF Finished, OpAt, InFlight, Steps, Registering
<1>5. CASE Arrive(r)
  <2>1. PICK i \in Inputs : Entered(r, i) \/ req'[r].pc = "done"
    BY <1>5, ArriveDoes
  <2>2. CASE req'[r].pc = "done"
    BY <1>1, <2>2 DEF OpAt, InFlight, Steps, Registering
  <2>3. CASE Entered(r, i)
    <3>1. /\ i.op = "register" => i.key \in Keys /\ i.id \in Given \cup {None}
          /\ i.op \in {"get", "transition"} => i.id \in Ids
      BY ServerAssumption
    <3> QED
      BY <1>1, <2>3, <3>1 DEF Entered, OpAt, InFlight, Steps, Registering
  <2> QED
    BY <2>1, <2>2, <2>3
<1>6. CASE Lookup(r)
  <2>1. req[r].pc = "lookup"
    BY <1>6 DEF Lookup, Step
  <2>2. ASSUME NEW id \in Ids, NEW p \in {"insert", "check"}, Placed(r, id, p)
        PROVE  OpAt(r)'
    BY <1>1, <1>2, <2>1, <2>2 DEF Placed, OpAt, InFlight, Steps, Registering
  <2> QED
    BY <1>4, <1>6, <2>2, LookupDoes
<1>7. CASE PutCheck(r) \/ PutWrite(r) \/ PutFails(r) \/ Insert(r)
  <2>1. req[r].pc \in {"check", "write", "insert"}
    BY <1>7 DEF PutCheck, PutWrite, PutFails, Insert, Step
  <2>2. ASSUME NEW p \in {"write", "insert", "first"}, Moved(r, p)
        PROVE  OpAt(r)'
    BY <1>1, <1>2, <2>1, <2>2 DEF Moved, KeepsId, OpAt, InFlight, Steps, Registering
  <2> QED
    BY <1>4, <1>7, <2>2, MoveDoes
<1>8. CASE FirstRead(r)
  <2>1. req[r].pc = "first"
    BY <1>8 DEF FirstRead, Step
  <2>2. req'[r].pc \in {"store", "read"} /\ KeepsId(r) /\ (req'[r].pc = "store" => req'[r].snap = Snapshot(req[r].id))
    BY <1>8, FirstReadDoes
  <2>3. Snapshot(req[r].id) \in Snapshots
    BY <1>2, <2>1 DEF OpAt, Snapshot, Snapshots, TypeOK, Steps, Registering
  <2> QED
    BY <1>1, <1>2, <2>1, <2>2, <2>3 DEF KeepsId, OpAt, InFlight, Steps, Registering
<1>9. CASE RunTransition(r)
  <2>1. req[r].pc = "run"
    BY <1>9 DEF RunTransition, Step
  <2>2. CASE req'[r].pc = "read" /\ KeepsId(r)
    BY <1>1, <1>2, <2>1, <2>2 DEF KeepsId, OpAt, InFlight, Steps, Registering
  <2>3. CASE Failed(r)
    BY <1>1, <2>3 DEF Failed, OpAt, InFlight, Steps, Registering
  <2>4. CASE Accepted(r) \/ Refused(r)
    BY <1>4, <2>4 DEF Accepted, Refused
  <2> QED
    BY <1>9, <2>2, <2>3, <2>4, RunDoes DEF Completed, Panicked
<1>10. CASE ReadSnapshot(r)
  <2>1. req[r].pc = "read"
    BY <1>10 DEF ReadSnapshot, Step
  <2>2. CASE req'[r].pc = "compare" /\ KeepsId(r) /\ req'[r].snap = Snapshot(req[r].id)
    <3>1. Snapshot(req[r].id) \in Snapshots
      BY <1>2, <2>1 DEF OpAt, Snapshot, Snapshots, TypeOK, Steps, Registering
    <3> QED
      BY <1>1, <1>2, <2>1, <2>2, <3>1 DEF KeepsId, OpAt, InFlight, Steps, Registering
  <2> QED
    BY <1>4, <1>10, <2>2, ReadDoes
<1>11. CASE Compare(r) \/ Upsert(r) \/ UpsertFails(r)
  <2>1. req[r].pc \in {"compare", "upsert", "store"}
    BY <1>11 DEF Compare, Upsert, UpsertFails, Step
  <2>2. \/ Moved(r, "upsert")
        \/ Moved(r, "keep") /\ req[r].op = "list"
        \/ Moved(r, "read") /\ req[r].pc = "store"
        \/ Moved(r, "answer") /\ req[r].op # "list"
    BY <1>11, MoveDoes
  <2> QED
    BY <1>1, <1>2, <2>1, <2>2 DEF Moved, KeepsId, KeepsData, OpAt, InFlight, Steps, Registering
<1>12. CASE Answer(r)
  BY <1>4, <1>12, MoveDoes
<1>13. CASE ListRead(r)
  <2>1. req[r].pc = "list"
    BY <1>13 DEF ListRead, Step
  <2>2. req'[r].pc = "list" /\ KeepsId(r)
    BY <1>13, ListReadDoes
  <2> QED
    BY <1>1, <1>2, <2>1, <2>2 DEF KeepsId, OpAt, InFlight, Steps, Registering
<1>14. CASE ListReadDone(r)
  <2>1. req[r].pc = "list" /\ Moved(r, "keep")
    BY <1>14, MoveDoes DEF ListReadDone, Step
  <2> QED
    BY <1>1, <1>2, <2>1 DEF Moved, KeepsId, OpAt, InFlight, Steps, Registering
<1>15. CASE ListKeep(r)
  <2>1. req[r].pc = "keep"
    BY <1>15 DEF ListKeep, Step
  <2>2. CASE Finished(r, 200)
    BY <1>4, <2>2
  <2>3. CASE /\ req'[r].pc = "compare" /\ req'[r].op = req[r].op /\ req'[r].key = req[r].key
             /\ req'[r].id \in Ids /\ req'[r].snap \in Snapshots
    BY <1>1, <1>2, <2>1, <2>3 DEF OpAt, InFlight, Steps, Registering
  <2> QED
    BY <1>15, <2>2, <2>3, ListKeepDoes
<1> QED
  BY <1>5, <1>6, <1>7, <1>8, <1>9, <1>10, <1>11, <1>12, <1>13, <1>14, <1>15 DEF Serve

LEMMA ServerStepOp ==
  ASSUME TypeOK, OpInv, \/ Start \/ WriteSentinel \/ WriteNodeConfig \/ Halt
                        \/ \E c \in config : Resolve(c) \/ BuildFails(c)
  PROVE  OpInv'
<1>1. CASE Halt
  <2>1. \A r \in Requests : req'[r].pc = "idle"
    BY <1>1 DEF Halt, Idle
  <2> QED
    BY <2>1 DEF OpInv, OpAt, InFlight, Steps, Registering
<1>2. CASE ~Halt
  <2>1. UNCHANGED req /\ phase # "up"
    BY <1>2 DEF Start, WriteSentinel, WriteNodeConfig, Resolve, BuildFails, Pending
  <2>2. \A r \in Requests : req'[r].pc = "idle"
    BY <2>1 DEF OpInv, OpAt
  <2> QED
    BY <2>2 DEF OpInv, OpAt, InFlight, Steps, Registering
<1> QED
  BY <1>1, <1>2

-----------------------------------------------------------------------------
(* The node id: what the tables give a start without an explicit id is the  *)
(* id to keep, before and after each row of persist_local_node_config.      *)
NodeInv ==
  /\ sentinel \in NodeIds \cup {None}
  /\ sentinel = None => nodes \in Seq(NodeIds)
  /\ served # None => GetLocal(sentinel, nodes) = served
  /\ phase # "down" => nodeId \in NodeIds
  /\ phase # "down" /\ served # None => nodeId = served
  /\ phase \in {"sentinel", "up"} => sentinel = nodeId

LEMMA InitNode == Init => NodeInv
  BY ServerAssumption DEF Init, NodeInv

LEMMA NodeStep ==
  ASSUME TypeOK, NodeInv, [Next]_vars
  PROVE  NodeInv'
<1>1. None \notin NodeIds /\ ExplicitNodes \subseteq NodeIds \cup {None}
  BY ServerAssumption
<1>2. CASE Start
  <2>1. PICK e \in ExplicitNodes, fresh \in FreshNode :
          /\ nodeId' = ResolveNodeId(e, GetLocal(sentinel, nodes), fresh)
          /\ served' = IF e # None THEN None ELSE served
    BY <1>2 DEF Start
  <2>2. UNCHANGED <<sentinel, nodes>> /\ phase' = "resolving"
    BY <1>2 DEF Start, tables
  <2>3. GetLocal(sentinel, nodes) \in NodeIds \cup {None}
    <3>1. CASE sentinel # None
      BY <3>1 DEF GetLocal, NodeInv
    <3>2. CASE sentinel = None
      <4>1. nodes \in Seq(NodeIds)
        BY <3>2 DEF NodeInv
      <4> QED
        BY <3>2, <4>1 DEF GetLocal
    <3> QED
      BY <3>1, <3>2
  <2>4. fresh \in NodeIds
    BY DEF FreshNode
  <2>5. nodeId' \in NodeIds /\ (served' # None => nodeId' = served')
    BY <1>1, <2>1, <2>3, <2>4 DEF ResolveNodeId, NodeInv
  <2>6. served' # None => GetLocal(sentinel', nodes') = served'
    BY <2>1, <2>2 DEF NodeInv
  <2> QED
    BY <2>2, <2>5, <2>6 DEF NodeInv
<1>3. CASE WriteSentinel
  BY <1>1, <1>3 DEF WriteSentinel, NodeInv, GetLocal, history
<1>4. CASE WriteNodeConfig
  BY <1>1, <1>4 DEF WriteNodeConfig, NodeInv, GetLocal
<1>5. CASE UNCHANGED <<sentinel, nodes, served>> /\ phase' = "down"
  BY <1>5 DEF NodeInv, GetLocal
<1>6. CASE UNCHANGED <<sentinel, nodes, served, phase, nodeId>>
  BY <1>6 DEF NodeInv, GetLocal
<1>7. ASSUME NEW r \in Requests, Serve(r)
      PROVE  UNCHANGED <<sentinel, nodes, served, phase, nodeId>>
  BY <1>7 DEF Serve, Arrive, Lookup, PutCheck, PutWrite, PutFails, Insert, FirstRead, RunTransition,
              ReadSnapshot, Compare, Upsert, UpsertFails, Answer, ListRead, ListReadDone, ListKeep, process,
              tables, history
<1>8. ASSUME NEW c \in config, Resolve(c)
      PROVE  UNCHANGED <<sentinel, nodes, served, phase, nodeId>>
  BY <1>8 DEF Resolve, history
<1>9. ASSUME NEW c \in config, BuildFails(c)
      PROVE  UNCHANGED <<sentinel, nodes, served>> /\ phase' = "down"
  BY <1>9 DEF BuildFails, tables, history
<1>10. CASE Halt
  BY <1>5, <1>10 DEF Halt, tables
<1>11. CASE UNCHANGED vars
  BY <1>6, <1>11 DEF vars, tables, process, history
<1> QED
  BY <1>2, <1>3, <1>4, <1>5, <1>6, <1>7, <1>8, <1>9, <1>10, <1>11 DEF Next

-----------------------------------------------------------------------------
(* Put before register_with_id: whoever is about to enter the directory has *)
(* a record, and what is alive is in the directory of a running process.    *)
DirInv ==
  /\ IdentityFirst
  /\ \A r \in Requests : req[r].pc = "insert" => identities[req[r].id] # None
  /\ \A id \in Ids : actor[id].alive => dir[id] # None
  /\ phase = "down" => \A id \in Ids : ~actor[id].alive

LEMMA InitDir == Init => DirInv
  BY DEF Init, DirInv, IdentityFirst, Idle, Gone

(* A record is never deleted. *)
LEMMA RecordsStay ==
  ASSUME TypeOK, OpInv, [Next]_vars, NEW id \in Ids, identities[id] # None
  PROVE  identities'[id] # None
<1>1. identities \in [Ids -> Keys \cup {None}] /\ None \notin Keys
  BY RepositoriesAssumption DEF TypeOK
<1>2. ASSUME NEW r \in Requests, PutWrite(r)
      PROVE  identities'[id] # None
  <2>1. req[r].key \in Keys
    BY <1>2 DEF OpInv, OpAt, PutWrite, Step, Registering, InFlight
  <2> QED
    BY <1>1, <1>2, <2>1 DEF PutWrite, PutRow
<1>3. ASSUME NEW c \in config, Resolve(c)
      PROVE  identities'[id] # None
  <2>1. c.key \in Keys
    BY DEF TypeOK
  <2> QED
    BY <1>1, <1>3, <2>1 DEF Resolve, PutRow
<1>4. ASSUME NEW r \in Requests, Serve(r), ~PutWrite(r)
      PROVE  UNCHANGED identities
  BY <1>4 DEF Serve, Arrive, Lookup, PutCheck, PutFails, Insert, FirstRead, RunTransition, ReadSnapshot, Compare,
              Upsert, UpsertFails, Answer, ListRead, ListReadDone, ListKeep, tables
<1>5. ASSUME \/ Start \/ WriteSentinel \/ WriteNodeConfig \/ Halt \/ UNCHANGED vars
             \/ \E c \in config : BuildFails(c)
      PROVE  UNCHANGED identities
  BY <1>5 DEF Start, WriteSentinel, WriteNodeConfig, Halt, BuildFails, tables, vars
<1> QED
  BY <1>2, <1>3, <1>4, <1>5 DEF Next

LEMMA DirStep ==
  ASSUME TypeOK, OpInv, DirInv, [Next]_vars
  PROVE  DirInv'
<1>1. /\ identities \in [Ids -> Keys \cup {None}] /\ None \notin Keys
      /\ dir \in [Ids -> Keys \cup {None}] /\ actor \in [Ids -> [alive : BOOLEAN, n : Nat]]
      /\ req \in [Requests -> Request]
  BY RepositoriesAssumption DEF TypeOK
<1>2. \A id \in Ids : identities[id] # None => identities'[id] # None
  BY RecordsStay
<1>3. ASSUME NEW r \in Requests, Serve(r)
      PROVE  DirInv'
  <2>1. phase = "up" /\ phase' = "up"
    BY <1>3, ServeReq
  <2>2. \A s \in Requests : s # r => req'[s] = req[s] \/ req'[s].pc = "done"
    BY <1>3, ServeReq DEF Failed
  <2>3. req'[r].pc = "insert" => req'[r].id \in Ids /\ identities'[req'[r].id] # None
    <3>1. CASE Lookup(r)
      <4>1. UNCHANGED identities /\ req[r].key \in Keys
        BY <3>1 DEF Lookup, tables, OpInv, OpAt, Step, Registering, InFlight
      <4> QED
        BY <1>1, <3>1, <4>1, LookupDoes DEF Finished, Placed
    <3>2. CASE PutWrite(r)
      <4>1. req[r].key \in Keys /\ req[r].id \in Ids
        BY <3>2 DEF OpInv, OpAt, PutWrite, Step, Steps, Registering, InFlight
      <4>2. req'[r].id = req[r].id
        BY <3>2, MoveDoes DEF Moved, KeepsId
      <4> QED
        BY <1>1, <3>2, <4>1, <4>2 DEF PutWrite, PutRow
    <3>3. CASE Arrive(r)
      BY <3>3, ArriveDoes DEF Entered
    <3>4. CASE RunTransition(r)
      BY <3>4, RunEnds
    <3>5. CASE FirstRead(r)
      BY <3>5, FirstReadDoes
    <3>6. CASE ReadSnapshot(r)
      BY <3>6, ReadDoes DEF Finished
    <3>7. CASE ListRead(r)
      BY <3>7, ListReadDoes
    <3>8. CASE ListKeep(r)
      BY <3>8, ListKeepDoes DEF Finished
    <3>9. CASE \/ PutCheck(r) \/ PutFails(r) \/ Insert(r) \/ Compare(r) \/ Upsert(r)
               \/ UpsertFails(r) \/ Answer(r) \/ ListReadDone(r)
      BY <3>9, MoveDoes DEF Finished, Moved
    <3> QED
      BY <1>3, <3>1, <3>2, <3>3, <3>4, <3>5, <3>6, <3>7, <3>8, <3>9 DEF Serve
  <2>4. \A s \in Requests : req'[s].pc = "insert" => identities'[req'[s].id] # None
    <3>1. ASSUME NEW s \in Requests, s # r, req'[s].pc = "insert"
          PROVE  identities'[req'[s].id] # None
      <4>1. req'[s] = req[s] /\ req[s].pc = "insert"
        BY <2>2, <3>1
      <4>2. req[s].id \in Ids /\ identities[req[s].id] # None
        BY <4>1 DEF OpInv, OpAt, DirInv, Steps, Registering
      <4> QED
        BY <1>2, <4>1, <4>2
    <3> QED
      BY <2>3, <3>1
  <2>5. \A id \in Ids : /\ dir'[id] # None => identities'[id] # None
                        /\ actor'[id].alive => dir'[id] # None
    <3>1. CASE Insert(r)
      <4>1. req[r].id \in Ids /\ req[r].key \in Keys /\ identities[req[r].id] # None
        BY <3>1 DEF OpInv, OpAt, DirInv, Insert, Step, Steps, Registering, InFlight
      <4>2. \/ UNCHANGED <<dir, actor>>
            \/ /\ dir' = [dir EXCEPT ![req[r].id] = req[r].key]
               /\ actor' = [actor EXCEPT ![req[r].id] = [alive |-> TRUE, n |-> 0]]
        BY <3>1 DEF Insert
      <4> QED
        BY <1>1, <1>2, <4>1, <4>2 DEF DirInv, IdentityFirst
    <3>2. CASE RunTransition(r)
      <4>1. UNCHANGED dir
        BY <3>2 DEF RunTransition
      <4>2. \A id \in Ids : actor'[id].alive => actor[id].alive
        <5>1. /\ req[r].id \in Ids
              /\ \/ UNCHANGED actor
                 \/ actor' = [actor EXCEPT ![req[r].id].n = @ + 1]
                 \/ actor' = [actor EXCEPT ![req[r].id].alive = FALSE]
          BY <3>2, RunDoes DEF Completed, Accepted, Refused, Panicked, Changed
        <5> QED
          BY <1>1, <5>1
      <4> QED
        BY <1>1, <1>2, <4>1, <4>2 DEF DirInv, IdentityFirst
    <3>3. CASE ~Insert(r) /\ ~RunTransition(r)
      <4>1. UNCHANGED <<dir, actor>>
        BY <1>3, <3>3 DEF Serve, Arrive, Lookup, PutCheck, PutWrite, PutFails, FirstRead, ReadSnapshot,
                    Compare, Upsert, UpsertFails, Answer, ListRead, ListReadDone, ListKeep, process
      <4> QED
        BY <1>2, <4>1 DEF DirInv, IdentityFirst
    <3> QED
      BY <3>1, <3>2, <3>3
  <2> QED
    BY <2>1, <2>4, <2>5 DEF DirInv, IdentityFirst
<1>4. ASSUME NEW c \in config, Resolve(c)
      PROVE  DirInv'
  <2>1. PICK id : /\ identities' = PutRow(identities, id, c.key)
                  /\ dir' = [dir EXCEPT ![id] = c.key]
                  /\ actor' = [actor EXCEPT ![id] = [alive |-> TRUE, n |-> 0]]
    BY <1>4 DEF Resolve
  <2>2. c.key \in Keys /\ phase' = "resolving" /\ UNCHANGED req
    BY <1>4 DEF TypeOK, Resolve, Pending
  <2>3. \A r \in Requests : req'[r].pc = "idle"
    BY <1>4, <2>2 DEF OpInv, OpAt, Resolve, Pending
  <2>4. \A j \in Ids : /\ dir'[j] # None => identities'[j] # None
                       /\ actor'[j].alive => dir'[j] # None
    BY <1>1, <2>1, <2>2 DEF DirInv, IdentityFirst, PutRow
  <2> QED
    BY <2>2, <2>3, <2>4 DEF DirInv, IdentityFirst
<1>5. ASSUME Halt \/ \E c \in config : BuildFails(c)
      PROVE  DirInv'
  <2>1. \A id \in Ids : dir'[id] = None /\ ~actor'[id].alive
    BY <1>5 DEF Halt, BuildFails, Gone
  <2>2. \A r \in Requests : req'[r].pc = "idle"
    BY <1>5 DEF Halt, BuildFails, Idle, OpInv, OpAt, Pending
  <2> QED
    BY <2>1, <2>2 DEF DirInv, IdentityFirst
<1>6. ASSUME Start \/ WriteSentinel \/ WriteNodeConfig
      PROVE  DirInv'
  <2>1. UNCHANGED <<identities, dir, actor, req>> /\ phase' # "down"
    BY <1>6 DEF Start, WriteSentinel, WriteNodeConfig, tables
  <2> QED
    BY <2>1 DEF DirInv, IdentityFirst
<1>7. CASE UNCHANGED vars
  BY <1>7 DEF DirInv, IdentityFirst, vars, tables, process
<1> QED
  BY <1>3, <1>4, <1>5, <1>6, <1>7 DEF Next

-----------------------------------------------------------------------------
(* A transition keeps the number of changes it left behind, and every       *)
(* snapshot that is read after it shows at least as many.                   *)
OwnAt(r) ==
  req[r].op = "transition" =>
    /\ req[r].pc \in {"read", "compare", "upsert", "answer"} =>
         /\ dir[req[r].id] # None
         /\ req[r].ran \in Snapshots /\ req[r].ran[1] = boot /\ req[r].ran[2] <= actor[req[r].id].n
    /\ req[r].pc \in {"compare", "upsert", "answer"} =>
         req[r].snap \in Snapshots /\ req[r].snap[1] = boot /\ req[r].snap[2] >= req[r].ran[2]
    /\ req[r].pc = "done" /\ req[r].status = 200 =>
         req[r].snap[1] = req[r].ran[1] /\ req[r].snap[2] >= req[r].ran[2]

OwnInv == \A r \in Requests : OwnAt(r)

(* The server's own steps find no request, or leave none. *)
LEMMA ServerStepIdle ==
  ASSUME TypeOK, OpInv, \/ Start \/ WriteSentinel \/ WriteNodeConfig \/ Halt
                        \/ \E c \in config : Resolve(c) \/ BuildFails(c)
  PROVE  \A r \in Requests : req'[r].pc = "idle"
<1>1. CASE Halt
  BY <1>1 DEF Halt, Idle
<1>2. CASE ~Halt
  <2>1. UNCHANGED req /\ phase # "up"
    BY <1>2 DEF Start, WriteSentinel, WriteNodeConfig, Resolve, BuildFails, Pending
  <2> QED
    BY <2>1 DEF OpInv, OpAt
<1> QED
  BY <1>1, <1>2

LEMMA InitOp == Init => OpInv
  BY DEF Init, OpInv, OpAt, Idle, InFlight, Steps, Registering

LEMMA BaseStep ==
  ASSUME TypeOK, OpInv, [Next]_vars
  PROVE  TypeOK' /\ OpInv'
<1>1. CASE UNCHANGED vars
  <2>1. TypeOK'
    BY <1>1 DEF TypeOK, vars, tables, process, history
  <2>2. OpInv'
    BY <1>1 DEF OpInv, OpAt, InFlight, vars, process
  <2> QED
    BY <2>1, <2>2
<1>2. CASE Next
  BY <1>2, ServerStepType, ServeType, ServeOp, ServerStepOp DEF Next
<1> QED
  BY <1>1, <1>2

LEMMA InitOwn == Init => OwnInv
  BY DEF Init, OwnInv, OwnAt, Idle

(* While a server is up, an entry of its directory stays, and the actor     *)
(* behind it never loses a change.                                          *)
LEMMA ActorGrows ==
  ASSUME TypeOK, OpInv, NEW r \in Requests, Serve(r), NEW id \in Ids, dir[id] # None
  PROVE  dir'[id] # None /\ actor'[id].n >= actor[id].n
<1>1. /\ dir \in [Ids -> Keys \cup {None}] /\ actor \in [Ids -> [alive : BOOLEAN, n : Nat]]
      /\ actor[id].n \in Nat
  BY DEF TypeOK
<1>2. CASE Insert(r)
  <2>1. req[r].id \in Ids
    BY <1>2 DEF OpInv, OpAt, Insert, Step, Steps, Registering
  <2>2. \/ UNCHANGED <<dir, actor>>
        \/ /\ req[r].id # id
           /\ dir' = [dir EXCEPT ![req[r].id] = req[r].key]
           /\ actor' = [actor EXCEPT ![req[r].id] = [alive |-> TRUE, n |-> 0]]
    BY <1>2 DEF Insert
  <2> QED
    BY <1>1, <2>1, <2>2
<1>3. CASE RunTransition(r)
  <2>1. UNCHANGED dir
    BY <1>3 DEF RunTransition
  <2>2. /\ req[r].id \in Ids
        /\ \/ UNCHANGED actor
           \/ actor' = [actor EXCEPT ![req[r].id].n = @ + 1]
           \/ actor' = [actor EXCEPT ![req[r].id].alive = FALSE]
    BY <1>3, RunDoes DEF Completed, Accepted, Refused, Panicked, Changed
  <2>3. actor[req[r].id].n \in Nat
    BY <1>1, <2>2
  <2>4. CASE actor' = [actor EXCEPT ![req[r].id].n = @ + 1]
    <3>1. actor'[id].n = IF id = req[r].id THEN actor[id].n + 1 ELSE actor[id].n
      BY <1>1, <2>2, <2>4
    <3> QED
      BY <1>1, <2>1, <3>1
  <2>5. CASE actor' = [actor EXCEPT ![req[r].id].alive = FALSE]
    <3>1. actor'[id].n = actor[id].n
      BY <1>1, <2>2, <2>5
    <3> QED
      BY <1>1, <2>1, <3>1
  <2> QED
    BY <1>1, <2>1, <2>2, <2>4, <2>5
<1>4. CASE ~Insert(r) /\ ~RunTransition(r)
  <2>1. UNCHANGED <<dir, actor>>
    BY <1>4 DEF Serve, Arrive, Lookup, PutCheck, PutWrite, PutFails, FirstRead, ReadSnapshot,
                Compare, Upsert, UpsertFails, Answer, ListRead, ListReadDone, ListKeep, process
  <2> QED
    BY <1>1, <2>1
<1> QED
  BY <1>2, <1>3, <1>4

LEMMA OwnStep ==
  ASSUME TypeOK, OpInv, OwnInv, [Next]_vars
  PROVE  OwnInv'
<1>1. ASSUME NEW r \in Requests, Serve(r), NEW s \in Requests, req'[s] = req[s]
      PROVE  OwnAt(s)'
  <2>1. OwnAt(s) /\ OpAt(s) /\ boot' = boot
    BY <1>1, ServeReq DEF OwnInv, OpInv
  <2>3. CASE req[s].op = "transition" /\ req[s].pc \in {"read", "compare", "upsert", "answer"}
    <3>1. req[s].id \in Ids /\ dir[req[s].id] # None
      BY <2>1, <2>3 DEF OwnAt, OpAt, Steps
    <3>2. dir'[req[s].id] # None /\ actor'[req[s].id].n >= actor[req[s].id].n
      BY <1>1, <3>1, ActorGrows
    <3>3. actor[req[s].id].n \in Nat /\ actor'[req[s].id].n \in Nat
      <4>1. TypeOK'
        BY <1>1, ServeType
      <4>2. actor \in [Ids -> [alive : BOOLEAN, n : Nat]] /\ actor' \in [Ids -> [alive : BOOLEAN, n : Nat]]
        BY <4>1 DEF TypeOK
      <4> QED
        BY <3>1, <4>2
    <3>4. req[s].ran \in Snapshots /\ req[s].ran[1] = boot /\ req[s].ran[2] <= actor[req[s].id].n
      BY <2>1, <2>3 DEF OwnAt
    <3>5. req[s].ran[2] \in Nat
      BY <3>4 DEF Snapshots
    <3>6. req[s].ran[2] <= actor'[req[s].id].n
      BY <3>2, <3>3, <3>4, <3>5
    <3> QED
      BY <1>1, <2>1, <2>3, <3>2, <3>4, <3>6 DEF OwnAt
  <2>4. CASE ~(req[s].op = "transition" /\ req[s].pc \in {"read", "compare", "upsert", "answer"})
    BY <1>1, <2>1, <2>4 DEF OwnAt
  <2> QED
    BY <2>3, <2>4
<1>2. ASSUME NEW s \in Requests, \/ req'[s].pc \in {"idle", "lookup", "check", "write", "insert", "first", "store", "run"}
                                 \/ req'[s].op # "transition"
                                 \/ req'[s].pc = "done" /\ req'[s].status # 200
      PROVE  OwnAt(s)'
  BY <1>2 DEF OwnAt
<1>3. ASSUME NEW r \in Requests, Serve(r)
      PROVE  OwnInv'
  <2>1. \A s \in Requests : s # r => OwnAt(s)'
    BY <1>1, <1>2, <1>3, ServeReq DEF Failed
  <2>2. OwnAt(r) /\ OpAt(r) /\ boot' = boot /\ phase = "up"
    BY <1>3, ServeReq DEF OwnInv, OpInv
  <2> SUFFICES OwnAt(r)'
    BY <2>1 DEF OwnInv
  <2>3. CASE RunTransition(r)
    <3>1. /\ req[r].id \in Ids /\ boot \in Nat /\ actor \in [Ids -> [alive : BOOLEAN, n : Nat]]
          /\ actor[req[r].id].n \in Nat
      BY <2>3, RunDoes DEF TypeOK
    <3>2. CASE Completed(r)
      <4>1. dir' = dir /\ dir[req[r].id] # None /\ actor' = [actor EXCEPT ![req[r].id].n = @ + 1]
        BY <2>3, <3>2 DEF RunTransition, Completed, Changed, Alive
      <4>2. actor'[req[r].id].n = actor[req[r].id].n + 1
        BY <3>1, <4>1
      <4>3. req'[r].ran \in Snapshots /\ req'[r].ran[1] = boot /\ req'[r].ran[2] = actor[req[r].id].n + 1
        BY <3>1, <3>2 DEF Snapshots, Completed
      <4>4. req'[r].pc = "read" /\ req'[r].id = req[r].id
        BY <3>2 DEF Completed, KeepsId
      <4>5. req'[r].ran[2] <= actor'[req'[r].id].n
        BY <3>1, <4>2, <4>3, <4>4
      <4> QED
        BY <2>2, <4>1, <4>3, <4>4, <4>5 DEF OwnAt
    <3>3. CASE Accepted(r) \/ Refused(r) \/ Panicked(r)
      BY <1>2, <3>3 DEF Accepted, Refused, Panicked, Finished, Failed
    <3> QED
      BY <2>3, <3>2, <3>3, RunDoes
  <2>4. CASE ReadSnapshot(r)
    <3>1. /\ req[r].id \in Ids /\ boot \in Nat /\ actor[req[r].id].n \in Nat
          /\ req[r].pc = "read" /\ UNCHANGED <<dir, actor>>
      BY <2>4, ReadDoes DEF TypeOK, ReadSnapshot, Step, process
    <3>2. CASE KeepsId(r) /\ req'[r].ran = req[r].ran /\ req'[r].pc = "compare" /\ req'[r].snap = Snapshot(req[r].id)
      <4>1. req'[r].snap \in Snapshots /\ req'[r].snap[1] = boot /\ req'[r].snap[2] = actor[req[r].id].n
        BY <3>1, <3>2 DEF Snapshot, Snapshots
      <4>2. req[r].ran \in Snapshots => req[r].ran[2] \in Nat
        BY DEF Snapshots
      <4> QED
        BY <2>2, <3>1, <3>2, <4>1, <4>2 DEF OwnAt, KeepsId
    <3>3. ASSUME NEW status, Finished(r, status), status = 200 => req[r].op # "transition"
          PROVE  OwnAt(r)'
      BY <1>2, <3>3 DEF Finished
    <3> QED
      BY <2>4, <3>2, <3>3, ReadDoes
  <2>5. CASE Compare(r) \/ Upsert(r) \/ UpsertFails(r)
    <3>1. UNCHANGED <<dir, actor>> /\ req[r].pc \in {"compare", "upsert", "store"}
      BY <2>5 DEF Compare, Upsert, UpsertFails, Step, process
    <3>2. \/ Moved(r, "upsert") \/ (Moved(r, "keep") /\ req[r].op = "list")
          \/ (Moved(r, "read") /\ req[r].pc = "store") \/ Moved(r, "answer")
      BY <2>5, MoveDoes
    <3>3. req[r].pc = "store" => req[r].op # "transition"
      BY <2>2 DEF OpAt, Registering
    <3> QED
      BY <2>2, <3>1, <3>2, <3>3 DEF OwnAt, Moved, KeepsId, KeepsData
  <2>6. CASE Answer(r)
    <3>1. req[r].pc = "answer"
      BY <2>6 DEF Answer, Step
    <3>2. \E status \in {200, 201} : Finished(r, status)
      BY <2>6, MoveDoes
    <3>3. CASE req[r].op = "transition"
      <4>1. /\ req[r].ran \in Snapshots /\ req[r].ran[1] = boot
            /\ req[r].snap \in Snapshots /\ req[r].snap[1] = boot /\ req[r].snap[2] >= req[r].ran[2]
        BY <2>2, <3>1, <3>3 DEF OwnAt
      <4>2. req[r].ran # None
        BY <4>1, ServerAssumption DEF Snapshots
      <4> QED
        BY <3>2, <4>1, <4>2 DEF OwnAt, Finished
    <3>4. CASE req[r].op # "transition"
      BY <1>2, <3>2, <3>4 DEF Finished
    <3> QED
      BY <3>3, <3>4
  <2>7. CASE Arrive(r)
    <3>1. PICK i \in Inputs : Entered(r, i) \/ (req'[r].pc = "done" /\ req'[r].status \in {400, 415})
      BY <2>7, ArriveDoes
    <3>2. CASE Entered(r, i)
      BY <1>2, <3>2 DEF Entered
    <3>3. CASE req'[r].pc = "done" /\ req'[r].status \in {400, 415}
      BY <1>2, <3>3
    <3> QED
      BY <3>1, <3>2, <3>3
  <2>8. CASE Lookup(r) \/ PutCheck(r) \/ PutWrite(r) \/ PutFails(r) \/ Insert(r) \/ FirstRead(r)
    <3>1. req[r].op = "register"
      BY <2>2, <2>8 DEF OpAt, Registering, Lookup, PutCheck, PutWrite, PutFails, Insert, FirstRead, Step
    <3>2. req'[r].op = req[r].op
      BY <2>8, LookupDoes, MoveDoes, FirstReadDoes DEF Finished, Placed, Moved, KeepsId
    <3> QED
      BY <1>2, <3>1, <3>2
  <2>9. CASE ListRead(r) \/ ListReadDone(r) \/ ListKeep(r)
    <3>1. req[r].op = "list"
      BY <2>2, <2>9 DEF OpAt, ListRead, ListReadDone, ListKeep, Step
    <3>2. req'[r].op = req[r].op
      BY <2>9, ListReadDoes, ListKeepDoes, MoveDoes DEF Finished, Moved, KeepsId
    <3> QED
      BY <1>2, <3>1, <3>2
  <2> QED
    BY <1>3, <2>3, <2>4, <2>5, <2>6, <2>7, <2>8, <2>9 DEF Serve
<1>4. CASE \/ Start \/ WriteSentinel \/ WriteNodeConfig \/ Halt
           \/ \E c \in config : Resolve(c) \/ BuildFails(c)
  BY <1>2, <1>4, ServerStepIdle DEF OwnInv
<1>5. CASE UNCHANGED vars
  BY <1>5 DEF OwnInv, OwnAt, vars, process
<1> QED
  BY <1>3, <1>4, <1>5 DEF Next

-----------------------------------------------------------------------------
(* The registrations that have not written their record yet, and those that *)
(* have or need not.                                                        *)
Deciding(r) == req[r].pc \in {"lookup", "check", "write"}
Putting(r) == req[r].pc \in {"check", "write"}
Recorded(r) ==
  /\ req[r].op = "register"
  /\ req[r].pc \in {"insert", "first", "store", "read", "compare", "upsert", "answer"}

(* Two that are deciding at once on one key, or on one id, have raced.      *)
PairOf(r, s) ==
  r # s /\ Deciding(r) /\ Deciding(s) =>
    /\ req[r].key = req[s].key => req[r].key \in raced
    /\ req[r].id = req[s].id /\ req[r].id # None => req[r].key \in raced /\ req[s].key \in raced
PairInv == \A r, s \in Requests : PairOf(r, s)

(* What a registration found before its put still holds when it writes.     *)
FoundAt(r) ==
  Putting(r) =>
    /\ identities[req[r].id] # None => identities[req[r].id] \in raced /\ req[r].key \in raced
    /\ req[r].key \notin raced => \A id \in Ids : identities[id] # req[r].key
FoundInv == \A r \in Requests : FoundAt(r)

(* A record that was written stays as it is, and alone with its key.        *)
KeyInv ==
  /\ \A i, j \in Ids : identities[i] = identities[j] /\ identities[i] # None /\ i # j => identities[i] \in raced
  /\ \A r \in Requests : Recorded(r) /\ req[r].key \notin raced => identities[req[r].id] = req[r].key
  /\ acks \subseteq Keys \X Ids
  /\ \A ack \in acks : ack[1] \notin raced => identities[ack[2]] = ack[1]

RecordInv == PairInv /\ FoundInv /\ KeyInv

LEMMA InitRecord == Init => RecordInv
  BY DEF Init, RecordInv, PairInv, PairOf, FoundInv, FoundAt, KeyInv, Deciding, Putting, Recorded, Idle

(* Only an arrival and a lookup bring a registration to its decision, only  *)
(* a lookup and a write bring it past its record.                           *)
StillDeciding(s) ==
  Deciding(s)' => /\ Deciding(s) /\ (Putting(s)' => Putting(s))
                  /\ req'[s].key = req[s].key /\ req'[s].id = req[s].id
StillRecorded(s) ==
  Recorded(s)' => Recorded(s) /\ req'[s].key = req[s].key /\ req'[s].id = req[s].id

LEMMA RegistrationsStay ==
  ASSUME TypeOK, OpInv, NEW r \in Requests, Serve(r)
  PROVE  /\ \A s \in Requests : s # r => StillDeciding(s) /\ StillRecorded(s)
         /\ ~Arrive(r) /\ ~Lookup(r) => StillDeciding(r)
         /\ ~PutWrite(r) /\ ~Lookup(r) => StillRecorded(r)
<1> USE DEF Deciding, Putting, Recorded
<1>1. ASSUME NEW s \in Requests, req'[s] = req[s] \/ req'[s].pc = "done"
      PROVE  StillDeciding(s) /\ StillRecorded(s)
  BY <1>1 DEF StillDeciding, StillRecorded
<1>2. \A s \in Requests : s # r => StillDeciding(s) /\ StillRecorded(s)
  BY <1>1, ServeReq DEF Failed
<1>3. OpAt(r)
  BY DEF OpInv
<1>4. ASSUME NEW status, Finished(r, status)
      PROVE  StillDeciding(r) /\ StillRecorded(r)
  BY <1>1, <1>4 DEF Finished
<1>5. CASE Arrive(r)
  <2>1. PICK i \in Inputs : Entered(r, i) \/ req'[r].pc = "done"
    BY <1>5, ArriveDoes
  <2>2. StillRecorded(r)
    BY <2>1 DEF Entered, StillRecorded
  <2> QED
    BY <1>2, <1>5, <2>2
<1>6. CASE PutCheck(r)
  <2>1. req[r].pc = "check"
    BY <1>6 DEF PutCheck, Step
  <2>2. CASE Moved(r, "write")
    BY <1>2, <2>1, <2>2 DEF Moved, KeepsId, StillDeciding, StillRecorded
  <2>3. Moved(r, "write") \/ Finished(r, 409)
    BY <1>6, MoveDoes
  <2> QED
    BY <1>2, <1>4, <2>2, <2>3
<1>7. CASE PutWrite(r)
  BY <1>2, <1>7, MoveDoes DEF Moved, StillDeciding
<1>8. CASE Insert(r)
  <2>1. req[r].pc = "insert"
    BY <1>8 DEF Insert, Step
  <2>2. CASE Moved(r, "first")
    BY <1>2, <1>3, <2>1, <2>2 DEF Moved, KeepsId, StillDeciding, StillRecorded, OpAt, Registering
  <2>3. Moved(r, "first") \/ Finished(r, 409)
    BY <1>8, MoveDoes
  <2> QED
    BY <1>2, <1>4, <2>2, <2>3
<1>9. CASE FirstRead(r)
  <2>1. req[r].pc = "first" /\ req'[r].pc \in {"store", "read"} /\ KeepsId(r)
    BY <1>9, FirstReadDoes DEF FirstRead, Step
  <2>2. StillDeciding(r) /\ StillRecorded(r)
    BY <1>3, <2>1 DEF KeepsId, StillDeciding, StillRecorded, OpAt, Registering
  <2> QED
    BY <1>2, <2>2
<1>10. CASE RunTransition(r)
  <2>1. req[r].op = "transition"
    BY <1>3, <1>10 DEF RunTransition, Step, OpAt
  <2>2. CASE Completed(r)
    BY <1>2, <2>1, <2>2 DEF Completed, KeepsId, StillDeciding, StillRecorded
  <2>3. CASE Accepted(r) \/ Refused(r) \/ Panicked(r)
    BY <1>2, <1>1, <2>3 DEF Accepted, Refused, Panicked, Finished, Failed
  <2> QED
    BY <1>2, <1>10, <2>2, <2>3, RunDoes
<1>11. CASE ReadSnapshot(r)
  <2>1. req[r].pc = "read"
    BY <1>11 DEF ReadSnapshot, Step
  <2>2. CASE req'[r].pc = "compare" /\ KeepsId(r)
    BY <1>2, <2>1, <2>2 DEF KeepsId, StillDeciding, StillRecorded
  <2>3. (req'[r].pc = "compare" /\ KeepsId(r)) \/ \E status \in {200, 201, 404, 500, 503} : Finished(r, status)
    BY <1>11, ReadDoes
  <2> QED
    BY <1>2, <1>4, <2>2, <2>3
<1>12. CASE Compare(r) \/ Upsert(r) \/ UpsertFails(r)
  <2>1. req[r].pc \in {"compare", "upsert", "store"}
    BY <1>12 DEF Compare, Upsert, UpsertFails, Step
  <2>2. Moved(r, "upsert") \/ Moved(r, "keep") \/ Moved(r, "read") \/ Moved(r, "answer")
    BY <1>12, MoveDoes
  <2>3. StillDeciding(r) /\ StillRecorded(r)
    BY <2>1, <2>2 DEF Moved, KeepsId, StillDeciding, StillRecorded
  <2> QED
    BY <1>2, <2>3
<1>13. CASE ListRead(r) \/ ListReadDone(r) \/ ListKeep(r)
  <2>1. req[r].op = "list" /\ req'[r].op = "list" /\ req'[r].pc \in {"list", "keep", "compare", "done"}
    <3>1. req[r].op = "list"
      BY <1>3, <1>13 DEF ListRead, ListReadDone, ListKeep, Step, OpAt
    <3>2. CASE ListRead(r)
      BY <3>1, <3>2, ListReadDoes DEF KeepsId
    <3>3. CASE ListReadDone(r)
      BY <3>1, <3>3, MoveDoes DEF Moved, KeepsId
    <3>4. CASE ListKeep(r)
      BY <3>1, <3>4, ListKeepDoes DEF Finished
    <3> QED
      BY <1>13, <3>1, <3>2, <3>3, <3>4
  <2>2. StillDeciding(r) /\ StillRecorded(r)
    BY <2>1 DEF StillDeciding, StillRecorded
  <2> QED
    BY <1>2, <2>2
<1>14. CASE PutFails(r) \/ Answer(r)
  BY <1>2, <1>4, <1>14, MoveDoes
<1>15. CASE Lookup(r)
  BY <1>2, <1>15
<1> QED
  BY <1>5, <1>6, <1>7, <1>8, <1>9, <1>10, <1>11, <1>12, <1>13, <1>14, <1>15 DEF Serve

LEMMA RacedGrows ==
  ASSUME TypeOK, NEW r \in Requests, Serve(r)
  PROVE  raced \subseteq raced'
<1>1. CASE Arrive(r)
  BY <1>1, ArriveDoes
<1>2. CASE ~Arrive(r)
  BY <1>2 DEF Serve, Lookup, PutCheck, PutWrite, PutFails, Insert, FirstRead, RunTransition, ReadSnapshot,
              Compare, Upsert, UpsertFails, Answer, ListRead, ListReadDone, ListKeep, history
<1> QED
  BY <1>1, <1>2

LEMMA PairServe ==
  ASSUME TypeOK, OpInv, PairInv, NEW r \in Requests, Serve(r)
  PROVE  PairInv'
<1>1. raced \subseteq raced'
  BY RacedGrows
<1>2. \A s \in Requests : s # r => StillDeciding(s)
  BY RegistrationsStay
<1>3. ASSUME NEW s \in Requests, NEW t \in Requests, StillDeciding(s), StillDeciding(t)
      PROVE  PairOf(s, t)'
  BY <1>1, <1>3 DEF PairInv, PairOf, StillDeciding
<1>4. ASSUME NEW t \in Requests, t # r, Deciding(t)', Deciding(r)'
      PROVE  PairOf(r, t)'
  <2>1. Deciding(t) /\ req'[t].key = req[t].key /\ req'[t].id = req[t].id
    BY <1>2, <1>4 DEF StillDeciding
  <2>2. InFlight(t) /\ req[t].op = "register"
    BY <2>1 DEF Deciding, InFlight, OpInv, OpAt, Registering
  <2>3. CASE Arrive(r)
    <3>1. PICK i \in Inputs : /\ Entered(r, i) \/ req'[r].pc = "done"
                              /\ raced' = raced \cup Races(i)
      BY <2>3, ArriveDoes
    <3>2. i.op = "register" /\ req'[r].key = i.key /\ req'[r].id = i.id
      BY <1>4, <3>1 DEF Deciding, Entered
    <3>3. req[t].key = i.key => req[t].key \in Races(i)
      BY <2>2, <3>2 DEF Races
    <3>4. i.id # None /\ req[t].id = i.id => req[t].key \in Races(i) /\ i.key \in Races(i)
      BY <2>2, <3>2 DEF Races
    <3> QED
      BY <2>1, <3>1, <3>2, <3>3, <3>4 DEF PairOf
  <2>4. CASE Lookup(r)
    <3>1. PICK id \in Ids : /\ Placed(r, id, "check")
                            /\ id = req[r].id \/ \A s \in Requests : InFlight(s) => req[s].id # id
      BY <1>4, <2>4, LookupDoes DEF Deciding, Finished, Placed
    <3>2. Deciding(r) /\ PairOf(r, t)
      BY <2>4 DEF Lookup, Step, Deciding, PairInv
    <3>3. req'[r].key = req[r].key /\ req'[r].id = id
      BY <3>1 DEF Placed
    <3> QED
      BY <1>1, <1>4, <2>1, <2>2, <3>1, <3>2, <3>3 DEF PairOf
  <2>5. CASE ~Arrive(r) /\ ~Lookup(r)
    BY <1>2, <1>3, <1>4, <2>5, RegistrationsStay
  <2> QED
    BY <2>3, <2>4, <2>5
<1>5. ASSUME NEW s \in Requests, NEW t \in Requests
      PROVE  PairOf(s, t)'
  <2>1. PairOf(r, t)' /\ PairOf(r, s)'
    BY <1>4 DEF PairOf
  <2>2. CASE s # r /\ t # r
    BY <1>2, <1>3, <2>2
  <2> QED
    BY <2>1, <2>2 DEF PairOf
<1> QED
  BY <1>5 DEF PairInv

(* What PutWrite does to the table: it writes on a free id a key that no    *)
(* record carries, or there was a race.                                     *)
LEMMA WriteIsFree ==
  ASSUME TypeOK, OpInv, FoundInv, NEW r \in Requests, PutWrite(r)
  PROVE  /\ req[r].id \in Ids /\ req[r].key \in Keys /\ Putting(r)
         /\ identities' = [identities EXCEPT ![req[r].id] = req[r].key]
         /\ identities[req[r].id] = None \/ identities[req[r].id] \in raced
         /\ req[r].key \in raced \/ \A id \in Ids : identities[id] # req[r].key
         /\ UNCHANGED <<raced, acks>> /\ req'[r].pc = "insert" /\ KeepsId(r)
<1>1. Putting(r) /\ req[r].pc = "write"
  BY DEF PutWrite, Step, Putting
<1>2. req[r].id \in Ids /\ req[r].key \in Keys
  BY <1>1 DEF OpInv, OpAt, Steps, Registering, InFlight
<1>3. FoundAt(r) /\ Moved(r, "insert")
  BY MoveDoes DEF FoundInv
<1> QED
  BY <1>1, <1>2, <1>3 DEF PutWrite, PutRow, FoundAt, history, Moved

LEMMA FoundServe ==
  ASSUME TypeOK, OpInv, PairInv, FoundInv, NEW r \in Requests, Serve(r)
  PROVE  FoundInv'
<1>1. raced \subseteq raced' /\ identities \in [Ids -> Keys \cup {None}]
  BY RacedGrows DEF TypeOK
<1>2. CASE PutWrite(r)
  <2>1. ASSUME NEW s \in Requests, Putting(s)'
        PROVE  FoundAt(s)'
    <3>1. /\ req[r].id \in Ids /\ req[r].key \in Keys /\ Putting(r)
          /\ identities' = [identities EXCEPT ![req[r].id] = req[r].key]
          /\ req'[r].pc = "insert"
      BY <1>2, WriteIsFree
    <3>2. s # r
      BY <2>1, <3>1 DEF Putting
    <3>3. /\ Putting(s) /\ Deciding(s) /\ Deciding(r)
          /\ req'[s].key = req[s].key /\ req'[s].id = req[s].id
      BY <2>1, <3>1, <3>2, RegistrationsStay DEF StillDeciding, Putting, Deciding
    <3>4. PairOf(r, s) /\ FoundAt(s) /\ req[s].id \in Ids /\ None \notin Ids
      BY <3>3, RepositoriesAssumption DEF PairInv, FoundInv, OpInv, OpAt, Putting, Steps, Registering
    <3>5. req[r].id = req[s].id => req[r].key \in raced /\ req[s].key \in raced
      BY <3>1, <3>2, <3>3, <3>4 DEF PairOf
    <3>6. req[r].key = req[s].key => req[s].key \in raced
      BY <3>2, <3>3, <3>4 DEF PairOf
    <3>7. identities'[req[s].id] # None => identities'[req[s].id] \in raced /\ req[s].key \in raced
      BY <1>1, <3>1, <3>3, <3>4, <3>5 DEF FoundAt
    <3>8. req[s].key \notin raced => \A id \in Ids : identities'[id] # req[s].key
      BY <1>1, <3>1, <3>3, <3>4, <3>6 DEF FoundAt
    <3> QED
      BY <1>1, <3>3, <3>7, <3>8 DEF FoundAt
  <2> QED
    BY <2>1 DEF FoundInv, FoundAt
<1>3. CASE ~PutWrite(r)
  <2>1. UNCHANGED identities
    BY <1>3 DEF Serve, Arrive, Lookup, PutCheck, PutFails, Insert, FirstRead, RunTransition, ReadSnapshot, Compare,
                Upsert, UpsertFails, Answer, ListRead, ListReadDone, ListKeep, tables
  <2>2. ASSUME NEW s \in Requests, StillDeciding(s)
        PROVE  FoundAt(s)'
    BY <1>1, <2>1, <2>2 DEF FoundInv, FoundAt, StillDeciding, Putting, Deciding
  <2>3. CASE Lookup(r)
    <3>1. \/ req'[r].pc \in {"done", "insert"}
          \/ \E id \in Ids : /\ Placed(r, id, "check") /\ identities[id] = None
                             /\ \A j \in Ids : identities[j] # req[r].key
      BY <2>3, LookupDoes DEF Finished, Placed
    <3>2. FoundAt(r)'
      BY <2>1, <3>1 DEF Placed, FoundAt, Putting
    <3> QED
      BY <2>2, <3>2, RegistrationsStay DEF FoundInv
  <2>4. CASE Arrive(r)
    <3>1. ~Putting(r)'
      BY <2>4, ArriveDoes DEF Entered, Putting
    <3>2. FoundAt(r)'
      BY <3>1 DEF FoundAt
    <3> QED
      BY <2>2, <3>2, RegistrationsStay DEF FoundInv
  <2>5. CASE ~Lookup(r) /\ ~Arrive(r)
    BY <2>2, <2>5, RegistrationsStay DEF FoundInv
  <2> QED
    BY <2>3, <2>4, <2>5
<1> QED
  BY <1>2, <1>3

LEMMA KeyServe ==
  ASSUME TypeOK, OpInv, FoundInv, KeyInv, NEW r \in Requests, Serve(r)
  PROVE  KeyInv'
<1>1. raced \subseteq raced' /\ identities \in [Ids -> Keys \cup {None}] /\ None \notin Keys
  BY RacedGrows, RepositoriesAssumption DEF TypeOK
<1>2. \A s \in Requests : Recorded(s) => req[s].key \in Keys /\ req[s].id \in Ids
  BY DEF Recorded, OpInv, OpAt, Steps, Registering, InFlight
<1>3. CASE PutWrite(r)
  <2>1. /\ req[r].id \in Ids /\ req[r].key \in Keys
        /\ identities' = [identities EXCEPT ![req[r].id] = req[r].key]
        /\ identities[req[r].id] = None \/ identities[req[r].id] \in raced
        /\ req[r].key \in raced \/ \A id \in Ids : identities[id] # req[r].key
        /\ UNCHANGED <<raced, acks>> /\ KeepsId(r)
    BY <1>3, WriteIsFree
  <2>2. \A id \in Ids, k \in Keys : identities[id] = k /\ k \notin raced => identities'[id] = k
    BY <1>1, <2>1
  <2>3. \A i, j \in Ids : identities'[i] = identities'[j] /\ identities'[i] # None /\ i # j => identities'[i] \in raced'
    BY <1>1, <2>1 DEF KeyInv
  <2>4. ASSUME NEW s \in Requests, Recorded(s)', req'[s].key \notin raced'
        PROVE  identities'[req'[s].id] = req'[s].key
    <3>1. CASE s = r
      BY <1>1, <2>1, <3>1 DEF KeepsId
    <3>2. CASE s # r
      <4>1. Recorded(s) /\ req'[s].key = req[s].key /\ req'[s].id = req[s].id
        BY <2>4, <3>2, RegistrationsStay DEF StillRecorded
      <4> QED
        BY <1>2, <2>1, <2>2, <2>4, <4>1 DEF KeyInv
    <3> QED
      BY <3>1, <3>2
  <2>5. acks' \subseteq Keys \X Ids
    BY <2>1 DEF KeyInv
  <2>6. ASSUME NEW ack \in acks', ack[1] \notin raced'
        PROVE  identities'[ack[2]] = ack[1]
    <3>1. ack \in acks /\ ack[1] \in Keys /\ ack[2] \in Ids
      BY <2>1, <2>5
    <3> QED
      BY <2>1, <2>2, <2>6, <3>1 DEF KeyInv
  <2> QED
    BY <2>3, <2>4, <2>5, <2>6 DEF KeyInv
<1>4. CASE ~PutWrite(r)
  <2>1. UNCHANGED identities
    BY <1>4 DEF Serve, Arrive, Lookup, PutCheck, PutFails, Insert, FirstRead, RunTransition, ReadSnapshot, Compare,
                Upsert, UpsertFails, Answer, ListRead, ListReadDone, ListKeep, tables
  <2>2. ASSUME NEW s \in Requests, Recorded(s)', req'[s].key \notin raced'
        PROVE  identities'[req'[s].id] = req'[s].key
    <3>1. CASE StillRecorded(s)
      BY <1>1, <2>1, <2>2, <3>1 DEF KeyInv, StillRecorded
    <3>2. CASE s = r /\ Lookup(r)
      <4>1. \/ req'[r].pc \in {"done", "check"}
            \/ \E id \in Ids : Placed(r, id, "insert") /\ identities[id] = req[r].key
        BY <3>2, LookupDoes DEF Finished, Placed
      <4> QED
        BY <2>1, <2>2, <3>2, <4>1 DEF Placed, Recorded
    <3> QED
      BY <1>4, <3>1, <3>2, RegistrationsStay
  <2>3. \/ acks' = acks
        \/ acks' = acks \cup {<<req[r].key, req[r].id>>} /\ Recorded(r)
    <3>1. CASE Answer(r)
      BY <3>1 DEF Answer, Step, Recorded
    <3>2. CASE ~Answer(r)
      BY <3>2 DEF Serve, Arrive, Lookup, PutCheck, PutWrite, PutFails, Insert, FirstRead, RunTransition,
                  ReadSnapshot, Compare, Upsert, UpsertFails, ListRead, ListReadDone, ListKeep, history
    <3> QED
      BY <3>1, <3>2
  <2>4. acks' \subseteq Keys \X Ids
    BY <1>2, <2>3 DEF KeyInv
  <2>5. ASSUME NEW ack \in acks', ack[1] \notin raced'
        PROVE  identities'[ack[2]] = ack[1]
    <3>1. CASE ack \in acks
      BY <1>1, <2>1, <2>5, <3>1 DEF KeyInv
    <3>2. CASE ack = <<req[r].key, req[r].id>> /\ Recorded(r)
      BY <1>1, <2>1, <2>5, <3>2 DEF KeyInv
    <3> QED
      BY <2>3, <3>1, <3>2
  <2>6. \A i, j \in Ids : identities'[i] = identities'[j] /\ identities'[i] # None /\ i # j => identities'[i] \in raced'
    BY <1>1, <2>1 DEF KeyInv
  <2> QED
    BY <2>2, <2>4, <2>5, <2>6 DEF KeyInv
<1> QED
  BY <1>3, <1>4

(* The server's own steps: a start keeps the records it finds. *)
LEMMA ResolveIsFree ==
  ASSUME TypeOK, NEW c \in config, Resolve(c)
  PROVE  \/ UNCHANGED identities
         \/ \E id \in Ids : /\ identities' = [identities EXCEPT ![id] = c.key] /\ identities[id] = None
                            /\ c.key \in Keys /\ \A j \in Ids : identities[j] # c.key
<1> DEFINE i == Identity(identities, c.key, c.id)
<1>1. c.key \in Keys /\ c.id \in Given \cup {None} /\ identities \in [Ids -> Keys \cup {None}]
  BY DEF TypeOK
<1>2. \/ i.is = "conflict"
      \/ i.is = "known" /\ i.id \in Ids /\ identities[i.id] = c.key
      \/ i.is = "mint" /\ \A id \in Ids : identities[id] # c.key
      \/ /\ i.is = "put" /\ i.id \in Ids /\ identities[i.id] = None
         /\ \A id \in Ids : identities[id] # c.key
  BY <1>1, IdentityDecides
<1>3. i.is # "conflict"
  BY DEF Resolve
<1>4. PICK id \in IF i.is = "mint" THEN Fresh ELSE {i.id} : identities' = [identities EXCEPT ![id] = c.key]
  BY DEF Resolve, PutRow
<1> HIDE DEF i
<1>5. CASE i.is = "known"
  <2>1. identities' = identities
    BY <1>1, <1>2, <1>4, <1>5
  <2> QED
    BY <2>1
<1>6. CASE i.is = "mint"
  BY <1>1, <1>2, <1>4, <1>6 DEF Fresh
<1>7. CASE i.is = "put"
  BY <1>1, <1>2, <1>4, <1>7
<1> QED
  BY <1>2, <1>3, <1>5, <1>6, <1>7

LEMMA RecordStep ==
  ASSUME TypeOK, OpInv, RecordInv, [Next]_vars
  PROVE  RecordInv'
<1>1. ASSUME NEW r \in Requests, Serve(r)
      PROVE  RecordInv'
  BY <1>1, PairServe, FoundServe, KeyServe DEF RecordInv
<1>2. ASSUME \A r \in Requests : req'[r].pc = "idle", UNCHANGED <<raced, acks>>,
             \A id \in Ids, k \in Keys : identities[id] = k => identities'[id] = k,
             \A i, j \in Ids : identities'[i] = identities'[j] /\ identities'[i] # None /\ i # j
                               => identities'[i] \in raced
      PROVE  RecordInv'
  <2>1. PairInv' /\ FoundInv'
    BY <1>2 DEF PairInv, PairOf, FoundInv, FoundAt, Deciding, Putting
  <2>2. \A ack \in acks' : ack[1] \notin raced' => identities'[ack[2]] = ack[1]
    <3>1. ASSUME NEW ack \in acks, ack[1] \notin raced
          PROVE  identities'[ack[2]] = ack[1]
      <4>1. ack[1] \in Keys /\ ack[2] \in Ids /\ identities[ack[2]] = ack[1]
        BY <3>1 DEF RecordInv, KeyInv
      <4> QED
        BY <1>2, <4>1
    <3> QED
      BY <1>2, <3>1
  <2>3. KeyInv'
    BY <1>2, <2>2 DEF RecordInv, KeyInv, Recorded
  <2> QED
    BY <2>1, <2>3 DEF RecordInv
<1>3. ASSUME NEW c \in config, Resolve(c)
      PROVE  RecordInv'
  <2>1. UNCHANGED <<raced, acks>> /\ identities \in [Ids -> Keys \cup {None}] /\ None \notin Keys
    BY <1>3, RepositoriesAssumption DEF Resolve, history, TypeOK
  <2>2. \A r \in Requests : req'[r].pc = "idle"
    BY <1>3, ServerStepIdle
  <2>3. /\ \A id \in Ids, k \in Keys : identities[id] = k => identities'[id] = k
        /\ \A i, j \in Ids : identities'[i] = identities'[j] /\ identities'[i] # None /\ i # j
                             => identities'[i] \in raced
    <3>1. CASE UNCHANGED identities
      BY <3>1 DEF RecordInv, KeyInv
    <3>2. CASE \E id \in Ids : /\ identities' = [identities EXCEPT ![id] = c.key] /\ identities[id] = None
                               /\ c.key \in Keys /\ \A j \in Ids : identities[j] # c.key
      BY <2>1, <3>2 DEF RecordInv, KeyInv
    <3> QED
      BY <1>3, <3>1, <3>2, ResolveIsFree
  <2> QED
    BY <1>2, <2>1, <2>2, <2>3
<1>4. ASSUME Start \/ WriteSentinel \/ WriteNodeConfig \/ Halt \/ \E c \in config : BuildFails(c)
      PROVE  RecordInv'
  <2>1. UNCHANGED <<identities, raced, acks>>
    BY <1>4 DEF Start, WriteSentinel, WriteNodeConfig, Halt, BuildFails, tables, history
  <2>2. \A r \in Requests : req'[r].pc = "idle"
    BY <1>4, ServerStepIdle
  <2>3. \A i, j \in Ids : identities'[i] = identities'[j] /\ identities'[i] # None /\ i # j => identities'[i] \in raced
    BY <2>1 DEF RecordInv, KeyInv
  <2> QED
    BY <1>2, <2>1, <2>2, <2>3
<1>5. CASE UNCHANGED vars
  <2>1. UNCHANGED <<req, identities, raced, acks>>
    BY <1>5 DEF vars, tables, history
  <2> QED
    BY <2>1 DEF RecordInv, PairInv, PairOf, FoundInv, FoundAt, KeyInv, Deciding, Putting, Recorded
<1> QED
  BY <1>1, <1>3, <1>4, <1>5 DEF Next

-----------------------------------------------------------------------------
(* A request works on the resource it names; a list, on those it has read   *)
(* and not stored.                                                          *)
Holds(r, id) == InFlight(r) /\ (req[r].id = id \/ \E g \in req[r].got : g.id = id)

(* Two that work on one resource at a time are noticed.                     *)
AloneInv ==
  /\ \A r \in Requests : InFlight(r) /\ req[r].op # "list" => req[r].got = {}
  /\ \A id \in Ids \ lag : \A r, s \in Requests : Holds(r, id) /\ Holds(s, id) => r = s

(* So a snapshot on its way to the store is the current one, ...            *)
FreshAt(r) ==
  /\ req[r].pc \in {"store", "compare", "upsert"} /\ req[r].id \notin lag => req[r].snap = Snapshot(req[r].id)
  /\ InFlight(r) => \A g \in req[r].got : g.id \notin lag => g.snap = Snapshot(g.id)
FreshInv == \A r \in Requests : FreshAt(r)

(* ... and a change is in the store or on its way there.                    *)
OnItsWay(r, id) ==
  /\ req[r].id = id
  /\ \/ req[r].pc = "read"
     \/ req[r].pc \in {"compare", "upsert"} /\ req[r].snap = Snapshot(id)
WayInv ==
  \A id \in Ids \ lag :
    actor[id].alive /\ actor[id].n > 0 => latest[id] = Snapshot(id) \/ \E r \in Requests : OnItsWay(r, id)

StoreInv == AloneInv /\ FreshInv /\ WayInv

LEMMA InitStore == Init => StoreInv
  BY DEF Init, StoreInv, AloneInv, FreshInv, FreshAt, WayInv, Holds, InFlight, Idle, Gone

(* A request that comes to work on a resource is noticed unless it is the   *)
(* only one there.                                                          *)
LEMMA TouchNotices ==
  ASSUME AloneInv, NEW r \in Requests, NEW id \in Ids, id \notin Touch(r, id)
  PROVE  \A s \in Requests : s # r => ~Holds(s, id)
<1>1. ASSUME NEW s \in Requests, s # r, Holds(s, id)
      PROVE  FALSE
  <2>1. InFlight(s) /\ (req[s].id = id \/ req[s].op = "list")
    BY <1>1 DEF Holds, AloneInv
  <2> QED
    BY <1>1, <2>1 DEF Touch
<1> QED
  BY <1>1

LEMMA HeldServe ==
  ASSUME TypeOK, OpInv, AloneInv, NEW r \in Requests, Serve(r)
  PROVE  /\ lag \subseteq lag'
         /\ \A s \in Requests, id \in Ids : s # r /\ Holds(s, id)' => Holds(s, id)
         /\ \A id \in Ids : Holds(r, id)' /\ id \notin lag' =>
              Holds(r, id) \/ \A s \in Requests : s # r => ~Holds(s, id)
         /\ InFlight(r)' /\ req'[r].op # "list" => req'[r].got = {}
<1> DEFINE Part2 == \A id \in Ids : Holds(r, id)' /\ id \notin lag' =>
                      Holds(r, id) \/ \A s \in Requests : s # r => ~Holds(s, id)
           Part3 == InFlight(r)' /\ req'[r].op # "list" => req'[r].got = {}
<1>1. \A s \in Requests, id \in Ids : s # r /\ Holds(s, id)' => Holds(s, id)
  BY ServeReq DEF Holds, InFlight, Failed
<1>2. OpAt(r) /\ (InFlight(r) /\ req[r].op # "list" => req[r].got = {})
  BY DEF OpInv, AloneInv
<1> SUFFICES lag \subseteq lag' /\ Part2 /\ Part3
  BY <1>1
<1>3. req'[r].pc = "done" => Part2 /\ Part3
  BY DEF Holds, InFlight
<1>4. ASSUME KeepsId(r), req'[r].got = req[r].got, InFlight(r)
      PROVE  Part2 /\ Part3
  BY <1>2, <1>4 DEF KeepsId, Holds, InFlight
<1>5. CASE Arrive(r)
  <2>1. PICK i \in Inputs : /\ Entered(r, i) \/ req'[r].pc = "done"
                            /\ lag' = lag \cup (IF i.id # None THEN Touch(r, i.id) ELSE {})
    BY <1>5, ArriveDoes
  <2>2. CASE Entered(r, i)
    <3>1. ASSUME NEW id \in Ids, Holds(r, id)', id \notin lag'
          PROVE  \A s \in Requests : s # r => ~Holds(s, id)
      <4>1. i.id = id /\ id # None
        BY <2>2, <3>1, RepositoriesAssumption DEF Entered, Holds
      <4>2. id \notin Touch(r, id)
        BY <2>1, <3>1, <4>1
      <4> QED
        BY <4>2, TouchNotices
    <3> QED
      BY <2>1, <2>2, <3>1 DEF Entered
  <2> QED
    BY <1>3, <2>1, <2>2
<1>6. CASE Lookup(r)
  <2>1. CASE req'[r].pc = "done" /\ lag \subseteq lag'
    BY <1>3, <2>1
  <2>2. ASSUME NEW id \in Ids, KeepsData(r), req'[r].op = req[r].op, req'[r].id = id, lag' = lag \cup Touch(r, id)
        PROVE  lag \subseteq lag' /\ Part2 /\ Part3
    <3>1. req[r].got = {} /\ req'[r].got = {}
      BY <1>2, <1>6, <2>2 DEF Lookup, Step, OpAt, Registering, InFlight, KeepsData
    <3>2. ASSUME NEW j \in Ids, Holds(r, j)', j \notin lag'
          PROVE  \A s \in Requests : s # r => ~Holds(s, j)
      <4>1. j = id
        BY <2>2, <3>1, <3>2 DEF Holds
      <4> QED
        BY <2>2, <3>2, <4>1, TouchNotices
    <3> QED
      BY <2>2, <3>1, <3>2
  <2>3. \/ req'[r].pc = "done" /\ lag \subseteq lag'
        \/ \E id \in Ids : KeepsData(r) /\ req'[r].op = req[r].op /\ req'[r].id = id /\ lag' = lag \cup Touch(r, id)
    BY <1>6, LookupDoes DEF Finished, Placed
  <2> QED
    BY <2>1, <2>2, <2>3
<1>7. CASE ListRead(r)
  <2>1. PICK id \in Ids :
          /\ KeepsId(r) /\ req'[r].pc = "list" /\ lag' = lag \cup Touch(r, id)
          /\ req'[r].got \subseteq req[r].got \cup {[id |-> id, snap |-> Snapshot(id)]}
    BY <1>7, ListReadDoes
  <2>2. req[r].op = "list" /\ InFlight(r)
    BY <1>2, <1>7 DEF ListRead, Step, OpAt, InFlight
  <2>3. ASSUME NEW j \in Ids, Holds(r, j)', j \notin lag', ~Holds(r, j)
        PROVE  \A s \in Requests : s # r => ~Holds(s, j)
    <3>1. j = id
      BY <2>1, <2>2, <2>3 DEF Holds, KeepsId
    <3> QED
      BY <2>1, <2>3, <3>1, TouchNotices
  <2> QED
    BY <2>1, <2>2, <2>3 DEF KeepsId
<1>8. CASE ListKeep(r)
  <2>1. UNCHANGED lag /\ req[r].op = "list" /\ InFlight(r)
    BY <1>2, <1>8 DEF ListKeep, Step, OpAt, InFlight, history
  <2>2. CASE \E g \in req[r].got : /\ req'[r].id = g.id /\ req'[r].got \subseteq req[r].got
                                   /\ req'[r].op = req[r].op
    BY <2>1, <2>2 DEF Holds
  <2> QED
    BY <1>3, <1>8, <2>1, <2>2, ListKeepDoes DEF Finished
<1>9. CASE RunTransition(r)
  <2>1. InFlight(r) /\ lag \subseteq lag'
    BY <1>9, RunDoes DEF RunTransition, Step, InFlight, Completed, Accepted, Refused, Panicked
  <2>2. CASE Completed(r)
    BY <1>4, <2>1, <2>2 DEF Completed
  <2>3. CASE Accepted(r) \/ Refused(r) \/ Panicked(r)
    BY <1>3, <2>1, <2>3 DEF Accepted, Refused, Panicked, Finished, Failed
  <2> QED
    BY <1>9, <2>2, <2>3, RunDoes
<1>10. CASE FirstRead(r)
  <2>1. InFlight(r) /\ UNCHANGED lag
    BY <1>10 DEF FirstRead, Step, InFlight, history
  <2> QED
    BY <1>4, <1>10, <2>1, FirstReadDoes
<1>11. CASE ReadSnapshot(r)
  <2>1. InFlight(r) /\ UNCHANGED lag
    BY <1>11 DEF ReadSnapshot, Step, InFlight, history
  <2>2. (KeepsId(r) /\ req'[r].got = req[r].got) \/ req'[r].pc = "done"
    BY <1>11, ReadDoes DEF Finished
  <2> QED
    BY <1>3, <1>4, <2>1, <2>2
<1>12. CASE \/ PutCheck(r) \/ PutWrite(r) \/ PutFails(r) \/ Insert(r) \/ Compare(r) \/ Upsert(r)
            \/ UpsertFails(r) \/ Answer(r) \/ ListReadDone(r)
  <2>1. InFlight(r) /\ lag \subseteq lag'
    BY <1>12 DEF PutCheck, PutWrite, PutFails, Insert, Compare, Upsert, UpsertFails, Answer, ListReadDone,
                 Step, InFlight, history
  <2>2. (KeepsId(r) /\ req'[r].got = req[r].got) \/ req'[r].pc = "done"
    BY <1>12, MoveDoes DEF Finished, Moved, KeepsData
  <2> QED
    BY <1>3, <1>4, <2>1, <2>2
<1> QED
  BY <1>5, <1>6, <1>7, <1>8, <1>9, <1>10, <1>11, <1>12 DEF Serve

LEMMA AloneServe ==
  ASSUME TypeOK, OpInv, AloneInv, NEW r \in Requests, Serve(r)
  PROVE  AloneInv'
<1>1. ASSUME NEW s \in Requests, InFlight(s)', req'[s].op # "list"
      PROVE  req'[s].got = {}
  <2>1. CASE s = r
    BY <1>1, <2>1, HeldServe
  <2>2. CASE s # r
    BY <1>1, <2>2, ServeReq DEF AloneInv, InFlight, Failed
  <2> QED
    BY <2>1, <2>2
<1>2. ASSUME NEW id \in Ids, id \notin lag', NEW s \in Requests, NEW t \in Requests, Holds(s, id)', Holds(t, id)'
      PROVE  s = t
  <2>1. id \notin lag
    BY <1>2, HeldServe
  <2>2. \A q \in Requests : Holds(q, id)' /\ q # r => Holds(q, id)
    BY HeldServe
  <2>3. Holds(r, id)' => Holds(r, id) \/ \A q \in Requests : q # r => ~Holds(q, id)
    BY <1>2, HeldServe
  <2>4. \A p, q \in Requests : Holds(p, id) /\ Holds(q, id) => p = q
    BY <2>1 DEF AloneInv
  <2> QED
    BY <1>2, <2>2, <2>3, <2>4
<1> QED
  BY <1>1, <1>2 DEF AloneInv

(* Only the insertion and the transition of a request change an actor. *)
LEMMA ActorChanges ==
  ASSUME TypeOK, OpInv, NEW r \in Requests, Serve(r), NEW id \in Ids, actor'[id] # actor[id]
  PROVE  /\ req[r].id = id /\ Holds(r, id) /\ (Insert(r) \/ RunTransition(r))
         /\ req'[r].pc \in {"first", "read", "done"}
<1>1. actor \in [Ids -> [alive : BOOLEAN, n : Nat]]
  BY DEF TypeOK
<1>2. CASE Insert(r)
  <2>1. req[r].id \in Ids /\ InFlight(r)
    BY <1>2 DEF OpInv, OpAt, Insert, Step, Steps, Registering, InFlight
  <2>2. UNCHANGED actor \/ actor' = [actor EXCEPT ![req[r].id] = [alive |-> TRUE, n |-> 0]]
    BY <1>2 DEF Insert
  <2>3. req'[r].pc \in {"first", "done"}
    BY <1>2, MoveDoes DEF Moved, Finished
  <2> QED
    BY <1>1, <1>2, <2>1, <2>2, <2>3 DEF Holds
<1>3. CASE RunTransition(r)
  <2>1. InFlight(r)
    BY <1>3 DEF RunTransition, Step, InFlight
  <2>2. /\ req[r].id \in Ids
        /\ \/ UNCHANGED actor
           \/ actor' = [actor EXCEPT ![req[r].id].n = @ + 1]
           \/ actor' = [actor EXCEPT ![req[r].id].alive = FALSE]
    BY <1>3, RunDoes DEF Completed, Accepted, Refused, Panicked, Changed
  <2>3. req'[r].pc \in {"read", "done"}
    BY <1>3, RunEnds
  <2>4. req[r].id = id
    BY <1>1, <2>2
  <2> QED
    BY <1>3, <2>1, <2>3, <2>4 DEF Holds
<1>4. CASE ~Insert(r) /\ ~RunTransition(r)
  BY <1>4 DEF Serve, Arrive, Lookup, PutCheck, PutWrite, PutFails, FirstRead, ReadSnapshot,
              Compare, Upsert, UpsertFails, Answer, ListRead, ListReadDone, ListKeep, process
<1> QED
  BY <1>2, <1>3, <1>4

LEMMA FreshServe ==
  ASSUME TypeOK, OpInv, AloneInv, FreshInv, NEW r \in Requests, Serve(r)
  PROVE  FreshInv'
<1>1. lag \subseteq lag' /\ boot' = boot /\ req \in [Requests -> Request] /\ req' \in [Requests -> Request]
  BY HeldServe, ServeReq DEF TypeOK
<1>2. ASSUME NEW s \in Requests, s # r, NEW id \in Ids, Holds(s, id), id \notin lag'
      PROVE  Snapshot(id)' = Snapshot(id)
  <2>1. ~Holds(r, id)
    BY <1>1, <1>2 DEF AloneInv
  <2>2. actor'[id] = actor[id]
    BY <2>1, ActorChanges
  <2> QED
    BY <1>1, <2>2 DEF Snapshot
<1>3. ASSUME NEW s \in Requests, s # r
      PROVE  FreshAt(s)'
  <2>1. CASE req'[s].pc = "done"
    BY <2>1 DEF FreshAt, InFlight
  <2>2. CASE req'[s] = req[s]
    <3>1. FreshAt(s) /\ OpAt(s)
      BY DEF FreshInv, OpInv
    <3>2. ASSUME req[s].pc \in {"store", "compare", "upsert"}, req[s].id \notin lag'
          PROVE  req[s].snap = Snapshot(req[s].id)'
      <4>1. req[s].id \in Ids /\ Holds(s, req[s].id)
        BY <3>1, <3>2 DEF OpAt, Steps, Registering, Holds, InFlight
      <4>3. \A id \in Ids : Holds(s, id) /\ id \notin lag' => <<boot', actor'[id].n>> = <<boot, actor[id].n>>
        BY <1>2, <1>3 DEF Snapshot
      <4> QED
        BY <1>1, <2>2, <3>1, <3>2, <4>1, <4>3 DEF FreshAt, Snapshot
    <3>3. ASSUME InFlight(s), NEW g \in req[s].got, g.id \notin lag'
          PROVE  g.snap = <<boot', actor'[g.id].n>>
      <4>1. g.id \in Ids /\ Holds(s, g.id)
        <5>1. req[s] \in Request
          BY <1>1
        <5>2. req[s].got \in SUBSET [id : Ids, snap : Snapshots]
          BY <5>1 DEF Request
        <5> QED
          BY <3>3, <5>2 DEF Holds
      <4>2. g.snap = Snapshot(g.id)
        BY <1>1, <3>1, <3>3 DEF FreshAt
      <4>3. Snapshot(g.id)' = Snapshot(g.id)
        BY <1>2, <1>3, <3>3, <4>1
      <4> QED
        BY <4>2, <4>3 DEF Snapshot
    <3> QED
      BY <2>2, <3>2, <3>3 DEF FreshAt, InFlight, Snapshot
  <2> QED
    BY <1>3, <2>1, <2>2, ServeReq DEF Failed
<1>4. FreshAt(r) /\ OpAt(r)
  BY DEF FreshInv, OpInv
<1>5. FreshAt(r)'
  <2>1. CASE req'[r].pc = "done"
    BY <2>1 DEF FreshAt, InFlight
  <2>2. CASE Insert(r) \/ RunTransition(r)
    <3>1. req'[r].pc \in {"first", "read", "done"}
      BY <2>2, MoveDoes, RunEnds DEF Moved, Finished
    <3>2. CASE req'[r].pc \in {"first", "read"}
      <4>1. req[r].op # "list" /\ req'[r].op = req[r].op
        <5>1. req[r].op # "list"
          BY <1>4, <2>2 DEF Insert, RunTransition, Step, OpAt, Registering
        <5>2. CASE Insert(r)
          BY <3>2, <5>1, <5>2, MoveDoes DEF Moved, Finished, KeepsId
        <5>3. CASE RunTransition(r)
          <6>1. Completed(r)
            BY <3>2, <5>3, RunEnds
          <6> QED
            BY <5>1, <6>1 DEF Completed, KeepsId
        <5> QED
          BY <2>2, <5>2, <5>3
      <4>2. req'[r].got = {}
        BY <3>2, <4>1, HeldServe DEF InFlight
      <4> QED
        BY <3>2, <4>2 DEF FreshAt
    <3> QED
      BY <2>1, <3>1, <3>2
  <2>3. CASE ~Insert(r) /\ ~RunTransition(r) /\ req'[r].pc # "done"
    <3>1. actor' = actor
      BY <2>3 DEF Serve, Arrive, Lookup, PutCheck, PutWrite, PutFails, FirstRead, ReadSnapshot,
                  Compare, Upsert, UpsertFails, Answer, ListRead, ListReadDone, ListKeep, process
    <3>2. \A id : Snapshot(id)' = Snapshot(id)
      BY <1>1, <3>1 DEF Snapshot
    <3>3. ASSUME req'[r].got \subseteq req[r].got, InFlight(r),
                 req'[r].pc \in {"store", "compare", "upsert"} =>
                   (req'[r].id \notin lag' => req'[r].snap = Snapshot(req'[r].id))
          PROVE  FreshAt(r)'
      <4>1. \A g \in req'[r].got : g.id \notin lag' => g.snap = Snapshot(g.id)
        BY <1>1, <1>4, <3>3 DEF FreshAt
      <4> QED
        BY <1>1, <3>1, <3>3, <4>1 DEF FreshAt, Snapshot
    <3>4. CASE Arrive(r)
      <4>1. req'[r].got = {} /\ req'[r].pc \notin {"store", "compare", "upsert"}
        BY <2>3, <3>4, ArriveDoes DEF Entered
      <4> QED
        BY <4>1 DEF FreshAt
    <3>5. CASE Lookup(r)
      <4>1. req'[r].got = req[r].got /\ req'[r].pc \notin {"store", "compare", "upsert"} /\ InFlight(r)
        BY <2>3, <3>5, LookupDoes DEF Finished, Placed, KeepsData, Lookup, Step, InFlight
      <4> QED
        BY <3>3, <4>1
    <3>6. CASE FirstRead(r)
      <4>1. InFlight(r)
        BY <3>6 DEF FirstRead, Step, InFlight
      <4> QED
        BY <3>3, <3>6, <4>1, FirstReadDoes DEF KeepsId
    <3>7. CASE ReadSnapshot(r)
      <4>1. InFlight(r)
        BY <3>7 DEF ReadSnapshot, Step, InFlight
      <4> QED
        BY <2>3, <3>3, <3>7, <4>1, ReadDoes DEF Finished, KeepsId
    <3>8. CASE Compare(r) \/ Upsert(r) \/ UpsertFails(r)
      <4>1. InFlight(r) /\ req[r].pc \in {"store", "compare", "upsert"}
        BY <3>8 DEF Compare, Upsert, UpsertFails, Step, InFlight
      <4>2. /\ req'[r].got = req[r].got /\ req'[r].id = req[r].id /\ req'[r].snap = req[r].snap
        BY <3>8, MoveDoes DEF Moved, KeepsId, KeepsData
      <4> QED
        BY <1>1, <1>4, <3>3, <4>1, <4>2 DEF FreshAt
    <3>9. CASE ListRead(r)
      <4>1. req'[r].pc = "list" /\ InFlight(r)
        BY <3>9, ListReadDoes DEF ListRead, Step, InFlight
      <4>2. \E id \in Ids : req'[r].got \subseteq req[r].got \cup {[id |-> id, snap |-> Snapshot(id)]}
        BY <3>9, ListReadDoes
      <4>3. \A g \in req'[r].got : g.id \notin lag' => g.snap = Snapshot(g.id)
        BY <1>1, <1>4, <4>1, <4>2 DEF FreshAt
      <4> QED
        BY <1>1, <3>1, <4>1, <4>3 DEF FreshAt, Snapshot
    <3>10. CASE ListKeep(r)
      <4>1. InFlight(r)
        BY <3>10 DEF ListKeep, Step, InFlight
      <4>2. PICK g \in req[r].got : /\ req'[r].id = g.id /\ req'[r].snap = g.snap /\ req'[r].got \subseteq req[r].got
        BY <2>3, <3>10, ListKeepDoes DEF Finished
      <4> QED
        BY <1>1, <1>4, <3>3, <4>1, <4>2 DEF FreshAt
    <3>11. CASE PutCheck(r) \/ PutWrite(r) \/ PutFails(r) \/ Answer(r) \/ ListReadDone(r)
      <4>1. InFlight(r)
        BY <3>11 DEF PutCheck, PutWrite, PutFails, Answer, ListReadDone, Step, InFlight
      <4>2. req'[r].got = req[r].got /\ req'[r].pc \in {"write", "insert", "keep"}
        BY <2>3, <3>11, MoveDoes DEF Moved, KeepsData, Finished
      <4> QED
        BY <3>3, <4>1, <4>2
    <3> QED
      BY <2>3, <3>4, <3>5, <3>6, <3>7, <3>8, <3>9, <3>10, <3>11 DEF Serve
  <2> QED
    BY <2>1, <2>2, <2>3
<1> QED
  BY <1>3, <1>5 DEF FreshInv

LEMMA WayServe ==
  ASSUME TypeOK, OpInv, DirInv, FreshInv, WayInv, AloneInv, NEW r \in Requests, Serve(r)
  PROVE  WayInv'
<1>1. /\ lag \subseteq lag' /\ boot' = boot /\ latest \in [Ids -> Snapshots \cup {None}]
      /\ actor \in [Ids -> [alive : BOOLEAN, n : Nat]]
  BY HeldServe, ServeReq DEF TypeOK
<1>2. SUFFICES ASSUME NEW id \in Ids, id \notin lag', actor'[id].alive, actor'[id].n > 0
               PROVE  latest'[id] = Snapshot(id)' \/ \E s \in Requests : OnItsWay(s, id)'
  BY DEF WayInv
<1>3. CASE actor'[id] # actor[id]
  <2>1. req[r].id = id /\ (Insert(r) \/ RunTransition(r))
    BY <1>3, ActorChanges
  <2>2. CASE Insert(r)
    <3>1. actor' = [actor EXCEPT ![id] = [alive |-> TRUE, n |-> 0]]
      BY <1>3, <2>1, <2>2 DEF Insert
    <3>2. actor'[id].n = 0
      BY <1>1, <3>1
    <3> QED
      BY <1>2, <3>2
  <2>3. CASE RunTransition(r)
    <3>1. Completed(r)
      BY <1>2, <1>3, <2>1, <2>3, RunDoes DEF Accepted, Refused, Panicked
    <3>2. OnItsWay(r, id)'
      BY <2>1, <3>1 DEF Completed, KeepsId, OnItsWay
    <3> QED
      BY <3>2
  <2> QED
    BY <2>1, <2>2, <2>3
<1>4. CASE actor'[id] = actor[id]
  <2>1. Snapshot(id)' = Snapshot(id) /\ id \notin lag
    BY <1>1, <1>2, <1>4 DEF Snapshot
  <2>2. latest[id] = Snapshot(id) \/ \E s \in Requests : OnItsWay(s, id)
    BY <1>2, <1>4, <2>1 DEF WayInv
  <2>3. Upsert(r) /\ req[r].id = id => latest'[id] = Snapshot(id)
    <3>1. ASSUME Upsert(r), req[r].id = id
          PROVE  latest'[id] = req[r].snap /\ req[r].pc \in {"store", "upsert"}
      BY <1>1, <3>1 DEF Upsert, PutRow, Step
    <3> QED
      BY <2>1, <3>1 DEF FreshInv, FreshAt
  <2>4. latest'[id] = latest[id] \/ (Upsert(r) /\ req[r].id = id)
    <3>1. CASE Upsert(r)
      <4>1. req[r].id \in Ids /\ latest' = [latest EXCEPT ![req[r].id] = req[r].snap]
        BY <3>1 DEF Upsert, PutRow, OpInv, OpAt, Step, Steps, Registering
      <4> QED
        BY <1>1, <3>1, <4>1
    <3>2. CASE ~Upsert(r)
      BY <3>2 DEF Serve, Arrive, Lookup, PutCheck, PutWrite, PutFails, Insert, FirstRead, RunTransition,
                  ReadSnapshot, Compare, UpsertFails, Answer, ListRead, ListReadDone, ListKeep, tables
    <3> QED
      BY <3>1, <3>2
  <2>5. CASE latest[id] = Snapshot(id) \/ (Upsert(r) /\ req[r].id = id)
    BY <2>1, <2>3, <2>4, <2>5
  <2>6. ASSUME NEW s \in Requests, OnItsWay(s, id), s # r
        PROVE  OnItsWay(s, id)'
    <3>1. req[s].id = id
      BY <2>6 DEF OnItsWay
    <3>2. req'[s] = req[s]
      <4>1. CASE RunTransition(r)
        <5>1. CASE Panicked(r)
          <6>1. req[r].id # id
            BY <1>2, <5>1 DEF Panicked
          <6> QED
            BY <3>1, <5>1, <6>1 DEF Panicked
        <5>2. CASE Completed(r) \/ Accepted(r) \/ Refused(r)
          BY <2>6, <5>2 DEF Completed, Accepted, Refused, Finished, OnlyOf
        <5> QED
          BY <4>1, <5>1, <5>2, RunDoes
      <4>2. CASE ~RunTransition(r)
        BY <2>6, <4>2, ServeReq DEF OnlyOf
      <4> QED
        BY <4>1, <4>2
    <3> QED
      BY <2>1, <2>6, <3>2 DEF OnItsWay
  <2>7. CASE OnItsWay(r, id) /\ ~(Upsert(r) /\ req[r].id = id)
    <3>1. req[r].id = id /\ req[r].pc \in {"read", "compare", "upsert"}
      BY <2>7 DEF OnItsWay
    <3>2. CASE ReadSnapshot(r)
      <4>1. actor[id].alive /\ dir[id] # None
        BY <1>2, <1>4 DEF DirInv
      <4>2. req'[r].pc = "compare" /\ req'[r].snap = Snapshot(id) /\ req'[r].id = id
        BY <3>1, <3>2, <4>1, ReadDoes DEF KeepsId
      <4> QED
        BY <2>1, <4>2 DEF OnItsWay
    <3>3. CASE Compare(r)
      <4>1. req[r].pc = "compare" /\ req[r].snap = Snapshot(id)
        BY <2>7, <3>3 DEF Compare, Step, OnItsWay
      <4>2. CASE latest[id] = req[r].snap
        BY <2>5, <4>1, <4>2
      <4>3. CASE latest[id] # req[r].snap
        <5>1. Goto(r, "upsert")
          BY <3>1, <3>3, <4>3 DEF Compare
        <5>2. Moved(r, "upsert")
          BY <5>1, GotoMoves DEF Steps
        <5> QED
          BY <2>1, <3>1, <4>1, <5>2 DEF Moved, KeepsId, KeepsData, OnItsWay
      <4> QED
        BY <4>2, <4>3
    <3>4. CASE UpsertFails(r)
      BY <1>2, <3>1, <3>4 DEF UpsertFails
    <3> QED
      BY <2>7, <3>1, <3>2, <3>3, <3>4
         DEF Serve, Arrive, Lookup, PutCheck, PutWrite, PutFails, Insert, FirstRead, RunTransition, Answer, ListRead,
             ListReadDone, ListKeep, Step
  <2> QED
    BY <2>2, <2>5, <2>6, <2>7
<1> QED
  BY <1>3, <1>4

LEMMA StoreStep ==
  ASSUME TypeOK, OpInv, DirInv, StoreInv, [Next]_vars
  PROVE  StoreInv'
<1>1. ASSUME NEW r \in Requests, Serve(r)
      PROVE  StoreInv'
  BY <1>1, AloneServe, FreshServe, WayServe DEF StoreInv
<1>2. ASSUME \A r \in Requests : req'[r].pc = "idle", UNCHANGED latest,
             \A id \in Ids : \/ ~actor'[id].alive \/ actor'[id].n = 0
                             \/ actor'[id] = actor[id] /\ boot' = boot /\ (id \in lag => id \in lag')
                                /\ \A r \in Requests : req[r].pc = "idle"
      PROVE  StoreInv'
  <2>1. AloneInv' /\ FreshInv'
    BY <1>2 DEF AloneInv, FreshInv, FreshAt, Holds, InFlight
  <2>2. ASSUME NEW id \in Ids, id \notin lag', actor'[id].alive, actor'[id].n > 0
        PROVE  latest'[id] = Snapshot(id)'
    <3>1. /\ actor'[id] = actor[id] /\ boot' = boot /\ id \notin lag
          /\ \A r \in Requests : req[r].pc = "idle"
      BY <1>2, <2>2
    <3>2. ~\E r \in Requests : OnItsWay(r, id)
      BY <3>1 DEF OnItsWay
    <3>3. latest[id] = Snapshot(id)
      BY <2>2, <3>1, <3>2 DEF StoreInv, WayInv
    <3> QED
      BY <1>2, <3>1, <3>3 DEF Snapshot
  <2>3. WayInv'
    BY <2>2 DEF WayInv
  <2> QED
    BY <2>1, <2>3 DEF StoreInv
<1>3. ASSUME NEW c \in config, Resolve(c)
      PROVE  StoreInv'
  <2>1. PICK id : actor' = [actor EXCEPT ![id] = [alive |-> TRUE, n |-> 0]]
    BY <1>3 DEF Resolve
  <2>2. /\ UNCHANGED <<latest, boot, lag, req>> /\ \A r \in Requests : req'[r].pc = "idle"
    BY <1>3, ServerStepIdle DEF Resolve, history
  <2>3. \A j \in Ids : actor'[j] = actor[j] \/ actor'[j].n = 0
    <3>1. actor \in [Ids -> [alive : BOOLEAN, n : Nat]]
      BY DEF TypeOK
    <3> QED
      BY <2>1, <3>1
  <2> QED
    BY <1>2, <2>2, <2>3
<1>4. ASSUME Halt \/ \E c \in config : BuildFails(c)
      PROVE  StoreInv'
  <2>1. UNCHANGED latest /\ \A id \in Ids : ~actor'[id].alive
    BY <1>4 DEF Halt, BuildFails, Gone, tables
  <2>2. \A r \in Requests : req'[r].pc = "idle"
    BY <1>4, ServerStepIdle
  <2> QED
    BY <1>2, <2>1, <2>2
<1>5. CASE Start
  <2>1. UNCHANGED <<latest, actor>> /\ phase = "down"
    BY <1>5 DEF Start, tables
  <2>2. \A r \in Requests : req'[r].pc = "idle"
    BY <1>5, ServerStepIdle
  <2>3. \A id \in Ids : ~actor'[id].alive
    BY <2>1 DEF DirInv
  <2> QED
    BY <1>2, <2>1, <2>2, <2>3
<1>6. CASE WriteSentinel \/ WriteNodeConfig
  <2>1. UNCHANGED <<latest, actor, boot, lag, req>>
    BY <1>6 DEF WriteSentinel, WriteNodeConfig, history
  <2>2. \A r \in Requests : req'[r].pc = "idle"
    BY <1>6, ServerStepIdle
  <2> QED
    BY <1>2, <2>1, <2>2
<1>7. CASE UNCHANGED vars
  <2>1. UNCHANGED <<latest, actor, boot, lag, req>>
    BY <1>7 DEF vars, tables, process, history
  <2> QED
    BY <2>1 DEF StoreInv, AloneInv, FreshInv, FreshAt, WayInv, OnItsWay, Holds, InFlight, Snapshot
<1> QED
  BY <1>1, <1>3, <1>4, <1>5, <1>6, <1>7 DEF Next

-----------------------------------------------------------------------------
(* The invariant that carries the rest. *)
IInv == TypeOK /\ OpInv /\ NodeInv /\ DirInv /\ OwnInv /\ RecordInv /\ StoreInv

LEMMA Inductive == Spec => []IInv
<1>1. Init => IInv
  BY InitType, InitOp, InitNode, InitDir, InitOwn, InitRecord, InitStore DEF IInv
<1>2. IInv /\ [Next]_vars => IInv'
  BY BaseStep, NodeStep, DirStep, OwnStep, RecordStep, StoreStep DEF IInv
<1> QED
  BY <1>1, <1>2, PTL DEF Spec

(* What is served is durable: whatever requests, crashes and failed writes  *)
(* come in which order, no resource is in the directory without its record. *)
THEOREM RecordedFirst == Spec => []IdentityFirst
<1>1. IInv => IdentityFirst
  BY DEF IInv, DirInv
<1> QED
  BY <1>1, Inductive, PTL

(* Registrations of one identity that did not overlap are answered with one *)
(* id, in every boot, and the record says so from the first answer on.      *)
THEOREM StableIds == Spec => []IdsStable
<1>1. IInv => IdsStable
  <2> SUFFICES ASSUME KeyInv PROVE IdsStable
    BY DEF IInv, RecordInv
  <2>1. ASSUME NEW ack \in acks, ack[1] \notin raced, NEW other \in acks, other[1] = ack[1]
        PROVE  other = ack
    <3>1. /\ ack[1] \in Keys /\ ack[2] \in Ids /\ other[2] \in Ids
          /\ ack = <<ack[1], ack[2]>> /\ other = <<other[1], other[2]>>
      BY DEF KeyInv
    <3>2. identities[ack[2]] = ack[1] /\ identities[other[2]] = ack[1] /\ ack[1] # None
      BY <2>1, <3>1, RepositoriesAssumption DEF KeyInv
    <3>3. ack[2] = other[2]
      BY <2>1, <3>1, <3>2 DEF KeyInv
    <3> QED
      BY <2>1, <3>1, <3>3
  <2> QED
    BY <2>1 DEF IdsStable, KeyInv
<1> QED
  BY <1>1, Inductive, PTL

(* A start without an explicit node id keeps the node id, whatever crash    *)
(* came between the two rows of persist_local_node_config.                  *)
THEOREM StableNodeId == Spec => NodeIdStable
<1>1. IInv /\ [Next]_vars =>
        [phase = "sentinel" /\ phase' = "up" /\ served # None => served' = served]_vars
  <2> SUFFICES ASSUME IInv, Next, phase = "sentinel", phase' = "up", served # None
               PROVE  served' = served
    BY DEF vars
  <2>1. WriteNodeConfig
    <3>1. ~\E r \in Requests : Serve(r)
      BY ServeReq DEF IInv
    <3> QED
      BY <3>1 DEF Next, Start, WriteSentinel, Halt, Resolve, BuildFails, Pending
  <2> QED
    BY <2>1 DEF WriteNodeConfig, IInv, NodeInv
<1> QED
  BY <1>1, Inductive, PTL DEF Spec, NodeIdStable

(* A transition answered 200 reports a snapshot taken after its own change. *)
THEOREM OwnEffectRead == Spec => []ReadsOwnEffect
<1>1. IInv => ReadsOwnEffect
  BY DEF IInv, OwnInv, OwnAt, ReadsOwnEffect
<1> QED
  BY <1>1, Inductive, PTL

(* The restart projection is current for every resource whose requests came *)
(* one at a time, with no failed write and no accepted transition.          *)
THEOREM CurrentStore == Spec => []StoreCurrent
<1>1. IInv => StoreCurrent
  BY DEF IInv, StoreInv, WayInv, OnItsWay, InFlight, StoreCurrent
<1> QED
  BY <1>1, Inductive, PTL
=============================================================================
