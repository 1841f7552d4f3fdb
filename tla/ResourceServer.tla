--------------------------- MODULE ResourceServer ---------------------------
(***************************************************************************)
(* A persisted server: start-up (Boardwalk::build), POST /resources, the   *)
(* resource reads, listings and transitions of the HTTP core, and crashes. *)
(*                                                                         *)
(* The tables survive a crash; the directory and the actors do not.  Every *)
(* redb transaction and every call of an actor is a step of its own, so    *)
(* that concurrent requests interleave between them.  A snapshot is        *)
(* <<boot, n>>: what the actor of that boot reports after n changes.       *)
(***************************************************************************)
EXTENDS Repositories

CONSTANTS Configs,      \* what use_actor may be given at a start: sets of [key, id]
          Given,        \* ids that clients and operators choose; the rest are generated
          ExplicitNodes,\* what .node_id() may be given at a start; None for not
          NodeIds,      \* node ids
          Legacy,       \* node rows an earlier release may have left
          Requests,     \* request tasks: how many requests a boot gets
          Inputs,       \* what they may be: see Idle
          Outcomes,     \* what a transition may come to
          MaxBoots, MaxChanges, MaxFaults   \* bounds

ASSUME ServerAssumption ==
  /\ \A c \in Configs : c \subseteq [key : Keys, id : Given \cup {None}]
  /\ Given \subseteq Ids /\ IsFiniteSet(Requests)
  /\ None \notin NodeIds /\ ExplicitNodes \subseteq NodeIds \cup {None} /\ Legacy \subseteq Seq(NodeIds)
  /\ \A i \in Inputs : i.op = "register" => i.key \in Keys /\ i.id \in Given \cup {None}
  /\ \A i \in Inputs : i.op \in {"get", "transition"} => i.id \in Ids
  /\ Inputs \subseteq
       [pc : {"idle"}, op : {"get", "list", "register", "transition"},
        key : Keys \cup {None}, id : Ids \cup {None},
        form : {"ok", "media type", "malformed", "no kind", "unknown kind"},
        snap : {None}, ran : {None}, todo : {{}}, got : {{}}, status : {0}]
  /\ None \notin Nat \X Nat
  /\ Outcomes \subseteq {"completed", "accepted", "refused", "panics"}
  /\ MaxBoots \in Nat /\ MaxChanges \in Nat /\ MaxFaults \in Nat

VARIABLES
  identities,   \* table: id -> key
  latest,       \* table: id -> snapshot
  sentinel,     \* table node_configs: the sentinel row
  nodes,        \*   and the rows by node id
  boot,         \* how often the server was started
  phase,        \* "down", "resolving", "sentinel" or "up"
  config,       \* this boot's actors
  nodeId,       \* this boot's node id, and whether it was explicit
  explicitNode,
  dir,          \* the directory: id -> key
  actor,        \* actor[id]: [alive, n]
  req,          \* the requests
  faults,       \* storage failures so far
  \* history
  served,       \* the node id that a start without an explicit one is to keep
  acks,         \* <<key, id>>: a registration of key was answered 201 with id
  raced,        \* keys with two registrations in flight at once
  lag           \* ids whose stored snapshot may lag: see Touch

tables == <<identities, latest, sentinel, nodes>>
process == <<boot, phase, config, nodeId, explicitNode, dir, actor>>
history == <<served, acks, raced, lag>>
vars == <<tables, process, req, faults, history>>

Idle == [pc |-> "idle", op |-> "get", key |-> None, id |-> None, form |-> "ok",
         snap |-> None, ran |-> None, todo |-> {}, got |-> {}, status |-> 0]
Gone == [alive |-> FALSE, n |-> 0]
Snapshot(id) == <<boot, actor[id].n>>
InFlight(r) == req[r].pc \notin {"idle", "done"}

Init ==
  /\ identities = [id \in Ids |-> None]
  /\ latest = [id \in Ids |-> None]
  /\ sentinel = None /\ nodes \in Legacy
  /\ boot = 0 /\ phase = "down" /\ config = {} /\ nodeId = None /\ explicitNode = FALSE
  /\ dir = [id \in Ids |-> None] /\ actor = [id \in Ids |-> Gone]
  /\ req = [r \in Requests |-> Idle] /\ faults = 0
  /\ served = GetLocal(None, nodes) /\ acks = {} /\ raced = {} /\ lag = {}

-----------------------------------------------------------------------------
(* Uuid::new_v4: an id nobody has seen. *)
Fresh == Ids \ (Given \cup {id \in Ids : identities[id] # None} \cup {req[r].id : r \in {q \in Requests : InFlight(q)}})
FreshNode == NodeIds \ ({sentinel, served} \cup ExplicitNodes \cup {nodes[i] : i \in DOMAIN nodes})

(* Boardwalk::build: read the node id, ... *)
Start ==
  /\ phase = "down" /\ boot < MaxBoots
  /\ \E e \in ExplicitNodes, fresh \in FreshNode :
       /\ nodeId' = ResolveNodeId(e, GetLocal(sentinel, nodes), fresh)
       /\ explicitNode' = (e # None)
       /\ served' = IF e # None THEN None ELSE served
  /\ config' \in Configs
  /\ boot' = boot + 1 /\ phase' = "resolving"
  /\ UNCHANGED <<tables, dir, actor, req, faults, acks, raced, lag>>

(* ... give each configured actor its id and start it, ... *)
Pending(c) == phase = "resolving" /\ c \in config /\ \A id \in Ids : dir[id] # c.key
Resolve(c) ==
  /\ Pending(c)
  /\ LET i == Identity(identities, c.key, c.id)
     IN /\ i.is # "conflict"
        /\ \E id \in IF i.is = "mint" THEN Fresh ELSE {i.id} :
             /\ identities' = PutRow(identities, id, c.key)
             /\ dir' = [dir EXCEPT ![id] = c.key]
             /\ actor' = [actor EXCEPT ![id] = [alive |-> TRUE, n |-> 0]]
  /\ UNCHANGED <<latest, sentinel, nodes, boot, phase, config, nodeId, explicitNode, req, faults, history>>

BuildFails(c) ==
  /\ Pending(c) /\ Identity(identities, c.key, c.id).is = "conflict"
  /\ phase' = "down" /\ nodeId' = None
  /\ dir' = [id \in Ids |-> None] /\ actor' = [id \in Ids |-> Gone]
  /\ UNCHANGED <<tables, boot, config, explicitNode, req, faults, history>>

(* ... and persist_local_node_config, two transactions, before serving. *)
WriteSentinel ==
  /\ phase = "resolving" /\ \A c \in config : ~Pending(c)
  /\ sentinel' = nodeId /\ phase' = "sentinel"
  /\ UNCHANGED <<identities, latest, nodes, boot, config, nodeId, explicitNode, dir, actor, req, faults, history>>

WriteNodeConfig ==
  /\ phase = "sentinel"
  /\ nodes' = Append(SelectSeq(nodes, LAMBDA n : n # nodeId), nodeId)
  /\ phase' = "up" /\ served' = nodeId
  /\ UNCHANGED <<identities, latest, sentinel, boot, config, nodeId, explicitNode, dir, actor, req, faults,
                 acks, raced, lag>>

(* The process ends, at any moment: what is not in a table is gone.  A     *)
(* graceful stop (listen_until_on) is one with no request in flight.       *)
Halt ==
  /\ phase # "down"
  /\ phase' = "down" /\ nodeId' = None
  /\ dir' = [id \in Ids |-> None] /\ actor' = [id \in Ids |-> Gone]
  /\ req' = [r \in Requests |-> Idle]
  /\ lag' = {}
  /\ UNCHANGED <<tables, boot, config, explicitNode, faults, served, acks, raced>>

-----------------------------------------------------------------------------
Step(r, pc) == phase = "up" /\ req[r].pc = pc
Goto(r, pc) == req' = [req EXCEPT ![r].pc = pc]
Done(r, status) == [Idle EXCEPT !.pc = "done", !.op = req[r].op, !.status = status,
                                !.snap = IF req[r].ran = None THEN None ELSE req[r].snap, !.ran = req[r].ran]
Reply(r, status) == req' = [req EXCEPT ![r] = Done(r, status)]

(* Two requests on one resource at a time: what they store may be stale. *)
Touch(r, id) == IF \E s \in Requests \ {r} : InFlight(s) /\ (req[s].id = id \/ req[s].op = "list")
                THEN {id} ELSE {}

(* resources_post, transition_response and the registrar: what is refused  *)
(* before any state is read.                                               *)
Refusal(form) ==
  CASE form = "media type" -> 415
    [] form \in {"malformed", "no kind", "unknown kind"} -> 400

(* Two registrations of one identity, or of one id, at a time. *)
Races(i) ==
  LET others == {s \in Requests : InFlight(s) /\ req[s].op = "register" /\ i.op = "register"}
  IN {req[s].key : s \in {q \in others : req[q].key = i.key \/ (i.id # None /\ req[q].id = i.id)}}
     \cup {i.key : s \in {q \in others : i.id # None /\ req[q].id = i.id}}

(* A request arrives.  A list reads the directory's entries as they are.   *)
Arrive(r) ==
  /\ phase = "up" /\ req[r].pc = "idle"
  /\ \E i \in Inputs :
       LET first == CASE i.op = "register" -> "lookup" [] i.op = "transition" -> "run"
                      [] i.op = "get" -> "read" [] i.op = "list" -> "list"
       IN /\ req' = [req EXCEPT ![r] = IF i.form # "ok" THEN [Idle EXCEPT !.pc = "done", !.op = i.op, !.status = Refusal(i.form)]
                                       ELSE [i EXCEPT !.pc = first,
                                                      !.todo = IF i.op = "list" THEN {id \in Ids : dir[id] # None} ELSE {}]]
          /\ raced' = raced \cup Races(i)
          /\ lag' = lag \cup (IF i.id # None THEN Touch(r, i.id) ELSE {})
  /\ UNCHANGED <<tables, process, faults, served, acks>>

-----------------------------------------------------------------------------
(* The registrar.  First the reads of resolve_or_create_resource_identity. *)
Lookup(r) ==
  /\ Step(r, "lookup")
  /\ LET i == Identity(identities, req[r].key, req[r].id)
     IN \E id \in IF i.is = "mint" THEN Fresh ELSE {i.id} :
          /\ req' = [req EXCEPT ![r] = IF i.is = "conflict" THEN Done(r, 409)
                                       ELSE [@ EXCEPT !.id = id, !.pc = IF i.is = "known" THEN "insert" ELSE "check"]]
          /\ lag' = lag \cup Touch(r, id)
  /\ UNCHANGED <<tables, process, faults, served, acks, raced>>

(* put: the overlap check reads the table in one transaction, *)
PutCheck(r) ==
  /\ Step(r, "check")
  /\ IF PutConflicts(identities, req[r].id, req[r].key) THEN Reply(r, 409) ELSE Goto(r, "write")
  /\ UNCHANGED <<tables, process, faults, history>>

(* and the record is written in another, which may fail. *)
PutWriteLate(r) ==   \* faulty: registers without the record
  /\ Step(r, "write")
  /\ Goto(r, "insert")
  /\ UNCHANGED <<tables, process, faults, history>>
PutWrite(r) ==
  /\ Step(r, "write")
  /\ identities' = PutRow(identities, req[r].id, req[r].key)
  /\ Goto(r, "insert")
  /\ UNCHANGED <<latest, sentinel, nodes, process, faults, history>>

PutFails(r) ==
  /\ Step(r, "write") /\ faults < MaxFaults
  /\ faults' = faults + 1
  /\ Reply(r, 500)
  /\ UNCHANGED <<tables, process, history>>

(* Node::register_with_id, under the directory's write lock. *)
Insert(r) ==
  /\ Step(r, "insert")
  /\ LET id == req[r].id
     IN IF dir[id] # None THEN Reply(r, 409) /\ UNCHANGED <<dir, actor>>
        ELSE /\ dir' = [dir EXCEPT ![id] = req[r].key]
             /\ actor' = [actor EXCEPT ![id] = [alive |-> TRUE, n |-> 0]]
             /\ Goto(r, "first")
  /\ UNCHANGED <<tables, boot, phase, config, nodeId, explicitNode, faults, history>>

(* The registrar's own snapshot, stored without comparing. *)
FirstRead(r) ==
  /\ Step(r, "first")
  /\ req' = [req EXCEPT ![r].pc = IF actor[req[r].id].alive THEN "store" ELSE "read",
                        ![r].snap = IF actor[req[r].id].alive THEN Snapshot(req[r].id) ELSE None]
  /\ UNCHANGED <<tables, process, faults, history>>

-----------------------------------------------------------------------------
(* run_resource_transition: the actor runs it, *)
RunTransition(r) ==
  /\ Step(r, "run")
  /\ LET id == req[r].id
     IN IF dir[id] = None THEN Reply(r, 404) /\ UNCHANGED <<actor, lag>>
        ELSE IF ~actor[id].alive THEN Reply(r, 500) /\ UNCHANGED <<actor, lag>>
        ELSE \E outcome \in Outcomes :
          \/ /\ outcome \in {"completed", "accepted"} /\ actor[id].n < MaxChanges
             /\ actor' = [actor EXCEPT ![id].n = @ + 1]
             /\ IF outcome = "completed"
                THEN req' = [req EXCEPT ![r].pc = "read", ![r].ran = <<boot, actor[id].n + 1>>] /\ UNCHANGED lag
                ELSE Reply(r, 202) /\ lag' = lag \cup {id}
          \/ outcome = "refused" /\ Reply(r, 409) /\ UNCHANGED <<actor, lag>>
          \/ /\ outcome = "panics"
             /\ actor' = [actor EXCEPT ![id].alive = FALSE]
             /\ \E dropped \in SUBSET {s \in Requests : InFlight(s) /\ req[s].pc = "read" /\ req[s].id = id} :
                  req' = [s \in Requests |-> IF s \in dropped \cup {r} THEN Done(s, 500) ELSE req[s]]
             /\ lag' = lag \cup {id}
  /\ UNCHANGED <<tables, boot, phase, config, nodeId, explicitNode, dir, faults, served, acks, raced>>

(* then its snapshot is read again; a get starts here.  An actor that is   *)
(* gone leaves a get with the stored snapshot, a transition with an error  *)
(* although it has run.                                                    *)
Status(r) == IF req[r].op = "register" THEN 201 ELSE 200
ReadSnapshotStored(r) ==   \* faulty: answers from the store what it can
  /\ Step(r, "read")
  /\ LET id == req[r].id  from == IF latest[req[r].id] # None THEN latest[req[r].id] ELSE Snapshot(req[r].id)
     IN IF dir[id] = None THEN Reply(r, IF req[r].op = "get" THEN 404 ELSE 500)
        ELSE req' = [req EXCEPT ![r].pc = "compare", ![r].snap = from]
  /\ UNCHANGED <<tables, process, faults, history>>
ReadSnapshot(r) ==
  /\ Step(r, "read")
  /\ LET id == req[r].id
     IN IF dir[id] = None THEN Reply(r, IF req[r].op = "get" THEN 404 ELSE 500)
        ELSE IF actor[id].alive THEN req' = [req EXCEPT ![r].pc = "compare", ![r].snap = Snapshot(id)]
        ELSE IF req[r].op = "transition" \/ latest[id] = None THEN Reply(r, 503)
        ELSE Reply(r, Status(r))
  /\ UNCHANGED <<tables, process, faults, history>>

(* persist_latest_resource_snapshot: compare in one transaction, *)
AfterStore(r) == IF req[r].op = "list" THEN "keep" ELSE IF req[r].pc = "store" THEN "read" ELSE "answer"
CompareAny(r) ==   \* faulty: keeps whatever is stored
  /\ Step(r, "compare")
  /\ Goto(r, IF latest[req[r].id] # None THEN AfterStore(r) ELSE "upsert")
  /\ UNCHANGED <<tables, process, faults, history>>
Compare(r) ==
  /\ Step(r, "compare")
  /\ Goto(r, IF latest[req[r].id] = req[r].snap THEN AfterStore(r) ELSE "upsert")
  /\ UNCHANGED <<tables, process, faults, history>>

(* store in another; a failure is logged and forgotten. *)
Upsert(r) ==
  /\ Step(r, "upsert") \/ Step(r, "store")
  /\ latest' = PutRow(latest, req[r].id, req[r].snap)
  /\ Goto(r, AfterStore(r))
  /\ UNCHANGED <<identities, sentinel, nodes, process, faults, history>>

UpsertFails(r) ==
  /\ Step(r, "upsert") \/ Step(r, "store")
  /\ faults < MaxFaults /\ faults' = faults + 1
  /\ lag' = lag \cup {req[r].id}
  /\ Goto(r, AfterStore(r))
  /\ UNCHANGED <<tables, process, served, acks, raced>>

Answer(r) ==
  /\ Step(r, "answer")
  /\ Reply(r, Status(r))
  /\ acks' = IF req[r].op = "register" THEN acks \cup {<<req[r].key, req[r].id>>} ELSE acks
  /\ UNCHANGED <<tables, process, faults, served, raced, lag>>

-----------------------------------------------------------------------------
(* list_resources: first every entry is read, one after the other; *)
ListRead(r) ==
  /\ Step(r, "list") /\ req[r].todo # {}
  /\ \E id \in req[r].todo :
       /\ req' = [req EXCEPT ![r].todo = @ \ {id},
                             ![r].got = IF actor[id].alive THEN @ \cup {[id |-> id, snap |-> Snapshot(id)]} ELSE @]
       /\ lag' = lag \cup Touch(r, id)
  /\ UNCHANGED <<tables, process, faults, served, acks, raced>>

ListReadDone(r) ==
  /\ Step(r, "list") /\ req[r].todo = {}
  /\ Goto(r, "keep")
  /\ UNCHANGED <<tables, process, faults, history>>

(* then each snapshot is stored like that of a get, while the unavailable  *)
(* ones are answered from the store or by a placeholder.                   *)
ListKeep(r) ==
  /\ Step(r, "keep")
  /\ IF req[r].got = {} THEN Reply(r, 200)
     ELSE \E g \in req[r].got :
            req' = [req EXCEPT ![r].got = @ \ {g}, ![r].id = g.id, ![r].snap = g.snap, ![r].pc = "compare"]
  /\ UNCHANGED <<tables, process, faults, history>>

-----------------------------------------------------------------------------
Serve(r) == \/ Arrive(r) \/ Lookup(r) \/ PutCheck(r) \/ PutWrite(r) \/ PutFails(r) \/ Insert(r)
            \/ FirstRead(r) \/ RunTransition(r) \/ ReadSnapshot(r) \/ Compare(r) \/ Upsert(r)
            \/ UpsertFails(r) \/ Answer(r) \/ ListRead(r) \/ ListReadDone(r) \/ ListKeep(r)
Next ==
  \/ Start \/ WriteSentinel \/ WriteNodeConfig \/ Halt
  \/ \E c \in config : Resolve(c) \/ BuildFails(c)
  \/ \E r \in Requests : Serve(r)

Spec == Init /\ [][Next]_vars

-----------------------------------------------------------------------------
(* What is served is durable: a resource is in the directory only once its *)
(* identity is in the table, so that no crash can lose the id of a         *)
(* resource a client may have seen (put before register_with_id).          *)
IdentityFirst == \A id \in Ids : dir[id] # None => identities[id] # None

(* Ids are stable: every registration of an identity that was answered     *)
(* 201, in whatever boot and around whatever crashes and failed writes,    *)
(* was answered with the same id, and the record still says so; unless two *)
(* registrations of it, or of its id, were in flight at once.              *)
IdsStable ==
  \A ack \in acks : ack[1] \notin raced =>
    /\ identities[ack[2]] = ack[1]
    /\ \A other \in acks : other[1] = ack[1] => other = ack

(* A start without an explicit node id comes up with the id of the last    *)
(* start that came up, or the one an earlier release left, whatever        *)
(* crashes came between the two rows of persist_local_node_config.         *)
NodeIdStable == [][phase = "sentinel" /\ phase' = "up" /\ served # None => served' = served]_vars

(* A transition answered 200 reports a snapshot that includes its own      *)
(* effect, whatever other requests did in between.                         *)
ReadsOwnEffect ==
  \A r \in Requests : req[r].pc = "done" /\ req[r].op = "transition" /\ req[r].status = 200 =>
    req[r].snap[1] = req[r].ran[1] /\ req[r].snap[2] >= req[r].ran[2]

(* The stored snapshot is the latest: when no request on a resource is in  *)
(* flight, the restart projection holds what its actor last reached,       *)
(* provided requests came one at a time, no write failed, and no           *)
(* transition was accepted rather than completed.                          *)
StoreCurrent ==
  \A id \in Ids \ lag :
    actor[id].alive /\ actor[id].n > 0 /\ ~(\E r \in Requests : InFlight(r) /\ req[r].id = id) =>
      latest[id] = Snapshot(id)
=============================================================================
