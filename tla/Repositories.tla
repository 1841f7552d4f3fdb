---------------------------- MODULE Repositories ----------------------------
(***************************************************************************)
(* The tables behind Boardwalk::persist (persistence/mod.rs, redb.rs) and  *)
(* the decisions taken on them (server.rs): which id an identity has, and  *)
(* which id the node has.                                                  *)
(*                                                                         *)
(* An identity table is a function from ids to the key (kind and name) its *)
(* record carries, None where there is no record; a spec has exactly one   *)
(* identity key.  Ids are numbers, in the table's iteration order.         *)
(***************************************************************************)
EXTENDS Integers, Sequences, FiniteSets

CONSTANTS Ids,      \* resource ids
          Keys,     \* identity keys
          None

ASSUME RepositoriesAssumption ==
  /\ Ids \subseteq Nat /\ IsFiniteSet(Ids)
  /\ None \notin Ids /\ None \notin Keys

(* put_json and get_json are one transaction each. *)
PutRow(table, row, value) == [table EXCEPT ![row] = value]

(* list_json, and the first record that carries the key. *)
Carrying(table, key) == {id \in DOMAIN table : table[id] = key}
FindByIdentityKey(table, key) ==
  IF Carrying(table, key) = {} THEN None
  ELSE CHOOSE id \in Carrying(table, key) : \A other \in Carrying(table, key) : id <= other

(* The check that opens RedbResourceIdentityRepository::put. *)
PutConflicts(table, id, key) == Carrying(table, key) \ {id} # {}

(* NodeConfigRepository: the sentinel row and the rows by node id, the     *)
(* latter in the order of their updated_ms.                                *)
GetLocal(sentinel, nodes) ==
  IF sentinel # None THEN sentinel
  ELSE IF nodes = <<>> THEN None ELSE nodes[Len(nodes)]

(* resolve_node_id with persistence on. *)
ResolveNodeIdNewest(explicit, persisted, generated) ==   \* faulty: a persisted id is not reused
  IF explicit # None THEN explicit ELSE generated
ResolveNodeId(explicit, persisted, generated) ==
  IF explicit # None THEN explicit
  ELSE IF persisted # None THEN persisted ELSE generated

IdentityTrusting(table, key, explicit) ==   \* faulty: a known id is not matched with the spec
  LET found == FindByIdentityKey(table, key)
  IN IF explicit # None /\ table[explicit] # None THEN [is |-> "known", id |-> explicit]
     ELSE IF explicit # None THEN [is |-> "put", id |-> explicit]
     ELSE IF found # None THEN [is |-> "known", id |-> found] ELSE [is |-> "mint", id |-> None]

(* resolve_or_create_resource_identity up to the point where it writes:    *)
(* the id it uses without writing, a conflict, or a record to put.         *)
Identity(table, key, explicit) ==
  LET found == FindByIdentityKey(table, key)
  IN IF explicit = None
     THEN IF found # None THEN [is |-> "known", id |-> found] ELSE [is |-> "mint", id |-> None]
     ELSE IF table[explicit] # None
     THEN IF table[explicit] = key THEN [is |-> "known", id |-> explicit]
          ELSE [is |-> "conflict", id |-> explicit]
     ELSE IF found # None /\ found # explicit THEN [is |-> "conflict", id |-> explicit]
     ELSE [is |-> "put", id |-> explicit]
=============================================================================
