---------------------------- MODULE StreamReplay ----------------------------
(***************************************************************************)
(* The stream registry (events/sequencer.rs) and the replay cache          *)
(* (events/replay.rs) that every publication goes through.  The registry   *)
(* hands out the per-stream sequence and keeps the reverse index           *)
(* event id -> stream; the cache keeps the last ReplayCapacity envelopes   *)
(* of a stream and prunes the index when it evicts one.  The operators     *)
(* below are the critical sections of the code, one per lock acquisition;  *)
(* EventBus strings them together into the publish path.                   *)
(*                                                                         *)
(* An envelope is reduced to its stream, its sequence and the value its    *)
(* payload has under a coalesce key path; an event id is the pair          *)
(* <<stream, sequence>> the code formats into a string.                    *)
(***************************************************************************)
EXTENDS Integers, Sequences, FiniteSets

CONSTANTS Streams,         \* stream ids
          Keys,            \* payload values a coalesce key path can resolve to
          NoKey,           \* the key path does not resolve
          ReplayCapacity   \* capacity_per_stream

ASSUME ReplayAssumption == ReplayCapacity \in Nat

VARIABLES nextSequence,    \* nextSequence[st]: StreamState.next_sequence
          byEventId,       \* the ids in the registry's reverse index
          ring             \* ring[st]: the replay ring, oldest first

replayVars == <<nextSequence, byEventId, ring>>

Event == [stream : Streams, seq : Nat \ {0}, key : Keys \cup {NoKey}]
EventId(e) == <<e.stream, e.seq>>

ReplayTypeOK ==
  /\ nextSequence \in [Streams -> Nat \ {0}]
  /\ byEventId \in SUBSET (Streams \X (Nat \ {0}))
  /\ ring \in [Streams -> Seq(Event)]

ReplayInit ==
  /\ nextSequence = [st \in Streams |-> 1]
  /\ byEventId = {}
  /\ ring = [st \in Streams |-> <<>>]

-----------------------------------------------------------------------------
(* StreamRegistry::allocate.  The counter and the index have a lock each,  *)
(* but no other task can name the new id before this one publishes it.     *)
Allocated(st, k) == [stream |-> st, seq |-> nextSequence[st], key |-> k]

Allocate(st, k) ==
  /\ nextSequence' = [nextSequence EXCEPT ![st] = @ + 1]
  /\ byEventId' = byEventId \cup {EventId(Allocated(st, k))}

(* StreamRegistry::evict. *)
Evict(ids) == byEventId' = byEventId \ ids

(* StreamReplayCache::record up to the unlock: pop the oldest envelope of  *)
(* a full ring, then push.  pop_front on an empty ring evicts nothing, so  *)
(* a capacity of 0 behaves as 1.                                           *)
Full(st) == Len(ring[st]) >= ReplayCapacity /\ ring[st] # <<>>

EvictedNone(e) == {}   \* faulty: the evicted id is never pruned
EvictedBy(e) == IF Full(e.stream) THEN {EventId(Head(ring[e.stream]))} ELSE {}

Record(e) ==
  ring' = [ring EXCEPT ![e.stream] = Append(IF Full(e.stream) THEN Tail(@) ELSE @, e)]

(* StreamReplayCache::events_after: the filter, and what it comes to when  *)
(* no envelope is filtered out.                                            *)
After(e, n) == e.seq > n
EventsAfter(st, n) ==
  IF \A i \in DOMAIN ring[st] : After(ring[st][i], n)
  THEN ring[st]
  ELSE SelectSeq(ring[st], LAMBDA e : After(e, n))

RingIds == UNION {{EventId(ring[str][i]) : i \in DOMAIN ring[str]} : str \in Streams}
=============================================================================
