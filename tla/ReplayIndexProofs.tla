-------------------------- MODULE ReplayIndexProofs --------------------------
(***************************************************************************)
(* The reverse index of the stream registry is exact: IndexBounded of      *)
(* EventBus, for every set of streams and publishers and every capacity of *)
(* the replay ring.                                                        *)
(*                                                                         *)
(* IndexBounded alone is not inductive: pruning an id that another         *)
(* publisher or the ring still holds would break it, so the invariant has  *)
(* to say that an id has one holder.  It rests on the sequencer: an id     *)
(* just allocated is above every id in the index.                          *)
(***************************************************************************)
EXTENDS EventBusProofs

(* The ids of the envelopes in a ring. *)
IdsOf(q) == {EventId(q[i]) : i \in DOMAIN q}

(* The id a publisher answers for: the one it allocated and has yet to      *)
(* record or reject, then the ones its record evicted and it has to prune.  *)
Held(p) == IF pc[p] = "allocated" THEN {EventId(event[p])} ELSE evicted[p]

(* A ring holds envelopes of its stream, each id once. *)
RingInv ==
  \A str \in Streams :
     /\ \A i \in DOMAIN ring[str] : ring[str][i].stream = str
     /\ \A i, j \in DOMAIN ring[str] : EventId(ring[str][i]) = EventId(ring[str][j]) => i = j

(* Ids in the index were handed out before. *)
PastInv == \A id \in byEventId : id[2] < nextSequence[id[1]]

(* Evictions are pending only between record() and evict(). *)
PendingInv == \A p \in Publishers : pc[p] # "recorded" => evicted[p] = {}

(* An id has one holder: a ring or a publisher. *)
HolderInv ==
  /\ \A p \in Publishers : Held(p) \cap RingIds = {}
  /\ \A p, q \in Publishers : p # q => Held(p) \cap Held(q) = {}

(* The index holds exactly the ids that are held. *)
ExactInv == \A id : id \in byEventId <=> id \in RingIds \/ \E p \in Publishers : id \in Held(p)

XInv == TInv /\ RingInv /\ PastInv /\ PendingInv /\ HolderInv /\ ExactInv

-----------------------------------------------------------------------------
(* The ids in a ring after a push. *)
LEMMA PushedIds ==
  ASSUME NEW q \in Seq(Event), NEW e \in Event
  PROVE  /\ IdsOf(Append(q, e)) = IdsOf(q) \cup {EventId(e)}
         /\ \A i \in DOMAIN Append(q, e) : \/ i \in DOMAIN q /\ Append(q, e)[i] = q[i]
                                           \/ i = Len(q) + 1 /\ Append(q, e)[i] = e
<1>1. /\ DOMAIN Append(q, e) = 1 .. Len(q) + 1 /\ DOMAIN q = 1 .. Len(q) /\ Len(q) \in Nat
      /\ \A i \in 1 .. Len(q) : Append(q, e)[i] = q[i]
      /\ Append(q, e)[Len(q) + 1] = e
  OBVIOUS
<1>2. \A i \in DOMAIN Append(q, e) : \/ i \in DOMAIN q /\ Append(q, e)[i] = q[i]
                                     \/ i = Len(q) + 1 /\ Append(q, e)[i] = e
  BY <1>1
<1>3. Len(q) + 1 \in DOMAIN Append(q, e) /\ \A i \in DOMAIN q : i \in DOMAIN Append(q, e)
  BY <1>1
<1>4. IdsOf(Append(q, e)) \subseteq IdsOf(q) \cup {EventId(e)}
  BY <1>2 DEF IdsOf
<1>5. IdsOf(q) \cup {EventId(e)} \subseteq IdsOf(Append(q, e))
  BY <1>1, <1>3 DEF IdsOf
<1> QED
  BY <1>2, <1>4, <1>5

(* The ids in a ring after the oldest envelope left it. *)
LEMMA PoppedIds ==
  ASSUME NEW q \in Seq(Event), q # <<>>,
         \A i, j \in DOMAIN q : EventId(q[i]) = EventId(q[j]) => i = j
  PROVE  /\ Head(q) \in Event /\ EventId(Head(q)) \in IdsOf(q)
         /\ IdsOf(Tail(q)) = IdsOf(q) \ {EventId(Head(q))}
         /\ Tail(q) \in Seq(Event)
         /\ \A i \in DOMAIN Tail(q) : i + 1 \in DOMAIN q /\ Tail(q)[i] = q[i + 1]
<1>1. /\ DOMAIN q = 1 .. Len(q) /\ Len(q) \in Nat \ {0} /\ 1 \in DOMAIN q /\ Head(q) = q[1]
      /\ Head(q) \in Event /\ Tail(q) \in Seq(Event)
      /\ DOMAIN Tail(q) = 1 .. Len(q) - 1
      /\ \A i \in 1 .. Len(q) - 1 : Tail(q)[i] = q[i + 1]
  OBVIOUS
<1>2. \A i \in DOMAIN Tail(q) : i + 1 \in DOMAIN q /\ Tail(q)[i] = q[i + 1] /\ i + 1 # 1
  BY <1>1
<1>3. \A i \in DOMAIN q : i # 1 => \E j \in DOMAIN Tail(q) : i = j + 1
  <2> SUFFICES ASSUME NEW i \in DOMAIN q, i # 1 PROVE i - 1 \in DOMAIN Tail(q) /\ i = (i - 1) + 1
    OBVIOUS
  <2> QED
    BY <1>1
<1>4. EventId(Head(q)) \in IdsOf(q)
  BY <1>1 DEF IdsOf
<1>5. ASSUME NEW x \in IdsOf(Tail(q)) PROVE x \in IdsOf(q) \ {EventId(Head(q))}
  <2>1. PICK i \in DOMAIN Tail(q) : x = EventId(Tail(q)[i])
    BY <1>5 DEF IdsOf
  <2>2. x = EventId(q[i + 1]) /\ i + 1 \in DOMAIN q /\ i + 1 # 1
    BY <1>2, <2>1
  <2>3. x # EventId(q[1])
    BY <1>1, <2>2
  <2> QED
    BY <1>1, <2>2, <2>3 DEF IdsOf
<1>6. ASSUME NEW x \in IdsOf(q), x # EventId(Head(q)) PROVE x \in IdsOf(Tail(q))
  <2>1. PICK i \in DOMAIN q : x = EventId(q[i])
    BY <1>6 DEF IdsOf
  <2>2. PICK j \in DOMAIN Tail(q) : i = j + 1
    BY <1>1, <1>3, <1>6, <2>1
  <2>3. x = EventId(Tail(q)[j])
    BY <1>2, <2>1, <2>2
  <2> QED
    BY <2>3 DEF IdsOf
<1>7. IdsOf(Tail(q)) = IdsOf(q) \ {EventId(Head(q))}
  BY <1>5, <1>6
<1> QED
  BY <1>1, <1>2, <1>4, <1>7

(* Which ids the rings hold, stream by stream. *)
LEMMA RingIdsOf == \A id : id \in RingIds <=> \E str \in Streams : id \in IdsOf(ring[str])
  BY DEF RingIds, IdsOf

(* An id names its stream, so it can only be in that stream's ring. *)
LEMMA OwnRing ==
  ASSUME XInv, NEW str \in Streams, NEW id \in IdsOf(ring[str])
  PROVE  id[1] = str
<1>1. PICK i \in DOMAIN ring[str] : id = EventId(ring[str][i])
  BY DEF IdsOf
<1>2. ring[str][i].stream = str
  BY DEF XInv, RingInv
<1> QED
  BY <1>1, <1>2 DEF EventId

(* Steps that leave the registry, the rings and every holder alone. *)
LEMMA IndexQuiet ==
  ASSUME XInv, TInv', UNCHANGED replayVars,
         \A p \in Publishers : Held(p)' = Held(p),
         \A p \in Publishers : pc'[p] # "recorded" => evicted'[p] = {}
  PROVE  XInv'
<1>1. RingIds' = RingIds
  BY DEF replayVars, RingIds
<1>2. RingInv' /\ PastInv'
  BY DEF XInv, RingInv, PastInv, replayVars
<1>3. HolderInv'
  BY <1>1 DEF XInv, HolderInv
<1>4. ExactInv'
  BY <1>1 DEF XInv, ExactInv, replayVars
<1> QED
  BY <1>2, <1>3, <1>4 DEF XInv, PendingInv

(* StreamRegistry::allocate: the new id is above every id in the index. *)
LEMMA IndexAllocate ==
  ASSUME XInv, NEW p \in Publishers, NEW str \in Streams, NEW k \in Keys \cup {NoKey},
         PublishEnvelope(p, str, k)
  PROVE  XInv'
<1> DEFINE id == <<str, nextSequence[str]>>
<1>1. TInv /\ TInv'
  BY AllocateType DEF XInv
<1>2. /\ pc \in [Publishers -> PcStates] /\ event \in [Publishers -> Event \cup {NoEvent}]
      /\ nextSequence \in [Streams -> Nat \ {0}] /\ byEventId \in SUBSET (Streams \X (Nat \ {0}))
  BY <1>1 DEF TInv, TypeOK, ReplayTypeOK
<1>3. EventId(Allocated(str, k)) = id
  BY DEF EventId, Allocated
<1>4. /\ pc[p] = "idle" /\ pc' = [pc EXCEPT ![p] = "allocated"]
      /\ event' = [event EXCEPT ![p] = Allocated(str, k)]
      /\ nextSequence' = [nextSequence EXCEPT ![str] = @ + 1]
      /\ byEventId' = byEventId \cup {id}
      /\ UNCHANGED <<ring, evicted>>
  BY <1>3 DEF PublishEnvelope, Allocate
<1>5. id \notin byEventId
  BY <1>2 DEF XInv, PastInv
<1>6. Held(p) = {} /\ Held(p)' = {id} /\ \A q \in Publishers : q # p => Held(q)' = Held(q)
  BY <1>2, <1>3, <1>4 DEF XInv, PendingInv, Held
<1>7. RingIds' = RingIds
  BY <1>4 DEF RingIds
<1>8. RingInv'
  BY <1>4 DEF XInv, RingInv
<1>9. PastInv'
  <2> SUFFICES ASSUME NEW x \in byEventId' PROVE x[2] < nextSequence'[x[1]]
    BY DEF PastInv
  <2>1. CASE x = id
    BY <1>2, <1>4, <2>1
  <2>2. CASE x \in byEventId
    <3>1. x[1] \in Streams /\ x[2] \in Nat /\ x[2] < nextSequence[x[1]]
      BY <1>2, <2>2 DEF XInv, PastInv
    <3>2. nextSequence'[x[1]] \in {nextSequence[x[1]], nextSequence[x[1]] + 1}
      BY <1>2, <1>4, <3>1
    <3> QED
      BY <1>2, <3>1, <3>2
  <2> QED
    BY <1>4, <2>1, <2>2
<1>10. PendingInv'
  BY <1>2, <1>4 DEF XInv, PendingInv
<1>11. id \notin RingIds /\ \A q \in Publishers : id \notin Held(q)
  BY <1>5 DEF XInv, ExactInv
<1>12. HolderInv'
  BY <1>6, <1>7, <1>11 DEF XInv, HolderInv
<1>13. ExactInv'
  BY <1>4, <1>6, <1>7 DEF XInv, ExactInv
<1> QED
  BY <1>1, <1>8, <1>9, <1>10, <1>12, <1>13 DEF XInv

(* StreamRegistry::evict takes the publisher's own ids out of the index,    *)
(* after an oversize rejection or for what its record evicted.              *)
LEMMA IndexEvict ==
  ASSUME XInv, NEW p \in Publishers, RejectTooLarge(p) \/ PruneIndex(p)
  PROVE  XInv'
<1>1. TInv /\ TInv'
  BY RecordType DEF XInv
<1>2. /\ pc \in [Publishers -> PcStates] /\ event \in [Publishers -> Event \cup {NoEvent}]
      /\ evicted \in [Publishers -> SUBSET (Streams \X (Nat \ {0}))]
  BY <1>1 DEF TInv, TypeOK
<1>3. /\ UNCHANGED <<nextSequence, ring>>
      /\ byEventId' = byEventId \ Held(p)
      /\ Held(p)' = {} /\ \A q \in Publishers : q # p => Held(q)' = Held(q)
      /\ PendingInv'
  <2>1. CASE RejectTooLarge(p)
    BY <1>2, <2>1 DEF RejectTooLarge, Evict, Held, XInv, PendingInv
  <2>2. CASE PruneIndex(p)
    BY <1>2, <2>2 DEF PruneIndex, Evict, Held, XInv, PendingInv
  <2> QED
    BY <2>1, <2>2
<1>4. RingIds' = RingIds
  BY <1>3 DEF RingIds
<1>5. RingInv' /\ PastInv'
  BY <1>3 DEF XInv, RingInv, PastInv
<1>6. HolderInv'
  BY <1>3, <1>4 DEF XInv, HolderInv
<1>7. ExactInv'
  BY <1>3, <1>4 DEF XInv, ExactInv, HolderInv
<1> QED
  BY <1>1, <1>3, <1>5, <1>6, <1>7 DEF XInv

(* StreamReplayCache::record moves the publisher's id into the ring and     *)
(* makes it answer for the id it pushed out.                                *)
LEMMA IndexRecord ==
  ASSUME XInv, NEW p \in Publishers, RecordEnvelope(p)
  PROVE  XInv'
<1>1. TInv /\ TInv'
  BY RecordType DEF XInv
<1>2. /\ pc \in [Publishers -> PcStates] /\ event \in [Publishers -> Event \cup {NoEvent}]
      /\ evicted \in [Publishers -> SUBSET (Streams \X (Nat \ {0}))]
      /\ ring \in [Streams -> Seq(Event)] /\ event[p] \in Event
  BY <1>1 DEF TInv, TypeOK, ReplayTypeOK, HoldsEvent, RecordEnvelope
<1>3. PICK e \in Event : e = event[p]
  BY <1>2
<1>4. PICK str \in Streams : str = e.stream
  BY DEF Event
<1> DEFINE q == ring[str]
<1> DEFINE id == EventId(e)
<1> DEFINE out == EvictedBy(e)
<1> DEFINE r == IF Full(str) THEN Tail(q) ELSE q
<1>5. /\ pc[p] = "allocated" /\ pc' = [pc EXCEPT ![p] = "recorded"]
      /\ evicted' = [evicted EXCEPT ![p] = out] /\ UNCHANGED <<nextSequence, byEventId, event>>
      /\ ring' = [ring EXCEPT ![str] = Append(r, e)]
  BY <1>2, <1>3, <1>4 DEF RecordEnvelope, Record
<1>6. q \in Seq(Event) /\ \A i, j \in DOMAIN q : EventId(q[i]) = EventId(q[j]) => i = j
  BY <1>2 DEF XInv, RingInv
<1>7. Held(p) = {id} /\ id[1] = str
  BY <1>3, <1>4, <1>5 DEF Held, EventId
<1>8. /\ r \in Seq(Event) /\ out \subseteq IdsOf(q) /\ IdsOf(r) = IdsOf(q) \ out
      /\ \A i \in DOMAIN r : \E j \in DOMAIN q : r[i] = q[j]
      /\ \A i, j \in DOMAIN r : EventId(r[i]) = EventId(r[j]) => i = j
  <2>1. CASE Full(str)
    <3>1. q # <<>> /\ out = {EventId(Head(q))} /\ r = Tail(q)
      BY <1>4, <2>1 DEF Full, EvictedBy
    <3>2. /\ EventId(Head(q)) \in IdsOf(q) /\ IdsOf(Tail(q)) = IdsOf(q) \ {EventId(Head(q))}
          /\ Tail(q) \in Seq(Event)
          /\ \A i \in DOMAIN Tail(q) : i + 1 \in DOMAIN q /\ Tail(q)[i] = q[i + 1]
      BY <1>6, <3>1, PoppedIds
    <3>3. ASSUME NEW i \in DOMAIN Tail(q), NEW j \in DOMAIN Tail(q),
                 EventId(Tail(q)[i]) = EventId(Tail(q)[j])
          PROVE  i = j
      <4>1. i + 1 = j + 1
        BY <1>6, <3>2, <3>3
      <4>2. i \in Nat /\ j \in Nat
        BY <3>2
      <4> QED
        BY <4>1, <4>2
    <3> HIDE DEF q, out, r
    <3> QED
      BY <3>1, <3>2, <3>3
  <2>2. CASE ~Full(str)
    BY <1>4, <1>6, <2>2 DEF EvictedBy
  <2> QED
    BY <2>1, <2>2
<1>9. /\ IdsOf(Append(r, e)) = IdsOf(r) \cup {id}
      /\ \A i \in DOMAIN Append(r, e) : \/ i \in DOMAIN r /\ Append(r, e)[i] = r[i]
                                        \/ i = Len(r) + 1 /\ Append(r, e)[i] = e
  BY <1>8, PushedIds
<1>10. ring'[str] = Append(r, e) /\ \A t \in Streams : t # str => ring'[t] = ring[t]
  BY <1>2, <1>5
<1>11. id \notin RingIds
  BY <1>7 DEF XInv, HolderInv
<1>12. id \notin IdsOf(q)
  BY <1>11, RingIdsOf
<1> HIDE DEF q, id, out, r
<1>13. RingInv'
  <2> SUFFICES ASSUME NEW t \in Streams
               PROVE  /\ \A i \in DOMAIN ring'[t] : ring'[t][i].stream = t
                      /\ \A i, j \in DOMAIN ring'[t] :
                           EventId(ring'[t][i]) = EventId(ring'[t][j]) => i = j
    BY DEF RingInv
  <2>1. CASE t # str
    BY <1>10, <2>1 DEF XInv, RingInv
  <2>2. CASE t = str
    <3>1. \A i \in DOMAIN r : r[i].stream = str
      BY <1>8 DEF q, XInv, RingInv
    <3>2. \A i \in DOMAIN r : EventId(r[i]) # id
      BY <1>8, <1>12 DEF IdsOf
    <3> DEFINE z == Append(r, e)
    <3>3. \A i \in DOMAIN z : z[i].stream = str
      BY <1>4, <1>9, <3>1
    <3>4. \A i, j \in DOMAIN z : EventId(z[i]) = EventId(z[j]) => i = j
      <4>1. \A i \in DOMAIN z : \/ i \in DOMAIN r /\ z[i] = r[i]
                                \/ i = Len(r) + 1 /\ EventId(z[i]) = id
        BY <1>9 DEF id
      <4> HIDE DEF z
      <4> QED
        BY <1>8, <3>2, <4>1
    <3> QED
      BY <1>10, <2>2, <3>3, <3>4
  <2> QED
    BY <2>1, <2>2
<1>14. PastInv'
  BY <1>5 DEF XInv, PastInv
<1>15. PendingInv'
  BY <1>2, <1>5 DEF XInv, PendingInv
<1>16. Held(p)' = out /\ \A w \in Publishers : w # p => Held(w)' = Held(w)
  BY <1>2, <1>5 DEF Held
<1>17. \A x : x \in RingIds <=> \E t \in Streams : x \in IdsOf(ring[t])
  BY RingIdsOf
<1>18. \A x : x \in RingIds' <=> \E t \in Streams : x \in IdsOf(ring'[t])
  BY DEF RingIds, IdsOf
<1>19. \A t \in Streams : t # str => IdsOf(ring[t]) \cap IdsOf(q) = {}
  <2> SUFFICES ASSUME NEW t \in Streams, t # str, NEW x \in IdsOf(ring[t]), x \in IdsOf(ring[str])
               PROVE  FALSE
    BY DEF q
  <2> QED
    BY OwnRing
<1>20. RingIds' = (RingIds \ out) \cup {id}
  <2>1. IdsOf(ring'[str]) = (IdsOf(q) \ out) \cup {id}
    BY <1>8, <1>9, <1>10
  <2>2. \A t \in Streams : t # str => IdsOf(ring'[t]) = IdsOf(ring[t])
    BY <1>10
  <2>3. IdsOf(q) = IdsOf(ring[str])
    BY DEF q
  <2> QED
    BY <1>8, <1>17, <1>18, <1>19, <2>1, <2>2, <2>3
<1>21. out \subseteq RingIds
  BY <1>8, <1>17 DEF q
<1>22. HolderInv'
  BY <1>7, <1>11, <1>16, <1>20, <1>21 DEF XInv, HolderInv
<1>23. ExactInv'
  BY <1>5, <1>7, <1>16, <1>20, <1>21 DEF XInv, ExactInv
<1> QED
  BY <1>1, <1>13, <1>14, <1>15, <1>22, <1>23 DEF XInv

(* Everything else leaves the registry and the rings alone. *)
LEMMA IndexOther ==
  ASSUME XInv, TInv', NEW p \in Publishers,
         \/ TryPublish(p) \/ Claim(p) \/ AwaitSend(p) \/ \E s \in Subs : TrySend(p, s)
         \/ CommitDelivered(p) \/ CommitDropped(p) \/ CommitDisconnect(p) \/ CommitClosed(p)
         \/ Return(p) \/ Cancel(p) \/ \E s \in Subs : DropGuard(p, s)
  PROVE  XInv'
<1>1. /\ pc \in [Publishers -> PcStates] /\ event \in [Publishers -> Event \cup {NoEvent}]
  BY DEF XInv, TInv, TypeOK
<1>2. UNCHANGED <<replayVars, evicted>>
  BY DEF TryPublish, Claim, AwaitSend, TrySend, CommitDelivered, CommitDropped, CommitDisconnect,
       CommitClosed, Return, Cancel, DropGuard
<1>3. /\ pc[p] \notin {"allocated", "recorded"} /\ pc'[p] \notin {"allocated", "recorded"}
      /\ \A q \in Publishers : q # p => pc'[q] = pc[q] /\ event'[q] = event[q]
  <2>1. CASE AwaitSend(p) \/ \E s \in Subs : TrySend(p, s)
    BY <2>1, SendShape DEF XInv, Outcomes
  <2>2. CASE TryPublish(p)
    BY <1>1, <2>2 DEF TryPublish
  <2>3. CASE Claim(p)
    BY <1>1, <2>3 DEF Claim
  <2>4. CASE CommitDelivered(p) \/ CommitDropped(p) \/ CommitDisconnect(p) \/ CommitClosed(p)
    BY <1>1, <2>4 DEF CommitDelivered, CommitDropped, CommitDisconnect, CommitClosed, Disarm
  <2>5. CASE Return(p) \/ Cancel(p) \/ \E s \in Subs : DropGuard(p, s)
    BY <1>1, <2>5 DEF Return, Cancel, DropGuard
  <2> QED
    BY <2>1, <2>2, <2>3, <2>4, <2>5
<1>4. \A q \in Publishers : Held(q)' = Held(q)
  BY <1>2, <1>3 DEF Held
<1>5. \A q \in Publishers : pc'[q] # "recorded" => evicted'[q] = {}
  BY <1>2, <1>3 DEF XInv, PendingInv
<1> QED
  BY <1>2, <1>4, <1>5, IndexQuiet

(* XInv is inductive. *)
LEMMA IndexStep == XInv /\ [Next]_vars => XInv'
<1> SUFFICES ASSUME XInv, [Next]_vars PROVE XInv'
  OBVIOUS
<1>1. TInv'
  BY TypeStep DEF XInv
<1>2. CASE (\E s \in Subs : ConsumerStep(s)) \/ UNCHANGED vars
  <2>1. UNCHANGED <<replayVars, pc, event, evicted>>
    BY <1>2 DEF ConsumerStep, Subscribe, Unsubscribe, Recv, RecvNone, DropReceiver, pubVars,
         replayVars, vars
  <2>2. /\ \A p \in Publishers : Held(p)' = Held(p)
        /\ \A p \in Publishers : pc'[p] # "recorded" => evicted'[p] = {}
    BY <2>1 DEF Held, XInv, PendingInv
  <2> QED
    BY <1>1, <2>1, <2>2, IndexQuiet
<1>3. CASE \E p \in Publishers, str \in Streams, k \in Keys \cup {NoKey} :
             PublishEnvelope(p, str, k)
  BY <1>3, IndexAllocate
<1>4. CASE \E p \in Publishers : PublisherStep(p) \/ Cancel(p)
  BY <1>1, <1>4, IndexEvict, IndexRecord, IndexOther DEF PublisherStep
<1> QED
  BY <1>2, <1>3, <1>4 DEF Next

(* Nothing is indexed, retained or held to begin with. *)
LEMMA IndexInit == Init => XInv
<1> SUFFICES ASSUME Init PROVE XInv
  OBVIOUS
<1>1. TInv
  BY InitType DEF TInv, Init, HoldsEvent, HoldsMatch, Outcomes
<1>2. /\ byEventId = {} /\ \A str \in Streams : ring[str] = <<>>
      /\ \A p \in Publishers : pc[p] = "idle" /\ evicted[p] = {}
  BY DEF Init, ReplayInit
<1>3. RingIds = {} /\ \A p \in Publishers : Held(p) = {}
  BY <1>2 DEF RingIds, Held
<1> QED
  BY <1>1, <1>2, <1>3 DEF XInv, RingInv, PastInv, PendingInv, HolderInv, ExactInv

(* The reverse index never leaks an id past replay retention and never      *)
(* forgets a retained one, however allocation, the oversize rejection,      *)
(* record() and the separate evict() of concurrent publishers interleave.   *)
THEOREM IndexCorrect == Spec => []IndexBounded
<1>1. XInv => IndexBounded
  <2> SUFFICES ASSUME XInv
               PROVE  \A id : id \in byEventId <=>
                        \/ id \in RingIds
                        \/ \E p \in Publishers : pc[p] = "allocated" /\ id = EventId(event[p])
                        \/ \E p \in Publishers : id \in evicted[p]
    BY DEF IndexBounded
  <2>1. \A p \in Publishers : \A id :
          id \in Held(p) <=> \/ pc[p] = "allocated" /\ id = EventId(event[p])
                             \/ id \in evicted[p]
    BY DEF XInv, PendingInv, Held
  <2> QED
    BY <2>1 DEF XInv, ExactInv
<1> QED
  BY <1>1, IndexInit, IndexStep, PTL DEF Spec
=============================================================================
