--------------------------- MODULE EventBusProofs ---------------------------
(***************************************************************************)
(* Proofs about EventBus for every set of subscriptions, publishers and    *)
(* streams, every policy, limit and capacity.                              *)
(***************************************************************************)
EXTENDS EventBus, FiniteSetTheorems, TLAPS

(* Every field starts with its type. *)
LEMMA InitType == Init => TypeOK
  BY BusAssumption DEF Init, ReplayInit, TypeOK, ReplayTypeOK, PcStates, NoLimit

(* Charging and refunding a quota stay within Option<u64>. *)
LEMMA QuotaArithmetic ==
  ASSUME NEW r \in Nat \cup {NoLimit}
  PROVE  /\ Dec(r) \in Nat \cup {NoLimit}
         /\ Inc(r) \in Nat \cup {NoLimit}
         /\ r \in Nat => Dec(r) \in Nat
  BY DEF Dec, Inc, NoLimit

(* One pass over the subscription map keeps every subscription field typed. *)
LEMMA FanOutType ==
  ASSUME TypeOK, NEW e \in Event, NEW deliver, NEW claim, NEW drop,
         FanOut(e, deliver, claim, drop)
  PROVE  /\ st' \in [Subs -> {"new", "active", "removed"}]
         /\ remaining' \in [Subs -> Nat \cup {NoLimit}]
         /\ lastDelivered' \in [Subs -> Event \cup {NoEvent}]
         /\ queue' \in [Subs -> Seq(Event)]
         /\ sent' \in [Subs -> Seq(Event)]
<1>1. st' \in [Subs -> {"new", "active", "removed"}]
  BY DEF FanOut, TypeOK
<1>2. remaining' \in [Subs -> Nat \cup {NoLimit}]
  BY QuotaArithmetic DEF FanOut, TypeOK
<1>3. lastDelivered' \in [Subs -> Event \cup {NoEvent}]
  BY DEF FanOut, TypeOK
<1>4. sent' \in [Subs -> Seq(Event)]
  BY DEF FanOut, TypeOK
<1>5. ASSUME NEW s \in Subs
      PROVE  ReplaceSlot(queue[s], e) \in Seq(Event)
  <2>1. queue[s] \in Seq(Event)
    BY DEF TypeOK
  <2> DEFINE q == queue[s]
  <2>2. /\ Len(q) \in Nat
        /\ DOMAIN q = 1 .. Len(q)
        /\ \A i \in 1 .. Len(q) : q[i] \in Event
    BY <2>1
  <2> HIDE DEF q
  <2>3. ReplaceSlot(q, e) \in [1 .. Len(q) -> Event]
    BY <2>2 DEF ReplaceSlot
  <2>4. ReplaceSlot(q, e) \in Seq(Event)
    BY <2>2, <2>3
  <2> QED
    BY <2>4 DEF q
<1>6. queue' \in [Subs -> Seq(Event)]
  BY <1>5 DEF FanOut, TypeOK
<1> QED
  BY <1>1, <1>2, <1>3, <1>4, <1>6

(* A publisher past allocation holds an envelope. *)
HoldsEvent == \A p \in Publishers : pc[p] # "idle" => event[p] \in Event

(* A publisher serving a match has that match in hand. *)
HoldsMatch ==
  \A p \in Publishers : pc[p] \in {"blocked"} \cup Outcomes => cur[p] \in guards[p]

TInv == TypeOK /\ HoldsEvent /\ HoldsMatch

(* Typing: subscribing, receiving and dropping a receiver. *)
LEMMA ConsumerType ==
  ASSUME TInv, NEW s \in Subs, ConsumerStep(s)
  PROVE  TInv'
<1> USE DEF TInv, TypeOK, ReplayTypeOK, HoldsEvent, HoldsMatch, replayVars, pubVars, subVars
<1>1. CASE Subscribe(s)
  BY <1>1 DEF Subscribe
<1>2. CASE Unsubscribe(s)
  BY <1>2 DEF Unsubscribe
<1>3. CASE Recv(s)
  BY <1>3 DEF Recv
<1>4. CASE RecvNone(s)
  BY <1>4 DEF RecvNone
<1>5. CASE DropReceiver(s)
  BY <1>5 DEF DropReceiver
<1> QED
  BY <1>1, <1>2, <1>3, <1>4, <1>5 DEF ConsumerStep

(* Typing: minting an envelope. *)
LEMMA AllocateType ==
  ASSUME TInv, NEW p \in Publishers, NEW str \in Streams, NEW k \in Keys \cup {NoKey},
         PublishEnvelope(p, str, k)
  PROVE  TInv'
<1>1. Allocated(str, k) \in Event
  BY DEF TInv, TypeOK, ReplayTypeOK, Allocated, Event
<1>2. ReplayTypeOK'
  BY DEF TInv, TypeOK, ReplayTypeOK, PublishEnvelope, Allocate, Allocated, EventId
<1> QED
  BY <1>1, <1>2 DEF TInv, TypeOK, HoldsEvent, HoldsMatch, PublishEnvelope,
       subVars, PcStates, Outcomes

(* Typing: the oversize rejection, the ring and the index pruning. *)
LEMMA RecordType ==
  ASSUME TInv, NEW p \in Publishers, RejectTooLarge(p) \/ RecordEnvelope(p) \/ PruneIndex(p)
  PROVE  TInv'
<1> USE DEF TInv, TypeOK, HoldsEvent, HoldsMatch, PcStates, Outcomes, subVars
<1>1. CASE RejectTooLarge(p)
  BY <1>1 DEF RejectTooLarge, Evict, ReplayTypeOK
<1>2. CASE RecordEnvelope(p)
  <2>1. event[p] \in Event /\ event[p].stream \in Streams
    BY <1>2 DEF RecordEnvelope, Event
  <2>2. ring' \in [Streams -> Seq(Event)]
    <3>1. ring[event[p].stream] \in Seq(Event)
      BY <2>1 DEF ReplayTypeOK
    <3>2. (IF Full(event[p].stream) THEN Tail(ring[event[p].stream])
           ELSE ring[event[p].stream]) \in Seq(Event)
      BY <3>1 DEF Full
    <3> QED
      BY <1>2, <2>1, <3>2 DEF RecordEnvelope, Record, ReplayTypeOK
  <2>3. EvictedBy(event[p]) \in SUBSET (Streams \X (Nat \ {0}))
    <3>1. CASE Full(event[p].stream)
      <4>1. Head(ring[event[p].stream]) \in Event
        BY <2>1, <3>1 DEF Full, ReplayTypeOK
      <4> QED
        BY <3>1, <4>1 DEF EvictedBy, EventId, Event
    <3> QED
      BY <3>1 DEF EvictedBy
  <2> QED
    BY <1>2, <2>1, <2>2, <2>3 DEF RecordEnvelope, ReplayTypeOK
<1>3. CASE PruneIndex(p)
  BY <1>3 DEF PruneIndex, Evict, ReplayTypeOK
<1> QED
  BY <1>1, <1>2, <1>3

(* Typing: the two passes over the subscription map. *)
LEMMA FanOutStepType ==
  ASSUME TInv, NEW p \in Publishers, TryPublish(p) \/ Claim(p)
  PROVE  TInv'
<1>0. event[p] \in Event
  BY DEF TInv, HoldsEvent, TryPublish, Claim
<1>1. CASE TryPublish(p)
  <2>1. PICK d, x : FanOut(event[p], d, {}, x)
    BY <1>1 DEF TryPublish
  <2>2. /\ st' \in [Subs -> {"new", "active", "removed"}]
        /\ remaining' \in [Subs -> Nat \cup {NoLimit}]
        /\ lastDelivered' \in [Subs -> Event \cup {NoEvent}]
        /\ queue' \in [Subs -> Seq(Event)]
        /\ sent' \in [Subs -> Seq(Event)]
    BY <1>0, <2>1, FanOutType DEF TInv
  <2>3. notice' \in [Subs -> Seq(Event \cup {NoEvent})]
    <3>1. \A s \in Subs : SlowNotice(s) \in Seq(Event \cup {NoEvent})
      BY DEF SlowNotice, TInv, TypeOK
    <3>2. \A s \in Subs : notice'[s] \in {notice[s], SlowNotice(s)}
      BY <1>1 DEF TryPublish
    <3> QED
      BY <1>1, <3>1, <3>2 DEF TryPublish, TInv, TypeOK
  <2> QED
    BY <1>1, <2>2, <2>3 DEF TryPublish, TInv, TypeOK, ReplayTypeOK, HoldsEvent, HoldsMatch,
         PcStates, Outcomes, replayVars
<1>2. CASE Claim(p)
  <2>1. FanOut(event[p], {}, Claimable(event[p]), {})
    BY <1>2 DEF Claim
  <2>2. /\ st' \in [Subs -> {"new", "active", "removed"}]
        /\ remaining' \in [Subs -> Nat \cup {NoLimit}]
        /\ lastDelivered' \in [Subs -> Event \cup {NoEvent}]
        /\ queue' \in [Subs -> Seq(Event)]
        /\ sent' \in [Subs -> Seq(Event)]
    BY <1>0, <2>1, FanOutType DEF TInv
  <2>3. Claimable(event[p]) \in SUBSET Subs
    BY DEF Claimable, Matching
  <2>4. inFlight' \in [Subs -> Nat]
    BY <1>2 DEF Claim, TInv, TypeOK
  <2> QED
    BY <1>2, <2>2, <2>3, <2>4 DEF Claim, TInv, TypeOK, ReplayTypeOK, HoldsEvent, HoldsMatch,
         PcStates, Outcomes, replayVars
<1> QED
  BY <1>1, <1>2

(* Typing: taking a queue slot. *)
LEMMA EnqueueType ==
  ASSUME TypeOK, NEW p \in Publishers, NEW s \in Subs, event[p] \in Event, Enqueue(p, s)
  PROVE  queue' \in [Subs -> Seq(Event)] /\ sent' \in [Subs -> Seq(Event)]
<1>1. Append(queue[s], event[p]) \in Seq(Event) /\ Append(sent[s], event[p]) \in Seq(Event)
  BY DEF TypeOK
<1> QED
  BY <1>1 DEF Enqueue, TypeOK

(* Typing: try_send and the Backpressure wait. *)
LEMMA SendType ==
  ASSUME TInv, NEW p \in Publishers, AwaitSend(p) \/ \E s \in Subs : TrySend(p, s)
  PROVE  TInv'
<1>0. event[p] \in Event
  BY DEF TInv, HoldsEvent, AwaitSend, TrySend
<1>1. CASE AwaitSend(p)
  <2>1. cur[p] \in Subs
    BY <1>1 DEF AwaitSend, TInv, TypeOK, HoldsMatch
  <2>2. queue' \in [Subs -> Seq(Event)] /\ sent' \in [Subs -> Seq(Event)]
    BY <1>0, <1>1, <2>1, EnqueueType DEF AwaitSend, TInv, TypeOK
  <2>3. /\ pc' \in [Publishers -> PcStates]
        /\ \A q \in Publishers : q # p => pc'[q] = pc[q]
    BY <1>1 DEF AwaitSend, TInv, TypeOK, PcStates, Outcomes
  <2>4. HoldsEvent' /\ HoldsMatch'
    BY <1>0, <1>1, <2>3 DEF AwaitSend, TInv, HoldsEvent, HoldsMatch
  <2> QED
    BY <1>1, <2>2, <2>3, <2>4 DEF AwaitSend, TInv, TypeOK, ReplayTypeOK, replayVars
<1>2. ASSUME NEW s \in Subs, TrySend(p, s) PROVE TInv'
  <2>1. queue' \in [Subs -> Seq(Event)] /\ sent' \in [Subs -> Seq(Event)]
    BY <1>0, <1>2, EnqueueType DEF TrySend, TInv, TypeOK
  <2>2. OverflowOutcome(s) \in {"blocked", "dropped", "disconnect"}
    BY DEF OverflowOutcome
  <2> DEFINE results == {"closed", "delivered", "blocked", "dropped", "disconnect"}
  <2>3. \E o \in results : pc' = [pc EXCEPT ![p] = o]
    BY <1>2, <2>2 DEF TrySend
  <2>4. /\ pc' \in [Publishers -> PcStates]
        /\ cur' = [cur EXCEPT ![p] = s] /\ s \in guards[p] /\ guards' = guards
        /\ \A q \in Publishers : q # p => pc'[q] = pc[q] /\ cur'[q] = cur[q]
    <3>1. PICK o \in results : pc' = [pc EXCEPT ![p] = o]
      BY <2>3
    <3>2. pc \in [Publishers -> PcStates] /\ cur \in [Publishers -> Subs \cup {NoSub}]
            /\ o \in PcStates
      BY DEF TInv, TypeOK, PcStates, Outcomes
    <3>3. /\ cur' = [cur EXCEPT ![p] = s] /\ s \in guards[p] /\ guards' = guards
      BY <1>2 DEF TrySend
    <3> QED
      BY <3>1, <3>2, <3>3
  <2>5. HoldsEvent' /\ HoldsMatch'
    BY <1>0, <1>2, <2>4 DEF TrySend, TInv, TypeOK, HoldsEvent, HoldsMatch
  <2>6. UNCHANGED <<replayVars, st, remaining, inFlight, lastDelivered, notice, rx, event, evicted, matches, guards>>
    BY <1>2 DEF TrySend
  <2>7. cur' \in [Publishers -> Subs \cup {NoSub}]
    BY <2>4 DEF TInv, TypeOK
  <2> QED
    BY <2>1, <2>4, <2>5, <2>6, <2>7 DEF TInv, TypeOK, ReplayTypeOK, replayVars
<1> QED
  BY <1>1, <1>2

(* Typing: giving a claim back. *)
LEMMA RefundType ==
  ASSUME TInv, NEW s \in Subs, Refund(s)
  PROVE  inFlight' \in [Subs -> Nat] /\ remaining' \in [Subs -> Nat \cup {NoLimit}]
<1>1. Inc(remaining[s]) \in Nat \cup {NoLimit}
  BY QuotaArithmetic DEF TInv, TypeOK
<1>2. Dec(inFlight[s]) \in Nat
  BY DEF Dec, TInv, TypeOK
<1> QED
  BY <1>1, <1>2 DEF Refund, TInv, TypeOK

(* Typing: the commits, the return, the cancellation and the guards it drops. *)
LEMMA SettleType ==
  ASSUME TInv, NEW p \in Publishers,
         \/ CommitDelivered(p) \/ CommitDropped(p) \/ CommitDisconnect(p) \/ CommitClosed(p)
         \/ Return(p) \/ Cancel(p) \/ \E s \in Subs : DropGuard(p, s)
  PROVE  TInv'
<1> USE DEF TypeOK, ReplayTypeOK, HoldsEvent, HoldsMatch, PcStates, Outcomes, replayVars,
            subVars, Disarm
<1>1. CASE CommitDelivered(p)
  <2>1. cur[p] \in Subs
    BY <1>1 DEF CommitDelivered, TInv
  <2>2. Dec(inFlight[cur[p]]) \in Nat
    BY <2>1, QuotaArithmetic DEF TInv
  <2>3. /\ lastDelivered' \in [Subs -> Event \cup {NoEvent}] /\ inFlight' \in [Subs -> Nat]
        /\ st' \in [Subs -> {"new", "active", "removed"}]
    <3>1. /\ lastDelivered \in [Subs -> Event \cup {NoEvent}] /\ inFlight \in [Subs -> Nat]
          /\ st \in [Subs -> {"new", "active", "removed"}] /\ event[p] \in Event
      BY <1>1 DEF TInv, CommitDelivered
    <3>2. /\ \/ UNCHANGED lastDelivered
             \/ lastDelivered' = [lastDelivered EXCEPT ![cur[p]] = event[p]]
          /\ UNCHANGED inFlight \/ inFlight' = [inFlight EXCEPT ![cur[p]] = Dec(inFlight[cur[p]])]
          /\ UNCHANGED st \/ st' = [st EXCEPT ![cur[p]] = "removed"]
      BY <1>1, <2>1, <3>1 DEF CommitDelivered
    <3> HIDE DEF TypeOK, ReplayTypeOK, HoldsEvent, HoldsMatch, PcStates, Outcomes, replayVars, subVars, Disarm
    <3> QED
      BY <2>1, <2>2, <3>1, <3>2
  <2>4. UNCHANGED <<replayVars, remaining, notice, queue, rx, sent, event, evicted, matches>>
    BY <1>1 DEF CommitDelivered
  <2>5. /\ guards' = [guards EXCEPT ![p] = @ \ {cur[p]}] /\ cur' = [cur EXCEPT ![p] = NoSub]
        /\ pc' = [pc EXCEPT ![p] = "loop"]
    BY <1>1 DEF CommitDelivered
  <2>6. /\ guards' \in [Publishers -> SUBSET Subs] /\ cur' \in [Publishers -> Subs \cup {NoSub}]
        /\ pc' \in [Publishers -> PcStates]
    BY <2>5 DEF TInv
  <2>7. HoldsEvent' /\ HoldsMatch'
    BY <1>1, <2>4, <2>5 DEF TInv, CommitDelivered
  <2> HIDE DEF HoldsEvent, HoldsMatch, PcStates
  <2> QED
    BY <2>3, <2>4, <2>6, <2>7 DEF TInv
<1>2. CASE CommitDropped(p)
  <2>1. cur[p] \in Subs
    BY <1>2 DEF CommitDropped, TInv
  <2>2. inFlight' \in [Subs -> Nat] /\ remaining' \in [Subs -> Nat \cup {NoLimit}]
    BY <1>2, <2>1, RefundType DEF CommitDropped
  <2> QED
    BY <1>2, <2>2 DEF CommitDropped, TInv
<1>3. CASE CommitDisconnect(p)
  <2>1. cur[p] \in Subs
    BY <1>3 DEF CommitDisconnect, TInv
  <2>2. SlowNotice(cur[p]) \in Seq(Event \cup {NoEvent})
    BY <2>1 DEF SlowNotice, TInv
  <2> QED
    BY <1>3, <2>1, <2>2 DEF CommitDisconnect, TInv
<1>4. CASE CommitClosed(p)
  BY <1>4 DEF CommitClosed, TInv
<1>5. CASE Return(p)
  BY <1>5 DEF Return, TInv
<1>6. CASE Cancel(p)
  BY <1>6 DEF Cancel, TInv
<1>7. ASSUME NEW s \in Subs, DropGuard(p, s) PROVE TInv'
  <2>1. inFlight' \in [Subs -> Nat] /\ remaining' \in [Subs -> Nat \cup {NoLimit}]
    BY <1>7, RefundType DEF DropGuard
  <2> QED
    BY <1>7, <2>1 DEF DropGuard, TInv
<1> QED
  BY <1>1, <1>2, <1>3, <1>4, <1>5, <1>6, <1>7

(* TInv is inductive. *)
LEMMA TypeStep == TInv /\ [Next]_vars => TInv'
<1> SUFFICES ASSUME TInv, [Next]_vars PROVE TInv'
  OBVIOUS
<1>1. CASE \E s \in Subs : ConsumerStep(s)
  BY <1>1, ConsumerType
<1>2. CASE \E p \in Publishers, str \in Streams, k \in Keys \cup {NoKey} :
             PublishEnvelope(p, str, k)
  BY <1>2, AllocateType
<1>3. CASE \E p \in Publishers : PublisherStep(p) \/ Cancel(p)
  BY <1>3, RecordType, FanOutStepType, SendType, SettleType DEF PublisherStep
<1>4. CASE UNCHANGED vars
  BY <1>4 DEF vars, TInv, TypeOK, ReplayTypeOK, HoldsEvent, HoldsMatch
<1> QED
  BY <1>1, <1>2, <1>3, <1>4 DEF Next

(* Every field of a subscription, a publisher, the registry and the replay  *)
(* ring keeps its type under every interleaving of publish, try_publish,    *)
(* cancellation and consumers.                                              *)
THEOREM TypeCorrect == Spec => []TypeOK
<1>1. Init => TInv
  BY InitType DEF TInv, Init, HoldsEvent, HoldsMatch, Outcomes
<1> QED
  BY <1>1, TypeStep, PTL DEF Spec, TInv

-----------------------------------------------------------------------------
(* The claims of concurrent publishers.  InFlightExact and                  *)
(* ExhaustedIsReaped are inductive together with the facts below: who can   *)
(* hold a guard, and what a subscription looks like before it is in the map. *)
GuardsInLoop ==
  \A p \in Publishers : pc[p] \in {"idle", "allocated", "recorded", "fanout"} => guards[p] = {}

GuardsOnQueues ==
  \A p \in Publishers : \A s \in guards[p] : Policy[s] # "coalesce" /\ st[s] # "new"

Fresh ==
  \A s \in Subs : st[s] = "new" => /\ remaining[s] = Limit[s]
                                  /\ inFlight[s] = 0
                                  /\ Len(sent[s]) = 0

Unlimited == \A s \in Subs : remaining[s] = NoLimit <=> Limit[s] = NoLimit

CInv == /\ TInv
        /\ GuardsInLoop /\ GuardsOnQueues /\ Fresh /\ Unlimited
        /\ InFlightExact /\ ExhaustedIsReaped

(* The publishers with a claim on a subscription are finitely many. *)
LEMMA ClaimsFinite ==
  ASSUME NEW s
  PROVE  /\ IsFiniteSet(Claiming(s)) /\ Cardinality(Claiming(s)) \in Nat
         /\ Claiming(s) = {} <=> Cardinality(Claiming(s)) = 0
         /\ IsFiniteSet(Unsent(s)) /\ Cardinality(Unsent(s)) \in Nat
<1>1. Claiming(s) \in SUBSET Publishers /\ Unsent(s) \in SUBSET Publishers
  BY DEF Claiming, Unsent
<1>2. IsFiniteSet(Publishers)
  BY BusAssumption
<1>3. IsFiniteSet(Claiming(s)) /\ IsFiniteSet(Unsent(s))
  BY <1>1, <1>2, FS_Subset
<1> QED
  BY <1>3, FS_CardinalityType, FS_EmptySet

(* A publisher that takes or gives up a claim moves the count by one. *)
LEMMA ClaimTaken ==
  ASSUME NEW S, IsFiniteSet(S), NEW p, p \notin S
  PROVE  Cardinality(S \cup {p}) = Cardinality(S) + 1
  BY FS_AddElement

(* ... and giving one up moves it down. *)
LEMMA ClaimGiven ==
  ASSUME NEW S, IsFiniteSet(S), NEW p \in S
  PROVE  /\ Cardinality(S \ {p}) = Cardinality(S) - 1
         /\ Cardinality(S) \in Nat \ {0}
<1>1. S # {}
  OBVIOUS
<1> QED
  BY <1>1, FS_RemoveElement, FS_CardinalityType, FS_EmptySet

(* Steps that leave every guard alone keep the claim counts. *)
LEMMA SameGuards ==
  ASSUME guards' = guards, NEW s
  PROVE  Claiming(s)' = Claiming(s)
  BY DEF Claiming

(* No claims to begin with. *)
LEMMA ClaimsInit == Init => CInv
<1> SUFFICES ASSUME Init PROVE CInv
  OBVIOUS
<1>1. TInv
  BY InitType DEF TInv, Init, HoldsEvent, HoldsMatch, Outcomes
<1>2. \A s \in Subs : st[s] = "new"
  BY DEF Init
<1> QED
  BY <1>1, <1>2, BusAssumption
     DEF CInv, Init, GuardsInLoop, GuardsOnQueues, Fresh, Unlimited, InFlightExact,
         ExhaustedIsReaped

(* Consumers hold no claims; a subscription enters the map unclaimed. *)
LEMMA ClaimsConsumer ==
  ASSUME CInv, NEW s \in Subs, ConsumerStep(s)
  PROVE  CInv'
<1>1. TInv'
  BY ConsumerType DEF CInv
<1>2. /\ guards' = guards /\ pc' = pc /\ remaining' = remaining /\ inFlight' = inFlight
      /\ sent' = sent
  BY DEF ConsumerStep, Subscribe, Unsubscribe, Recv, RecvNone, DropReceiver, pubVars
<1>3. \A t \in Subs : Claiming(t)' = Claiming(t)
  BY <1>2, SameGuards
<1>4. \A t \in Subs : /\ st'[t] = "new" => st[t] = "new"
                      /\ st'[t] = "active" => st[t] \in {"new", "active"}
  BY DEF ConsumerStep, Subscribe, Unsubscribe, Recv, RecvNone, DropReceiver, pubVars,
         CInv, TInv, TypeOK
<1>5. \A t \in Subs : st[t] = "new" => Claiming(t) = {}
  BY DEF CInv, GuardsOnQueues, Claiming
<1>6. InFlightExact'
  BY <1>2, <1>3, <1>4, <1>5, ClaimsFinite DEF CInv, InFlightExact, Fresh
<1>7. ExhaustedIsReaped'
  BY <1>2, <1>3, <1>4, <1>5 DEF CInv, ExhaustedIsReaped, Fresh
<1>8. GuardsInLoop' /\ Fresh' /\ Unlimited'
  BY <1>2, <1>4 DEF CInv, GuardsInLoop, Fresh, Unlimited
<1>9. GuardsOnQueues'
  BY <1>2, <1>4 DEF CInv, GuardsOnQueues, TInv, TypeOK
<1> QED
  BY <1>1, <1>6, <1>7, <1>8, <1>9 DEF CInv

(* Steps of a publisher that change neither the map nor its guards. *)
LEMMA ClaimsQuiet ==
  ASSUME CInv, TInv', NEW p \in Publishers,
         UNCHANGED <<st, remaining, inFlight, guards>>,
         \A q \in Publishers : q # p => pc'[q] = pc[q],
         guards[p] = {} \/ pc'[p] \notin {"idle", "allocated", "recorded", "fanout"},
         \A s \in Subs : st[s] = "new" => sent'[s] = sent[s]
  PROVE  CInv'
<1>1. \A t \in Subs : Claiming(t)' = Claiming(t)
  BY SameGuards
<1>2. InFlightExact' /\ ExhaustedIsReaped'
  BY <1>1 DEF CInv, InFlightExact, ExhaustedIsReaped
<1>3. GuardsInLoop' /\ GuardsOnQueues' /\ Fresh' /\ Unlimited'
  BY DEF CInv, GuardsInLoop, GuardsOnQueues, Fresh, Unlimited
<1> QED
  BY <1>2, <1>3 DEF CInv

(* A new publication holds no claims yet. *)
LEMMA ClaimsPublish ==
  ASSUME CInv, NEW p \in Publishers, NEW str \in Streams, NEW k \in Keys \cup {NoKey},
         PublishEnvelope(p, str, k)
  PROVE  CInv'
<1>1. TInv'
  BY AllocateType DEF CInv
<1>2. /\ UNCHANGED <<st, remaining, inFlight, guards, sent>>
      /\ guards[p] = {}
      /\ \A q \in Publishers : q # p => pc'[q] = pc[q]
  BY DEF PublishEnvelope, subVars, CInv, TInv, TypeOK, GuardsInLoop
<1> QED
  BY <1>1, <1>2, ClaimsQuiet

(* Recording touches no claim. *)
LEMMA ClaimsRecord ==
  ASSUME CInv, NEW p \in Publishers, RejectTooLarge(p) \/ RecordEnvelope(p) \/ PruneIndex(p)
  PROVE  CInv'
<1>1. TInv'
  BY RecordType DEF CInv
<1>2. /\ UNCHANGED <<st, remaining, inFlight, guards, sent>>
      /\ guards[p] = {}
      /\ \A q \in Publishers : q # p => pc'[q] = pc[q]
  BY DEF RejectTooLarge, RecordEnvelope, PruneIndex, subVars, CInv, TInv, TypeOK, GuardsInLoop
<1> QED
  BY <1>1, <1>2, ClaimsQuiet

(* A publisher leaves without guards, or keeps them when it is cancelled. *)
LEMMA ClaimsReturn ==
  ASSUME CInv, NEW p \in Publishers, Return(p) \/ Cancel(p)
  PROVE  CInv'
<1>1. TInv'
  BY SettleType DEF CInv
<1>2. /\ UNCHANGED <<st, remaining, inFlight, guards, sent>>
      /\ guards[p] = {} \/ pc'[p] \notin {"idle", "allocated", "recorded", "fanout"}
      /\ \A q \in Publishers : q # p => pc'[q] = pc[q]
  BY DEF Return, Cancel, subVars, CInv, TInv, TypeOK
<1> QED
  BY <1>1, <1>2, ClaimsQuiet

(* How a send leaves the publisher, and which queue it may have touched. *)
LEMMA SendShape ==
  ASSUME TInv, NEW p \in Publishers, AwaitSend(p) \/ \E s \in Subs : TrySend(p, s)
  PROVE  /\ UNCHANGED <<st, remaining, inFlight, guards, event>>
         /\ pc'[p] \in {"blocked"} \cup Outcomes
         /\ \A q \in Publishers : q # p => pc'[q] = pc[q] /\ cur'[q] = cur[q]
         /\ cur'[p] \in guards[p]
         /\ pc[p] = "loop" \/ pc[p] = "blocked"
         /\ \/ pc'[p] # "delivered" /\ sent' = sent
            \/ /\ pc'[p] = "delivered"
               /\ sent' = [sent EXCEPT ![cur'[p]] = Append(@, event[p])]
<1>1. CASE AwaitSend(p)
  BY <1>1 DEF AwaitSend, Enqueue, TInv, TypeOK, HoldsMatch, Outcomes
<1>2. ASSUME NEW s \in Subs, TrySend(p, s)
      PROVE  /\ UNCHANGED <<st, remaining, inFlight, guards, event>>
             /\ pc'[p] \in {"blocked"} \cup Outcomes
             /\ \A q \in Publishers : q # p => pc'[q] = pc[q] /\ cur'[q] = cur[q]
             /\ cur'[p] \in guards[p]
             /\ pc[p] = "loop" \/ pc[p] = "blocked"
             /\ \/ pc'[p] # "delivered" /\ sent' = sent
                \/ /\ pc'[p] = "delivered"
                   /\ sent' = [sent EXCEPT ![cur'[p]] = Append(@, event[p])]
  <2>1. OverflowOutcome(s) \in {"blocked", "dropped", "disconnect"}
    BY DEF OverflowOutcome
  <2>2. pc \in [Publishers -> PcStates] /\ cur \in [Publishers -> Subs \cup {NoSub}]
    BY DEF TInv, TypeOK
  <2>3. cur'[p] = s /\ \A q \in Publishers : q # p => cur'[q] = cur[q]
    BY <1>2, <2>2 DEF TrySend
  <2>4. CASE rx[s] # "open"
    BY <1>2, <2>2, <2>3, <2>4 DEF TrySend, Outcomes
  <2>5. CASE rx[s] = "open" /\ HasRoom(s)
    BY <1>2, <2>2, <2>3, <2>5 DEF TrySend, Outcomes, Enqueue
  <2>6. CASE rx[s] = "open" /\ ~HasRoom(s)
    <3>1. pc' = [pc EXCEPT ![p] = OverflowOutcome(s)] /\ sent' = sent
      BY <1>2, <2>6 DEF TrySend
    <3>2. pc'[p] = OverflowOutcome(s) /\ \A q \in Publishers : q # p => pc'[q] = pc[q]
      BY <2>2, <3>1
    <3> QED
      BY <1>2, <2>1, <2>3, <3>1, <3>2 DEF TrySend, Outcomes
  <2> QED
    BY <2>4, <2>5, <2>6
<1> QED
  BY <1>1, <1>2

(* The claim stays while its envelope is being sent. *)
LEMMA ClaimsSend ==
  ASSUME CInv, NEW p \in Publishers, AwaitSend(p) \/ \E s \in Subs : TrySend(p, s)
  PROVE  CInv'
<1>1. TInv'
  BY SendType DEF CInv
<1>2. /\ UNCHANGED <<st, remaining, inFlight, guards>>
      /\ pc'[p] \notin {"idle", "allocated", "recorded", "fanout"}
      /\ \A q \in Publishers : q # p => pc'[q] = pc[q]
  BY SendShape DEF CInv, Outcomes
<1>3. ASSUME NEW s \in Subs, st[s] = "new" PROVE sent'[s] = sent[s]
  <2>1. s # cur'[p]
    BY <1>3, SendShape DEF CInv, GuardsOnQueues
  <2>2. \/ sent' = sent
        \/ sent' = [sent EXCEPT ![cur'[p]] = Append(@, event[p])]
    BY SendShape DEF CInv
  <2>3. sent \in [Subs -> Seq(Event)]
    BY DEF CInv, TInv, TypeOK
  <2> QED
    BY <2>1, <2>2, <2>3
<1> QED
  BY <1>1, <1>2, <1>3, ClaimsQuiet

(* try_publish and the claim phase: the pass over the subscription map.     *)
(* `charged` are the subscriptions whose quota it charges, `took` the ones  *)
(* among them that already have the envelope.                               *)
LEMMA FanOutShape ==
  ASSUME TInv, NEW e \in Event, NEW deliver, NEW claim, NEW drop,
         FanOut(e, deliver, claim, drop), NEW s \in Subs
  PROVE  /\ s \in deliver \cup Pushed(e) =>
              /\ Len(sent'[s]) = Len(sent[s]) + 1
              /\ remaining'[s] = Dec(remaining[s])
              /\ st'[s] = st[s] \/ st'[s] = "removed"
              /\ st'[s] = "active" => remaining'[s] # 0
         /\ s \notin deliver \cup Pushed(e) =>
              /\ sent'[s] = sent[s]
              /\ remaining'[s] = IF s \in claim THEN Dec(remaining[s]) ELSE remaining[s]
              /\ st'[s] = st[s] \/ st'[s] = "removed"
         /\ s \in Pushed(e) => st[s] = "active" /\ Policy[s] = "coalesce"
<1>1. sent[s] \in Seq(Event)
  BY DEF TInv, TypeOK
<1>2. Len(Append(sent[s], e)) = Len(sent[s]) + 1
  BY <1>1
<1> QED
  BY <1>2 DEF FanOut, Pushed, Coalescing, Matching

(* How the counters move, away from their bounds. *)
LEMMA DecKeepsUnlimited ==
  ASSUME NEW r \in Nat \cup {NoLimit}
  PROVE  /\ Dec(r) = NoLimit <=> r = NoLimit
         /\ Inc(r) = NoLimit <=> r = NoLimit
         /\ Inc(r) # 0
         /\ r \in Nat \ {0} => Dec(r) = r - 1
         /\ r \in Nat => Inc(r) = r + 1
  BY DEF Dec, Inc, NoLimit

(* try_publish claims nothing and removes what it exhausts. *)
LEMMA ClaimsTryPublish ==
  ASSUME CInv, NEW p \in Publishers, TryPublish(p)
  PROVE  CInv'
<1>1. TInv' /\ TInv /\ event[p] \in Event
  BY FanOutStepType DEF CInv, TInv, HoldsEvent, TryPublish
<1>2. PICK d, x : FanOut(event[p], d, {}, x) /\ \A s \in d : s \in Subs /\ st[s] = "active"
  BY DEF TryPublish, Matching
<1>3. /\ guards' = guards /\ inFlight' = inFlight
      /\ \A q \in Publishers : q # p => pc'[q] = pc[q]
      /\ guards[p] = {}
  BY <1>1 DEF TryPublish, CInv, TInv, TypeOK, GuardsInLoop
<1>4. \A t \in Subs : Claiming(t)' = Claiming(t)
  BY <1>3, SameGuards
<1>5. ASSUME NEW t \in Subs
      PROVE  /\ st'[t] = st[t] \/ st'[t] = "removed"
             /\ t \in d \cup Pushed(event[p]) => st[t] = "active"
             /\ t \in d \cup Pushed(event[p]) /\ st'[t] = "active" => remaining'[t] # 0
             /\ t \notin d \cup Pushed(event[p]) => sent'[t] = sent[t] /\ remaining'[t] = remaining[t]
             /\ remaining'[t] \in {remaining[t], Dec(remaining[t])}
  BY <1>1, <1>2, FanOutShape
<1>6. InFlightExact'
  BY <1>3, <1>4, <1>5 DEF CInv, InFlightExact
<1>7. ExhaustedIsReaped'
  BY <1>4, <1>5 DEF CInv, ExhaustedIsReaped
<1>8. Unlimited'
  <2>1. \A t \in Subs : remaining[t] \in Nat \cup {NoLimit} /\ (remaining[t] = NoLimit <=> Limit[t] = NoLimit)
    BY DEF CInv, Unlimited, TInv, TypeOK
  <2>2. ASSUME NEW t \in Subs PROVE remaining'[t] = NoLimit <=> Limit[t] = NoLimit
    <3>1. Dec(remaining[t]) = NoLimit <=> remaining[t] = NoLimit
      BY <2>1, DecKeepsUnlimited
    <3> QED
      BY <1>5, <2>1, <3>1
  <2> QED
    BY <2>2 DEF Unlimited
<1>9. Fresh'
  BY <1>3, <1>5 DEF CInv, Fresh
<1>10. GuardsInLoop'
  BY <1>3 DEF CInv, GuardsInLoop
<1>11. GuardsOnQueues'
  <2> SUFFICES ASSUME NEW q \in Publishers, NEW t \in guards[q]
               PROVE  Policy[t] # "coalesce" /\ st'[t] # "new"
    BY <1>3 DEF GuardsOnQueues
  <2>1. t \in Subs /\ Policy[t] # "coalesce" /\ st[t] # "new"
    BY DEF CInv, GuardsOnQueues, TInv, TypeOK
  <2> QED
    BY <1>5, <2>1
<1> QED
  BY <1>1, <1>6, <1>7, <1>8, <1>9, <1>10, <1>11 DEF CInv

(* The claim phase adds the publisher to the claims of what it claimed. *)
LEMMA ClaimShape ==
  ASSUME CInv, NEW p \in Publishers, Claim(p), NEW s \in Subs
  PROVE  /\ event[p] \in Event /\ guards[p] = {} /\ p \notin Claiming(s) /\ p \notin Unsent(s)
         /\ s \in Claimable(event[p]) =>
              /\ Claiming(s)' = Claiming(s) \cup {p} /\ Unsent(s)' = Unsent(s) \cup {p}
              /\ inFlight'[s] = inFlight[s] + 1
              /\ st[s] = "active" /\ Policy[s] # "coalesce" /\ remaining[s] # 0
         /\ s \notin Claimable(event[p]) =>
              /\ Claiming(s)' = Claiming(s) /\ Unsent(s)' = Unsent(s)
              /\ inFlight'[s] = inFlight[s]
<1>1. guards[p] = {} /\ event[p] \in Event /\ pc[p] = "fanout"
  BY DEF Claim, CInv, GuardsInLoop, TInv, HoldsEvent
<1>2. /\ guards' = [guards EXCEPT ![p] = Claimable(event[p])]
      /\ pc' = [pc EXCEPT ![p] = "loop"] /\ cur' = cur
      /\ inFlight'[s] = IF s \in Claimable(event[p]) THEN inFlight[s] + 1 ELSE inFlight[s]
  BY DEF Claim
<1>3. guards \in [Publishers -> SUBSET Subs] /\ pc \in [Publishers -> PcStates]
  BY DEF CInv, TInv, TypeOK
<1>4. \A q \in Publishers : /\ q # p => guards'[q] = guards[q] /\ pc'[q] = pc[q]
                            /\ q = p => guards'[q] = Claimable(event[p]) /\ pc'[q] = "loop"
  BY <1>2, <1>3
<1>5. p \notin Claiming(s) /\ p \notin Unsent(s)
  BY <1>1 DEF Claiming, Unsent
<1>6. s \in Claimable(event[p]) =>
        Claiming(s)' = Claiming(s) \cup {p} /\ Unsent(s)' = Unsent(s) \cup {p}
  BY <1>2, <1>4 DEF Claiming, Unsent
<1>7. s \notin Claimable(event[p]) => Claiming(s)' = Claiming(s) /\ Unsent(s)' = Unsent(s)
  BY <1>1, <1>2, <1>4 DEF Claiming, Unsent
<1> QED
  BY <1>1, <1>2, <1>5, <1>6, <1>7 DEF Claimable, Matching, Coalescing

(* The claim phase counts one claim per match with quota left. *)
LEMMA ClaimsClaim ==
  ASSUME CInv, NEW p \in Publishers, Claim(p)
  PROVE  CInv'
<1> DEFINE e == event[p]
           C == Claimable(event[p])
<1>1. TInv' /\ TInv /\ e \in Event
  BY FanOutStepType DEF CInv, TInv, HoldsEvent, Claim
<1>2. FanOut(e, {}, C, {})
  BY DEF Claim
<1>3. \A q \in Publishers : /\ q # p => guards'[q] = guards[q] /\ pc'[q] = pc[q]
                            /\ q = p => guards'[q] = C /\ pc'[q] = "loop"
  BY DEF Claim, CInv, TInv, TypeOK
<1>4. ASSUME NEW t \in Subs
      PROVE  /\ st'[t] = st[t] \/ st'[t] = "removed"
             /\ t \in C \cup Pushed(e) => st[t] = "active"
             /\ t \in Pushed(e) /\ st'[t] = "active" => remaining'[t] # 0
             /\ t \notin C \cup Pushed(e) => sent'[t] = sent[t] /\ remaining'[t] = remaining[t]
             /\ remaining'[t] \in {remaining[t], Dec(remaining[t])}
  <2>1. t \in C => st[t] = "active"
    BY DEF Claimable, Matching
  <2> HIDE DEF C, e
  <2> QED
    BY <1>1, <1>2, <2>1, FanOutShape
<1>5. InFlightExact'
  <2> SUFFICES ASSUME NEW t \in Subs, st'[t] = "active"
               PROVE  inFlight'[t] = Cardinality(Claiming(t)')
    BY DEF InFlightExact
  <2>1. inFlight[t] = Cardinality(Claiming(t))
    BY <1>4 DEF CInv, InFlightExact
  <2>2. CASE t \in C
    BY <2>1, <2>2, ClaimShape, ClaimsFinite, ClaimTaken
  <2>3. CASE t \notin C
    BY <2>1, <2>3, ClaimShape
  <2> QED
    BY <2>2, <2>3
<1>6. ExhaustedIsReaped'
  <2> SUFFICES ASSUME NEW t \in Subs, st'[t] = "active", remaining'[t] = 0, Limit[t] # 0
               PROVE  Claiming(t)' # {}
    BY DEF ExhaustedIsReaped
  <2>1. CASE t \in C
    BY <2>1, ClaimShape
  <2>2. CASE t \notin C
    <3>1. t \notin Pushed(e)
      BY <1>4
    <3>2. st[t] = "active" /\ remaining[t] = 0
      BY <1>4, <2>2, <3>1
    <3> QED
      BY <2>2, <3>2, ClaimShape DEF CInv, ExhaustedIsReaped
  <2> QED
    BY <2>1, <2>2
<1>7. Unlimited'
  <2>1. \A t \in Subs : remaining[t] \in Nat \cup {NoLimit} /\ (remaining[t] = NoLimit <=> Limit[t] = NoLimit)
    BY DEF CInv, Unlimited, TInv, TypeOK
  <2>2. ASSUME NEW t \in Subs PROVE remaining'[t] = NoLimit <=> Limit[t] = NoLimit
    <3>1. Dec(remaining[t]) = NoLimit <=> remaining[t] = NoLimit
      BY <2>1, DecKeepsUnlimited
    <3> QED
      BY <1>4, <2>1, <3>1
  <2> QED
    BY <2>2 DEF Unlimited
<1>8. Fresh'
  <2> SUFFICES ASSUME NEW t \in Subs, st'[t] = "new"
               PROVE  remaining'[t] = Limit[t] /\ inFlight'[t] = 0 /\ Len(sent'[t]) = 0
    BY DEF Fresh
  <2>1. st[t] = "new" /\ t \notin C /\ t \notin Pushed(e)
    BY <1>4
  <2> QED
    BY <1>4, <2>1, ClaimShape DEF CInv, Fresh
<1>9. GuardsInLoop'
  BY <1>3 DEF CInv, GuardsInLoop
<1>10. GuardsOnQueues'
  <2> SUFFICES ASSUME NEW q \in Publishers, NEW t \in guards'[q]
               PROVE  Policy[t] # "coalesce" /\ st'[t] # "new"
    BY DEF GuardsOnQueues
  <2>1. t \in Subs /\ Policy[t] # "coalesce" /\ st[t] # "new"
    <3>1. CASE q = p
      BY <1>3, <3>1 DEF Claimable, Matching, Coalescing
    <3>2. CASE q # p
      BY <1>3, <3>2 DEF CInv, GuardsOnQueues, TInv, TypeOK
    <3> QED
      BY <3>1, <3>2
  <2> QED
    BY <1>4, <2>1
<1> QED
  BY <1>1, <1>5, <1>6, <1>7, <1>8, <1>9, <1>10 DEF CInv

(* Settling a claim: a commit settles the match in hand, a cancelled        *)
(* publisher drops a guard.                                                 *)
Settles(p, s) ==
  \/ /\ s = cur[p]
     /\ CommitDelivered(p) \/ CommitDropped(p) \/ CommitDisconnect(p) \/ CommitClosed(p)
  \/ DropGuard(p, s)

(* What every way of settling a claim has in common. *)
LEMMA SettleShape ==
  ASSUME CInv, NEW p \in Publishers, NEW s, Settles(p, s)
  PROVE  /\ s \in Subs /\ s \in guards[p] /\ st[s] # "new" /\ sent' = sent
         /\ guards' = [guards EXCEPT ![p] = @ \ {s}]
         /\ \A q \in Publishers : q # p => pc'[q] = pc[q] /\ cur'[q] = cur[q]
         /\ pc'[p] \in {"loop", "cancelled"}
         /\ \A t \in Subs : t # s => /\ st'[t] = st[t] /\ remaining'[t] = remaining[t]
                                      /\ inFlight'[t] = inFlight[t]
         /\ st'[s] = st[s] \/ st'[s] = "removed"
         /\ remaining'[s] \in {remaining[s], Inc(remaining[s])}
<1>1. CASE DropGuard(p, s)
  <2>1. s \in Subs
    BY <1>1 DEF DropGuard, CInv, TInv, TypeOK
  <2> QED
    BY <1>1, <2>1 DEF DropGuard, Refund, CInv, TInv, TypeOK, GuardsOnQueues
<1>2. CASE s = cur[p] /\ pc[p] \in Outcomes
  <2>1. s \in Subs /\ s \in guards[p] /\ st[s] # "new"
    BY <1>2 DEF CInv, TInv, TypeOK, HoldsMatch, GuardsOnQueues
  <2>2. CASE CommitDelivered(p)
    BY <1>2, <2>1, <2>2 DEF CommitDelivered, Disarm, CInv, TInv, TypeOK
  <2>3. CASE CommitDropped(p)
    BY <1>2, <2>1, <2>3 DEF CommitDropped, Refund, Disarm, CInv, TInv, TypeOK
  <2>4. CASE CommitDisconnect(p)
    BY <1>2, <2>1, <2>4 DEF CommitDisconnect, Disarm, CInv, TInv, TypeOK
  <2>5. CASE CommitClosed(p)
    BY <1>2, <2>1, <2>5 DEF CommitClosed, Disarm, CInv, TInv, TypeOK
  <2> QED
    BY <1>1, <2>2, <2>3, <2>4, <2>5 DEF Settles
<1> QED
  BY <1>1, <1>2 DEF Settles, CommitDelivered, CommitDropped, CommitDisconnect, CommitClosed,
       Outcomes

(* Settling gives up exactly one claim. *)
LEMMA SettleSets ==
  ASSUME CInv, NEW p \in Publishers, NEW s, Settles(p, s)
  PROVE  /\ p \in Claiming(s) /\ Claiming(s)' = Claiming(s) \ {p}
         /\ \A t \in Subs : t # s => Claiming(t)' = Claiming(t) /\ Unsent(t)' = Unsent(t)
         /\ Unsent(s)' = Unsent(s) \ {p}
         /\ pc[p] # "delivered" => p \in Unsent(s)
         /\ CommitDelivered(p) /\ s = cur[p] => p \notin Unsent(s)
<1>1. guards \in [Publishers -> SUBSET Subs]
  BY DEF CInv, TInv, TypeOK
<1>2. \A q \in Publishers : /\ q # p => guards'[q] = guards[q] /\ pc'[q] = pc[q] /\ cur'[q] = cur[q]
                            /\ q = p => guards'[q] = guards[q] \ {s} /\ pc'[q] # "delivered"
  BY <1>1, SettleShape
<1>3. s \in guards[p]
  BY SettleShape
<1>4. p \in Claiming(s) /\ Claiming(s)' = Claiming(s) \ {p}
  BY <1>2, <1>3 DEF Claiming
<1>5. Unsent(s)' = Unsent(s) \ {p} /\ (pc[p] # "delivered" => p \in Unsent(s))
  BY <1>2, <1>3 DEF Unsent
<1>6. CommitDelivered(p) /\ s = cur[p] => p \notin Unsent(s)
  BY DEF CommitDelivered, Unsent
<1>7. ASSUME NEW t \in Subs, t # s
      PROVE  Claiming(t)' = Claiming(t) /\ Unsent(t)' = Unsent(t)
  <2>1. pc[p] = "delivered" => cur[p] = s
    BY DEF Settles, CommitDelivered, CommitDropped, CommitDisconnect, CommitClosed, DropGuard
  <2> QED
    BY <1>2, <1>7, <2>1 DEF Claiming, Unsent
<1> QED
  BY <1>4, <1>5, <1>6, <1>7

(* What settling does to the counters of a subscription that stays in the map. *)
LEMMA SettleCounters ==
  ASSUME CInv, NEW p \in Publishers, NEW s, Settles(p, s), st'[s] = "active"
  PROVE  /\ st[s] = "active"
         /\ inFlight'[s] = Cardinality(Claiming(s)) - 1
         /\ \/ /\ CommitDelivered(p) /\ s = cur[p]
               /\ remaining'[s] = remaining[s]
               /\ remaining[s] = 0 => inFlight'[s] # 0
            \/ pc[p] # "delivered" /\ remaining'[s] = Inc(remaining[s])
<1>1. s \in Subs /\ st[s] # "new"
  BY SettleShape
<1>2. st[s] = "active"
  BY <1>1, SettleShape DEF CInv, TInv, TypeOK
<1>3. /\ inFlight[s] = Cardinality(Claiming(s)) /\ inFlight[s] \in Nat \ {0}
      /\ Dec(inFlight[s]) = Cardinality(Claiming(s)) - 1
  <2>1. inFlight[s] = Cardinality(Claiming(s))
    BY <1>1, <1>2 DEF CInv, InFlightExact
  <2>2. Cardinality(Claiming(s)) \in Nat \ {0}
    BY SettleSets, ClaimsFinite, ClaimGiven
  <2> QED
    BY <2>1, <2>2 DEF Dec
<1>4. CASE s = cur[p] /\ CommitDelivered(p)
  BY <1>1, <1>2, <1>3, <1>4 DEF CommitDelivered, Exhausted, CInv, TInv, TypeOK
<1>5. CASE s = cur[p] /\ CommitDropped(p)
  BY <1>1, <1>2, <1>3, <1>5 DEF CommitDropped, Refund, CInv, TInv, TypeOK
<1>6. CASE s = cur[p] /\ (CommitDisconnect(p) \/ CommitClosed(p))
  BY <1>1, <1>6 DEF CommitDisconnect, CommitClosed, CInv, TInv, TypeOK
<1>7. CASE DropGuard(p, s)
  BY <1>1, <1>2, <1>3, <1>7 DEF DropGuard, Refund, CInv, TInv, TypeOK
<1> QED
  BY <1>2, <1>4, <1>5, <1>6, <1>7 DEF Settles

(* The settling publisher is counted out, and the last one out removes the entry. *)
LEMMA ClaimsSettle ==
  ASSUME CInv, NEW p \in Publishers, NEW s, Settles(p, s)
  PROVE  CInv'
<1>1. TInv'
  <2>1. CASE s = cur[p] /\ (CommitDelivered(p) \/ CommitDropped(p) \/ CommitDisconnect(p)
                               \/ CommitClosed(p))
    BY <2>1, SettleType DEF CInv
  <2>2. CASE DropGuard(p, s)
    BY <2>2, SettleShape, SettleType DEF CInv
  <2> QED
    BY <2>1, <2>2 DEF Settles
<1>2. InFlightExact'
  <2> SUFFICES ASSUME NEW t \in Subs, st'[t] = "active"
               PROVE  inFlight'[t] = Cardinality(Claiming(t)')
    BY DEF InFlightExact
  <2>1. CASE t = s
    BY <2>1, SettleCounters, SettleSets, ClaimsFinite, ClaimGiven
  <2>2. CASE t # s
    BY <2>2, SettleShape, SettleSets DEF CInv, InFlightExact
  <2> QED
    BY <2>1, <2>2
<1>3. ExhaustedIsReaped'
  <2> SUFFICES ASSUME NEW t \in Subs, st'[t] = "active", remaining'[t] = 0, Limit[t] # 0
               PROVE  Claiming(t)' # {}
    BY DEF ExhaustedIsReaped
  <2>1. CASE t = s
    <3>1. remaining[s] = 0 /\ inFlight'[s] # 0
      <4>1. Inc(remaining[s]) # 0
        BY <2>1, DecKeepsUnlimited DEF CInv, TInv, TypeOK
      <4> QED
        BY <2>1, <4>1, SettleCounters
    <3>2. Cardinality(Claiming(s)') # 0
      BY <1>2, <2>1, <3>1 DEF InFlightExact
    <3> QED
      BY <2>1, <3>2, FS_EmptySet
  <2>2. CASE t # s
    BY <2>2, SettleShape, SettleSets DEF CInv, ExhaustedIsReaped
  <2> QED
    BY <2>1, <2>2
<1>4. Fresh'
  BY SettleShape DEF CInv, Fresh
<1>5. Unlimited'
  <2> SUFFICES ASSUME NEW t \in Subs PROVE remaining'[t] = NoLimit <=> Limit[t] = NoLimit
    BY DEF Unlimited
  <2>1. remaining[t] \in Nat \cup {NoLimit} /\ (remaining[t] = NoLimit <=> Limit[t] = NoLimit)
    BY DEF CInv, TInv, TypeOK, Unlimited
  <2>2. Inc(remaining[t]) = NoLimit <=> remaining[t] = NoLimit
    BY <2>1, DecKeepsUnlimited
  <2> QED
    BY <2>1, <2>2, SettleShape
<1>6. guards \in [Publishers -> SUBSET Subs]
  BY DEF CInv, TInv, TypeOK
<1>7. GuardsInLoop'
  BY <1>6, SettleShape DEF CInv, GuardsInLoop
<1>8. GuardsOnQueues'
  <2> SUFFICES ASSUME NEW q \in Publishers, NEW t \in guards'[q]
               PROVE  Policy[t] # "coalesce" /\ st'[t] # "new"
    BY DEF GuardsOnQueues
  <2>1. t \in guards[q] /\ t \in Subs
    BY <1>6, SettleShape
  <2>2. Policy[t] # "coalesce" /\ st[t] # "new"
    BY <2>1 DEF CInv, GuardsOnQueues
  <2> QED
    BY <2>1, <2>2, SettleShape
<1> QED
  BY <1>1, <1>2, <1>3, <1>4, <1>5, <1>7, <1>8 DEF CInv

(* CInv is inductive. *)
LEMMA ClaimsStep == CInv /\ [Next]_vars => CInv'
<1> SUFFICES ASSUME CInv, [Next]_vars PROVE CInv'
  OBVIOUS
<1>1. CASE \E s \in Subs : ConsumerStep(s)
  BY <1>1, ClaimsConsumer
<1>2. CASE \E p \in Publishers, str \in Streams, k \in Keys \cup {NoKey} :
             PublishEnvelope(p, str, k)
  BY <1>2, ClaimsPublish
<1>3. ASSUME NEW p \in Publishers, PublisherStep(p) \/ Cancel(p) PROVE CInv'
  <2>1. CASE RejectTooLarge(p) \/ RecordEnvelope(p) \/ PruneIndex(p)
    BY <2>1, ClaimsRecord
  <2>2. CASE TryPublish(p)
    BY <2>2, ClaimsTryPublish
  <2>3. CASE Claim(p)
    BY <2>3, ClaimsClaim
  <2>4. CASE AwaitSend(p) \/ \E s \in Subs : TrySend(p, s)
    BY <2>4, ClaimsSend
  <2>5. CASE Return(p) \/ Cancel(p)
    BY <2>5, ClaimsReturn
  <2>6. CASE CommitDelivered(p) \/ CommitDropped(p) \/ CommitDisconnect(p) \/ CommitClosed(p)
    BY <2>6, ClaimsSettle DEF Settles
  <2>7. CASE \E s \in Subs : DropGuard(p, s)
    BY <2>7, ClaimsSettle DEF Settles
  <2> QED
    BY <1>3, <2>1, <2>2, <2>3, <2>4, <2>5, <2>6, <2>7 DEF PublisherStep
<1>4. CASE UNCHANGED vars
  <2>1. TInv'
    BY <1>4, TypeStep DEF CInv
  <2>2. \A t \in Subs : Claiming(t)' = Claiming(t)
    BY <1>4, SameGuards DEF vars
  <2> QED
    BY <1>4, <2>1, <2>2 DEF vars, CInv, GuardsInLoop, GuardsOnQueues, Fresh, Unlimited,
         InFlightExact, ExhaustedIsReaped
<1> QED
  BY <1>1, <1>2, <1>3, <1>4 DEF Next

(* in_flight is the number of active claim guards on a live subscription,   *)
(* with any mix of publish, try_publish, overflow, cancellation and         *)
(* unsubscription.                                                          *)
THEOREM InFlightCorrect == Spec => []InFlightExact
  BY ClaimsInit, ClaimsStep, PTL DEF Spec, CInv

(* A limited subscription whose quota is used up never outlives the last    *)
(* publisher with a claim on it.                                            *)
THEOREM ExhaustionCorrect == Spec => []ExhaustedIsReaped
  BY ClaimsInit, ClaimsStep, PTL DEF Spec, CInv

-----------------------------------------------------------------------------
(* The quota.  QuotaConserved speaks of live subscriptions only; a removed  *)
(* one can still be sent to by publishers that claimed a slot before, which *)
(* QuotaBound accounts for.  Both need every publisher to claim before it   *)
(* sends, hence the assumption that none is in try_publish, and a coalescing *)
(* subscription to start with a quota.                                      *)
QuotaBound ==
  \A s \in Subs : Limit[s] # NoLimit => Len(sent[s]) + Cardinality(Unsent(s)) <= Limit[s]

QInv == CInv /\ QuotaConserved /\ QuotaBound

(* The quantities of QuotaConserved are naturals for a limited subscription. *)
LEMMA LimitedTypes ==
  ASSUME CInv, NEW s \in Subs, Limit[s] # NoLimit
  PROVE  /\ Limit[s] \in Nat /\ remaining[s] \in Nat
         /\ Len(sent[s]) \in Nat /\ Cardinality(Unsent(s)) \in Nat
<1>1. Limit[s] \in Nat
  BY BusAssumption
<1>2. remaining[s] \in Nat
  BY DEF CInv, TInv, TypeOK, Unlimited
<1>3. Len(sent[s]) \in Nat
  BY DEF CInv, TInv, TypeOK
<1> QED
  BY <1>1, <1>2, <1>3, ClaimsFinite

(* Steps that send nothing, settle nothing and charge nothing. *)
LEMMA QuotaQuiet ==
  ASSUME QInv, CInv', NEW p \in Publishers,
         UNCHANGED <<st, remaining, guards, sent>>,
         \A q \in Publishers : q # p => pc'[q] = pc[q] /\ cur'[q] = cur[q],
         guards[p] = {} \/ (pc[p] # "delivered" /\ pc'[p] # "delivered")
  PROVE  QInv'
<1>1. \A s \in Subs : Unsent(s)' = Unsent(s)
  BY DEF Unsent
<1> QED
  BY <1>1 DEF QInv, QuotaConserved, QuotaBound

(* Consumers do not touch the quota. *)
LEMMA QuotaConsumer ==
  ASSUME QInv, NEW s \in Subs, ConsumerStep(s)
  PROVE  QInv'
<1>1. CInv' /\ CInv
  BY ClaimsConsumer DEF QInv
<1>2. guards' = guards /\ pc' = pc /\ cur' = cur /\ remaining' = remaining /\ sent' = sent
  BY DEF ConsumerStep, Subscribe, Unsubscribe, Recv, RecvNone, DropReceiver, pubVars
<1>3. \A t \in Subs : Unsent(t)' = Unsent(t)
  BY <1>2 DEF Unsent
<1>4. QuotaBound'
  BY <1>2, <1>3 DEF QInv, QuotaBound
<1>5. QuotaConserved'
  <2> SUFFICES ASSUME NEW t \in Subs, st'[t] = "active", Limit[t] # NoLimit
               PROVE  Len(sent[t]) + remaining[t] + Cardinality(Unsent(t)) = Limit[t]
    BY <1>2, <1>3 DEF QuotaConserved
  <2>1. CASE st[t] = "active"
    BY <2>1 DEF QInv, QuotaConserved
  <2>2. CASE st[t] = "new"
    <3>1. Unsent(t) = {}
      BY <1>1, <2>2 DEF CInv, GuardsOnQueues, Unsent
    <3>2. Len(sent[t]) = 0 /\ remaining[t] = Limit[t] /\ Cardinality(Unsent(t)) = 0
      BY <1>1, <2>2, <3>1, FS_EmptySet DEF CInv, Fresh
    <3> QED
      BY <1>1, <3>2, LimitedTypes
  <2>3. st[t] \in {"new", "active"}
    BY <1>1 DEF ConsumerStep, Subscribe, Unsubscribe, Recv, RecvNone, DropReceiver, CInv, TInv,
         TypeOK
  <2> QED
    BY <2>1, <2>2, <2>3
<1> QED
  BY <1>1, <1>4, <1>5 DEF QInv

(* A send turns an unsent claim into a delivered envelope. *)
LEMMA QuotaSend ==
  ASSUME QInv, NEW p \in Publishers, AwaitSend(p) \/ \E s \in Subs : TrySend(p, s)
  PROVE  QInv'
<1>1. CInv' /\ CInv /\ TInv
  BY ClaimsSend DEF QInv, CInv
<1>0. PICK c \in Subs : c = cur'[p]
  BY <1>1, SendShape DEF TInv, TypeOK
<1>2. /\ UNCHANGED <<st, remaining, guards>>
      /\ \A q \in Publishers : q # p => pc'[q] = pc[q] /\ cur'[q] = cur[q]
      /\ c \in guards[p] /\ c \in Subs /\ pc[p] # "delivered"
      /\ \/ pc'[p] # "delivered" /\ sent' = sent
         \/ pc'[p] = "delivered" /\ sent' = [sent EXCEPT ![c] = Append(@, event[p])]
  BY <1>0, <1>1, SendShape
<1>3. CASE pc'[p] # "delivered"
  BY <1>1, <1>2, <1>3, QuotaQuiet
<1>4. CASE pc'[p] = "delivered"
  <2>1. p \in Unsent(c) /\ Unsent(c)' = Unsent(c) \ {p}
    BY <1>0, <1>2, <1>4 DEF Unsent
  <2>2. Cardinality(Unsent(c)') = Cardinality(Unsent(c)) - 1
    BY <2>1, ClaimsFinite, ClaimGiven
  <2>3. sent \in [Subs -> Seq(Event)]
    BY <1>1 DEF TInv, TypeOK
  <2>4. Len(sent'[c]) = Len(sent[c]) + 1
    <3>1. sent'[c] = Append(sent[c], event[p])
      BY <1>2, <1>4, <2>3
    <3>2. sent[c] \in Seq(Event)
      BY <1>2, <2>3
    <3> QED
      BY <3>1, <3>2
  <2>5. \A t \in Subs : t # c => sent'[t] = sent[t] /\ Unsent(t)' = Unsent(t)
    BY <1>0, <1>2, <1>4, <2>3 DEF Unsent
  <2>6. ASSUME NEW t \in Subs, Limit[t] # NoLimit
        PROVE  /\ st[t] = "active" =>
                    Len(sent'[t]) + remaining[t] + Cardinality(Unsent(t)') = Limit[t]
               /\ Len(sent'[t]) + Cardinality(Unsent(t)') <= Limit[t]
    <3>1. /\ st[t] = "active" => Len(sent[t]) + remaining[t] + Cardinality(Unsent(t)) = Limit[t]
          /\ Len(sent[t]) + Cardinality(Unsent(t)) <= Limit[t]
      BY <2>6 DEF QInv, QuotaConserved, QuotaBound
    <3>2. /\ Limit[t] \in Nat /\ remaining[t] \in Nat
          /\ Len(sent[t]) \in Nat /\ Cardinality(Unsent(t)) \in Nat
      BY <1>1, <2>6, LimitedTypes
    <3>3. CASE t = c
      BY <2>2, <2>4, <3>1, <3>2, <3>3
    <3>4. CASE t # c
      BY <2>5, <3>1, <3>4
    <3> QED
      BY <3>3, <3>4
  <2> QED
    BY <1>1, <1>2, <2>6 DEF QInv, QuotaConserved, QuotaBound
<1> QED
  BY <1>3, <1>4

(* What the quota theorems assume of the instance. *)
ClaimsOnly ==
  /\ SyncPublishers = {}
  /\ \A s \in Subs : Policy[s] = "coalesce" => Limit[s] # 0

(* A live coalescing subscription has quota left: nobody claims it, so its  *)
(* last slot removes it.                                                    *)
LEMMA CoalesceHasQuota ==
  ASSUME CInv, ClaimsOnly, NEW s \in Subs, st[s] = "active", Policy[s] = "coalesce"
  PROVE  remaining[s] # 0
<1>1. Claiming(s) = {}
  BY DEF CInv, GuardsOnQueues, Claiming
<1> QED
  BY <1>1 DEF CInv, ExhaustedIsReaped, ClaimsOnly

(* A claim turns a free slot into an unsent claim; a coalescing push uses it at once. *)
LEMMA QuotaClaim ==
  ASSUME QInv, ClaimsOnly, NEW p \in Publishers, Claim(p)
  PROVE  QInv'
<1>1. CInv' /\ CInv /\ TInv
  BY ClaimsClaim DEF QInv, CInv
<1>2. PICK e \in Event : e = event[p] /\ FanOut(e, {}, Claimable(e), {})
  BY <1>1 DEF Claim, TInv, HoldsEvent
<1>3. ASSUME NEW t \in Subs, Limit[t] # NoLimit
      PROVE  /\ st'[t] = "active" =>
                  Len(sent'[t]) + remaining'[t] + Cardinality(Unsent(t)') = Limit[t]
             /\ Len(sent'[t]) + Cardinality(Unsent(t)') <= Limit[t]
  <2>1. /\ st[t] = "active" => Len(sent[t]) + remaining[t] + Cardinality(Unsent(t)) = Limit[t]
        /\ Len(sent[t]) + Cardinality(Unsent(t)) <= Limit[t]
    BY <1>3 DEF QInv, QuotaConserved, QuotaBound
  <2>2. /\ Limit[t] \in Nat /\ remaining[t] \in Nat
        /\ Len(sent[t]) \in Nat /\ Cardinality(Unsent(t)) \in Nat
    BY <1>1, <1>3, LimitedTypes
  <2>3. remaining[t] # 0 => Dec(remaining[t]) = remaining[t] - 1
    BY <2>2, DecKeepsUnlimited
  <2>4. st'[t] = st[t] \/ st'[t] = "removed"
    BY <1>1, <1>2, FanOutShape
  <2>5. CASE t \in Claimable(e)
    <3>1. /\ Cardinality(Unsent(t)') = Cardinality(Unsent(t)) + 1
          /\ st[t] = "active" /\ Policy[t] # "coalesce" /\ remaining[t] # 0
      BY <1>1, <1>2, <2>5, ClaimShape, ClaimsFinite, ClaimTaken
    <3>2. sent'[t] = sent[t] /\ remaining'[t] = remaining[t] - 1
      BY <1>1, <1>2, <2>3, <2>5, <3>1, FanOutShape
    <3>3. Len(sent[t]) + remaining[t] + Cardinality(Unsent(t)) = Limit[t]
      BY <2>1, <3>1
    <3> DEFINE n == Len(sent[t])
               u == Cardinality(Unsent(t))
               rem == remaining[t]
    <3>4. n \in Nat /\ u \in Nat /\ rem \in Nat /\ rem # 0 /\ n + rem + u = Limit[t] /\ Limit[t] \in Nat
      BY <2>2, <3>1, <3>3
    <3>5. Len(sent'[t]) = n /\ remaining'[t] = rem - 1 /\ Cardinality(Unsent(t)') = u + 1
      BY <3>1, <3>2
    <3> HIDE DEF n, u, rem
    <3>6. n + (rem - 1) + (u + 1) = Limit[t] /\ n + (u + 1) <= Limit[t]
      BY <3>4
    <3> QED
      BY <3>5, <3>6
  <2>6. CASE t \in Pushed(e)
    <3>1. t \notin Claimable(e)
      BY <2>6 DEF Claimable, Pushed
    <3>2. Unsent(t)' = Unsent(t)
      BY <1>1, <1>2, <3>1, ClaimShape
    <3>3. st[t] = "active" /\ Policy[t] = "coalesce"
      BY <1>1, <1>2, <2>6, FanOutShape
    <3>4. remaining[t] # 0
      BY <1>1, <3>3, CoalesceHasQuota
    <3>5. Len(sent'[t]) = Len(sent[t]) + 1 /\ remaining'[t] = remaining[t] - 1
      BY <1>1, <1>2, <2>3, <2>6, <3>4, FanOutShape
    <3>6. Len(sent[t]) + remaining[t] + Cardinality(Unsent(t)) = Limit[t]
      BY <2>1, <3>3
    <3> DEFINE n == Len(sent[t])
               u == Cardinality(Unsent(t))
               rem == remaining[t]
    <3>7. n \in Nat /\ u \in Nat /\ rem \in Nat /\ rem # 0 /\ n + rem + u = Limit[t] /\ Limit[t] \in Nat
      BY <2>2, <3>4, <3>6
    <3>8. Len(sent'[t]) = n + 1 /\ remaining'[t] = rem - 1 /\ Cardinality(Unsent(t)') = u
      BY <3>2, <3>5
    <3> HIDE DEF n, u, rem
    <3>9. n + 1 + (rem - 1) + u = Limit[t] /\ n + 1 + u <= Limit[t]
      BY <3>7
    <3> QED
      BY <3>8, <3>9
  <2>7. CASE t \notin Claimable(e) \cup Pushed(e)
    <3>1. Unsent(t)' = Unsent(t)
      BY <1>1, <1>2, <2>7, ClaimShape
    <3>2. sent'[t] = sent[t] /\ remaining'[t] = remaining[t]
      BY <1>1, <1>2, <2>7, FanOutShape
    <3> QED
      BY <2>1, <2>4, <3>1, <3>2
  <2> QED
    BY <2>5, <2>6, <2>7
<1> QED
  BY <1>1, <1>3 DEF QInv, QuotaConserved, QuotaBound

(* A refund turns an unsent claim back into a free slot. *)
LEMMA QuotaSettle ==
  ASSUME QInv, NEW p \in Publishers, NEW s, Settles(p, s)
  PROVE  QInv'
<1>1. CInv' /\ CInv /\ s \in Subs
  BY ClaimsSettle, SettleShape DEF QInv
<1>2. ASSUME NEW t \in Subs, Limit[t] # NoLimit
      PROVE  /\ st'[t] = "active" =>
                  Len(sent'[t]) + remaining'[t] + Cardinality(Unsent(t)') = Limit[t]
             /\ Len(sent'[t]) + Cardinality(Unsent(t)') <= Limit[t]
  <2>1. /\ st[t] = "active" => Len(sent[t]) + remaining[t] + Cardinality(Unsent(t)) = Limit[t]
        /\ Len(sent[t]) + Cardinality(Unsent(t)) <= Limit[t]
    BY <1>2 DEF QInv, QuotaConserved, QuotaBound
  <2>2. /\ Limit[t] \in Nat /\ remaining[t] \in Nat
        /\ Len(sent[t]) \in Nat /\ Cardinality(Unsent(t)) \in Nat
    BY <1>1, <1>2, LimitedTypes
  <2>3. sent' = sent
    BY <1>1, SettleShape
  <2>4. CASE t # s
    BY <1>1, <2>1, <2>3, <2>4, SettleShape, SettleSets
  <2>5. CASE t = s
    <3>1. Unsent(t)' = Unsent(t) \ {p}
      BY <1>1, <2>5, SettleSets
    <3>2. Cardinality(Unsent(t)') = IF p \in Unsent(t) THEN Cardinality(Unsent(t)) - 1
                                    ELSE Cardinality(Unsent(t))
      BY <3>1, ClaimsFinite, FS_RemoveElement
    <3>3. ASSUME st'[t] = "active"
          PROVE  Len(sent'[t]) + remaining'[t] + Cardinality(Unsent(t)') = Limit[t]
      <4>1. st[t] = "active"
        BY <1>1, <2>5, <3>3, SettleCounters
      <4>2. CASE CommitDelivered(p) /\ s = cur[p] /\ remaining'[t] = remaining[t]
        <5>1. p \notin Unsent(t)
          BY <1>1, <2>5, <4>2, SettleSets
        <5> QED
          BY <2>1, <2>3, <3>2, <4>1, <4>2, <5>1
      <4>3. CASE pc[p] # "delivered" /\ remaining'[t] = Inc(remaining[t])
        <5>1. p \in Unsent(t)
          BY <1>1, <2>5, <4>3, SettleSets
        <5>2. remaining'[t] = remaining[t] + 1
          BY <2>2, <4>3, DecKeepsUnlimited
        <5> DEFINE n == Len(sent[t])
                   u == Cardinality(Unsent(t))
                   rem == remaining[t]
        <5>3. n \in Nat /\ u \in Nat /\ rem \in Nat /\ n + rem + u = Limit[t]
          BY <2>1, <2>2, <4>1
        <5>4. Len(sent'[t]) = n /\ remaining'[t] = rem + 1 /\ Cardinality(Unsent(t)') = u - 1
          BY <2>3, <3>2, <5>1, <5>2
        <5> HIDE DEF n, u, rem
        <5>5. n + (rem + 1) + (u - 1) = Limit[t]
          BY <5>3
        <5> QED
          BY <5>4, <5>5
      <4> QED
        BY <1>1, <2>5, <3>3, <4>2, <4>3, SettleCounters
    <3> QED
      BY <2>1, <2>2, <2>3, <3>2, <3>3
  <2> QED
    BY <2>4, <2>5
<1> QED
  BY <1>1, <1>2 DEF QInv, QuotaConserved, QuotaBound

(* The whole limit is free to begin with. *)
LEMMA QuotaInit == Init => QInv
<1> SUFFICES ASSUME Init PROVE QInv
  OBVIOUS
<1>1. CInv /\ \A s \in Subs : st[s] = "new" /\ Len(sent[s]) = 0
  BY ClaimsInit DEF Init
<1>2. \A s \in Subs : Cardinality(Unsent(s)) = 0
  <2>1. \A s \in Subs : Unsent(s) = {}
    BY DEF Init, Unsent
  <2> QED
    BY <2>1, FS_EmptySet
<1>3. QuotaBound
  BY <1>1, <1>2, BusAssumption DEF QuotaBound
<1> QED
  BY <1>1, <1>3 DEF QInv, QuotaConserved

(* QInv is inductive when every publisher claims before it sends. *)
LEMMA QuotaStep ==
  ASSUME ClaimsOnly
  PROVE  QInv /\ [Next]_vars => QInv'
<1> SUFFICES ASSUME QInv, [Next]_vars PROVE QInv'
  OBVIOUS
<1>0. CInv' /\ CInv
  BY ClaimsStep DEF QInv
<1>1. CASE \E s \in Subs : ConsumerStep(s)
  BY <1>1, QuotaConsumer
<1>2. ASSUME NEW p \in Publishers, NEW str \in Streams, NEW k \in Keys \cup {NoKey},
             PublishEnvelope(p, str, k)
      PROVE  QInv'
  <2>1. /\ UNCHANGED <<st, remaining, guards, sent>> /\ guards[p] = {}
        /\ \A q \in Publishers : q # p => pc'[q] = pc[q] /\ cur'[q] = cur[q]
    BY <1>0, <1>2 DEF PublishEnvelope, subVars, CInv, GuardsInLoop, TInv, TypeOK
  <2> QED
    BY <1>0, <2>1, QuotaQuiet
<1>3. ASSUME NEW p \in Publishers, PublisherStep(p) \/ Cancel(p) PROVE QInv'
  <2>1. CASE RejectTooLarge(p) \/ RecordEnvelope(p) \/ PruneIndex(p)
    <3>1. /\ UNCHANGED <<st, remaining, guards, sent>> /\ guards[p] = {}
          /\ \A q \in Publishers : q # p => pc'[q] = pc[q] /\ cur'[q] = cur[q]
      BY <1>0, <2>1 DEF RejectTooLarge, RecordEnvelope, PruneIndex, subVars, CInv, GuardsInLoop,
           TInv, TypeOK
    <3> QED
      BY <1>0, <3>1, QuotaQuiet
  <2>2. CASE TryPublish(p)
    BY <2>2 DEF TryPublish, ClaimsOnly
  <2>3. CASE Claim(p)
    BY <2>3, QuotaClaim
  <2>4. CASE AwaitSend(p) \/ \E s \in Subs : TrySend(p, s)
    BY <2>4, QuotaSend
  <2>5. CASE Return(p) \/ Cancel(p)
    <3>1. /\ UNCHANGED <<st, remaining, guards, sent>>
          /\ guards[p] = {} \/ (pc[p] # "delivered" /\ pc'[p] # "delivered")
          /\ \A q \in Publishers : q # p => pc'[q] = pc[q] /\ cur'[q] = cur[q]
      BY <1>0, <2>5 DEF Return, Cancel, subVars, CInv, TInv, TypeOK
    <3> QED
      BY <1>0, <3>1, QuotaQuiet
  <2>6. CASE CommitDelivered(p) \/ CommitDropped(p) \/ CommitDisconnect(p) \/ CommitClosed(p)
    BY <2>6, QuotaSettle DEF Settles
  <2>7. CASE \E s \in Subs : DropGuard(p, s)
    BY <2>7, QuotaSettle DEF Settles
  <2> QED
    BY <1>3, <2>1, <2>2, <2>3, <2>4, <2>5, <2>6, <2>7 DEF PublisherStep
<1>4. CASE UNCHANGED vars
  <2>1. \A t \in Subs : Unsent(t)' = Unsent(t)
    BY <1>4 DEF vars, Unsent
  <2> QED
    BY <1>0, <1>4, <2>1 DEF vars, QInv, QuotaConserved, QuotaBound
<1> QED
  BY <1>1, <1>2, <1>3, <1>4 DEF Next

(* Concurrent publish calls, whatever is dropped, cancelled, disconnected   *)
(* or unsubscribed between their claim and their commit, never lose or mint *)
(* a slot of a live subscription's quota.                                   *)
THEOREM QuotaConservation ==
  ASSUME ClaimsOnly
  PROVE  Spec => []QuotaConserved
  BY QuotaInit, QuotaStep, PTL DEF Spec, QInv

(* ... and so never deliver more envelopes than the subscription's limit. *)
THEOREM QuotaCorrect ==
  ASSUME ClaimsOnly
  PROVE  Spec => []QuotaRespected
<1>1. QInv => QuotaRespected
  <2> SUFFICES ASSUME QInv, NEW s \in Subs, Limit[s] # NoLimit
               PROVE  Len(sent[s]) <= Limit[s]
    BY DEF QuotaRespected
  <2>1. /\ Limit[s] \in Nat /\ Len(sent[s]) \in Nat /\ Cardinality(Unsent(s)) \in Nat
        /\ Len(sent[s]) + Cardinality(Unsent(s)) <= Limit[s]
    BY LimitedTypes DEF QInv, QuotaBound
  <2> QED
    BY <2>1
<1> QED
  BY <1>1, QuotaInit, QuotaStep, PTL DEF Spec

-----------------------------------------------------------------------------
(* The slow-consumer notice.  NoticeNamesSent is inductive together with    *)
(* the fact that the last delivered envelope of a subscription, and one     *)
(* whose send succeeded but is not yet committed, are in its history.       *)
InSent(s, e) == \E i \in DOMAIN sent[s] : sent[s][i] = e

LastSent ==
  \A s \in Subs : lastDelivered[s] # NoEvent => InSent(s, lastDelivered[s])

HandedOver ==
  \A p \in Publishers : pc[p] = "delivered" => InSent(cur[p], event[p])

NInv == TInv /\ LastSent /\ HandedOver /\ NoticeNamesSent

(* An envelope appended to a history is in it, and what was there stays. *)
LEMMA SentGrows ==
  ASSUME TInv, NEW s \in Subs,
         sent'[s] = sent[s] \/ \E e \in Event : sent'[s] = Append(sent[s], e)
  PROVE  /\ \A x : InSent(s, x) => InSent(s, x)'
         /\ \A e \in Event : sent'[s] = Append(sent[s], e) => InSent(s, e)'
<1> DEFINE q == sent[s]
<1>1. q \in Seq(Event)
  BY DEF TInv, TypeOK
<1> HIDE DEF q
<1>2. ASSUME NEW e \in Event
      PROVE  /\ DOMAIN Append(q, e) = 1 .. Len(q) + 1
             /\ \A i \in DOMAIN q : i \in DOMAIN Append(q, e) /\ Append(q, e)[i] = q[i]
             /\ Len(q) + 1 \in DOMAIN Append(q, e)
             /\ Append(q, e)[Len(q) + 1] = e
  BY <1>1
<1>3. \A e \in Event : sent'[s] = Append(q, e) => InSent(s, e)'
  BY <1>2 DEF InSent
<1>4. ASSUME NEW x, InSent(s, x) PROVE InSent(s, x)'
  <2>1. PICK i \in DOMAIN q : q[i] = x
    BY <1>4 DEF InSent, q
  <2>2. CASE sent'[s] = q
    BY <2>1, <2>2 DEF InSent
  <2>3. ASSUME NEW e \in Event, sent'[s] = Append(q, e) PROVE InSent(s, x)'
    <3>1. i \in DOMAIN sent'[s] /\ sent'[s][i] = x
      BY <1>2, <2>1, <2>3
    <3> QED
      BY <3>1 DEF InSent
  <2> QED
    BY <2>2, <2>3 DEF q
<1> QED
  BY <1>3, <1>4 DEF q

(* What a step may do to the notices, the last delivered envelopes and the  *)
(* sends without breaking the invariant.                                    *)
LEMMA NoticeFrame ==
  ASSUME NInv, TInv',
         \A s \in Subs : sent'[s] = sent[s] \/ \E e \in Event : sent'[s] = Append(sent[s], e),
         \A s \in Subs : \/ lastDelivered'[s] = lastDelivered[s]
                         \/ InSent(s, lastDelivered[s])',
         \A s \in Subs : notice'[s] = notice[s] \/ notice'[s] = SlowNotice(s),
         \A p \in Publishers : pc'[p] = "delivered" =>
            \/ pc[p] = "delivered" /\ cur'[p] = cur[p] /\ event'[p] = event[p]
            \/ InSent(cur[p], event[p])'
  PROVE  NInv'
<1>1. \A s \in Subs : \A x : InSent(s, x) => InSent(s, x)'
  BY SentGrows DEF NInv
<1>2. LastSent'
  <2> SUFFICES ASSUME NEW s \in Subs, lastDelivered'[s] # NoEvent
               PROVE  InSent(s, lastDelivered[s])'
    BY DEF LastSent
  <2>1. CASE lastDelivered'[s] = lastDelivered[s]
    <3>1. PICK x : x = lastDelivered[s]
      OBVIOUS
    <3>2. InSent(s, x)'
      BY <1>1, <2>1, <3>1 DEF NInv, LastSent
    <3> QED
      BY <2>1, <3>1, <3>2 DEF InSent
  <2> QED
    BY <2>1
<1>3. HandedOver'
  <2> SUFFICES ASSUME NEW p \in Publishers, pc'[p] = "delivered"
               PROVE  InSent(cur[p], event[p])'
    BY DEF HandedOver
  <2>1. CASE pc[p] = "delivered" /\ cur'[p] = cur[p] /\ event'[p] = event[p]
    <3>1. PICK s, x : s = cur[p] /\ x = event[p]
      OBVIOUS
    <3>2. s \in Subs
      BY <2>1, <3>1 DEF NInv, TInv, TypeOK, HoldsMatch, Outcomes
    <3>3. InSent(s, x)'
      BY <1>1, <2>1, <3>1, <3>2 DEF NInv, HandedOver
    <3> QED
      BY <2>1, <3>1, <3>3 DEF InSent
  <2> QED
    BY <2>1
<1>4. NoticeNamesSent'
  <2> SUFFICES ASSUME NEW s \in Subs, notice'[s] # <<>>, notice'[s][1] # NoEvent
               PROVE  \E i \in DOMAIN sent'[s] : sent'[s][i] = notice'[s][1]
    BY DEF NoticeNamesSent
  <2>1. PICK x : x = notice'[s][1]
    OBVIOUS
  <2>2. InSent(s, x)
    <3>1. CASE notice'[s] = notice[s]
      BY <2>1, <3>1 DEF NInv, NoticeNamesSent, InSent
    <3>2. CASE notice'[s] = SlowNotice(s)
      <4>1. x = lastDelivered[s]
        BY <2>1, <3>2 DEF SlowNotice
      <4> QED
        BY <2>1, <4>1 DEF NInv, LastSent
    <3> QED
      BY <3>1, <3>2
  <2>3. InSent(s, x)'
    BY <1>1, <2>2
  <2> QED
    BY <2>1, <2>3 DEF InSent
<1> QED
  BY <1>2, <1>3, <1>4 DEF NInv

(* Steps that neither send, deliver nor notify. *)
LEMMA NoticeQuiet ==
  ASSUME NInv, TInv', UNCHANGED <<sent, lastDelivered>>,
         \A s \in Subs : notice'[s] = notice[s] \/ notice'[s] = SlowNotice(s),
         \A p \in Publishers : pc'[p] = "delivered" =>
            pc[p] = "delivered" /\ cur'[p] = cur[p] /\ event'[p] = event[p]
  PROVE  NInv'
  BY NoticeFrame

(* The pass over the subscription map: what took a queue slot is last. *)
LEMMA NoticeFanOut ==
  ASSUME NInv, NEW p \in Publishers, TryPublish(p) \/ Claim(p)
  PROVE  NInv'
<1>1. TInv /\ TInv' /\ event[p] \in Event
  BY FanOutStepType DEF NInv, TInv, HoldsEvent, TryPublish, Claim
<1>2. PICK d, c, x : FanOut(event[p], d, c, x)
  BY DEF TryPublish, Claim
<1> DEFINE e == event[p]
<1> DEFINE took == d \cup Pushed(e)
<1>3. \A s \in Subs :
        \/ s \in took /\ sent'[s] = Append(sent[s], e) /\ lastDelivered'[s] = e
        \/ s \notin took /\ sent'[s] = sent[s] /\ lastDelivered'[s] = lastDelivered[s]
  BY <1>2 DEF FanOut
<1> HIDE DEF took
<1>4. \A s \in Subs : notice'[s] = notice[s] \/ notice'[s] = SlowNotice(s)
  BY DEF TryPublish, Claim
<1>5. \A q \in Publishers : pc'[q] = "delivered" =>
        pc[q] = "delivered" /\ cur'[q] = cur[q] /\ event'[q] = event[q]
  <2>1. /\ pc \in [Publishers -> PcStates] /\ cur' = cur
        /\ event \in [Publishers -> Event \cup {NoEvent}]
    BY <1>1 DEF TInv, TypeOK, TryPublish, Claim
  <2> QED
    BY <2>1 DEF TryPublish, Claim
<1>6. \A s \in Subs : sent'[s] = sent[s] \/ \E y \in Event : sent'[s] = Append(sent[s], y)
  BY <1>1, <1>3
<1>7. ASSUME NEW s \in Subs
      PROVE  lastDelivered'[s] = lastDelivered[s] \/ InSent(s, lastDelivered[s])'
  <2>1. CASE s \in took
    <3>1. PICK y \in Event : y = e
      BY <1>1
    <3>2. InSent(s, y)'
      BY <1>1, <1>3, <2>1, <3>1, SentGrows
    <3> QED
      BY <1>3, <2>1, <3>1, <3>2 DEF InSent
  <2> QED
    BY <1>3, <2>1
<1> QED
  BY <1>1, <1>4, <1>5, <1>6, <1>7, NoticeFrame

(* A send that succeeds is in the history before it is committed. *)
LEMMA NoticeSend ==
  ASSUME NInv, NEW p \in Publishers, AwaitSend(p) \/ \E s \in Subs : TrySend(p, s)
  PROVE  NInv'
<1>1. TInv /\ TInv' /\ event[p] \in Event
  BY SendType DEF NInv, TInv, HoldsEvent, AwaitSend, TrySend
<1>2. UNCHANGED <<lastDelivered, notice>>
  BY DEF AwaitSend, TrySend
<1>3. /\ event' = event /\ cur'[p] \in guards[p]
      /\ \A q \in Publishers : q # p => pc'[q] = pc[q] /\ cur'[q] = cur[q]
      /\ \/ pc'[p] # "delivered" /\ sent' = sent
         \/ pc'[p] = "delivered" /\ sent' = [sent EXCEPT ![cur'[p]] = Append(@, event[p])]
  BY <1>1, SendShape
<1>4. PICK s, e : s = cur'[p] /\ e = event[p]
  OBVIOUS
<1>5. s \in Subs /\ e \in Event
  BY <1>1, <1>3, <1>4 DEF TInv, TypeOK
<1>6. CASE pc'[p] # "delivered" /\ sent' = sent
  BY <1>1, <1>2, <1>3, <1>6, NoticeQuiet
<1>7. CASE pc'[p] = "delivered" /\ sent' = [sent EXCEPT ![s] = Append(@, e)]
  <2>1. sent \in [Subs -> Seq(Event)]
    BY <1>1 DEF TInv, TypeOK
  <2>2. sent'[s] = Append(sent[s], e) /\ \A t \in Subs : t # s => sent'[t] = sent[t]
    BY <1>5, <1>7, <2>1
  <2>3. InSent(s, e)'
    BY <1>1, <1>5, <2>2, SentGrows
  <2>4. InSent(cur[p], event[p])'
    BY <1>3, <1>4, <2>3 DEF InSent
  <2>5. \A t \in Subs : sent'[t] = sent[t] \/ \E y \in Event : sent'[t] = Append(sent[t], y)
    BY <1>5, <2>2
  <2>6. \A q \in Publishers : pc'[q] = "delivered" =>
          \/ pc[q] = "delivered" /\ cur'[q] = cur[q] /\ event'[q] = event[q]
          \/ InSent(cur[q], event[q])'
    <3> SUFFICES ASSUME NEW q \in Publishers, pc'[q] = "delivered", q # p
                 PROVE  pc[q] = "delivered" /\ cur'[q] = cur[q] /\ event'[q] = event[q]
      BY <2>4
    <3> QED
      BY <1>3
  <2> QED
    BY <1>1, <1>2, <2>5, <2>6, NoticeFrame
<1> QED
  BY <1>3, <1>4, <1>6, <1>7

(* The commits: only a delivered one moves lastDelivered, to the envelope   *)
(* it handed over; a notice repeats lastDelivered.                          *)
LEMMA NoticeSettle ==
  ASSUME NInv, NEW p \in Publishers,
         \/ CommitDelivered(p) \/ CommitDropped(p) \/ CommitDisconnect(p) \/ CommitClosed(p)
         \/ Return(p) \/ Cancel(p) \/ \E s \in Subs : DropGuard(p, s)
  PROVE  NInv'
<1>1. TInv /\ TInv'
  BY SettleType DEF NInv
<1>2. /\ pc \in [Publishers -> PcStates] /\ cur \in [Publishers -> Subs \cup {NoSub}]
      /\ event \in [Publishers -> Event \cup {NoEvent}]
      /\ notice \in [Subs -> Seq(Event \cup {NoEvent})]
      /\ lastDelivered \in [Subs -> Event \cup {NoEvent}]
  BY <1>1 DEF TInv, TypeOK
<1>3. /\ sent' = sent
      /\ \A q \in Publishers : pc'[q] = "delivered" =>
           pc[q] = "delivered" /\ cur'[q] = cur[q] /\ event'[q] = event[q]
  <2> USE <1>2 DEF subVars, Disarm
  <2>1. CASE CommitDelivered(p)
    BY <2>1 DEF CommitDelivered
  <2>2. CASE CommitDropped(p)
    BY <2>2 DEF CommitDropped
  <2>3. CASE CommitDisconnect(p)
    BY <2>3 DEF CommitDisconnect
  <2>4. CASE CommitClosed(p)
    BY <2>4 DEF CommitClosed
  <2>5. CASE Return(p)
    BY <2>5 DEF Return
  <2>6. CASE Cancel(p)
    BY <2>6 DEF Cancel
  <2>7. ASSUME NEW s \in Subs, DropGuard(p, s)
        PROVE  /\ sent' = sent
               /\ \A q \in Publishers : pc'[q] = "delivered" =>
                    pc[q] = "delivered" /\ cur'[q] = cur[q] /\ event'[q] = event[q]
    BY <2>7 DEF DropGuard
  <2> QED
    BY <2>1, <2>2, <2>3, <2>4, <2>5, <2>6, <2>7
<1>4. CASE CommitDelivered(p)
  <2>1. PICK s, e : s = cur[p] /\ e = event[p]
    OBVIOUS
  <2>2. s \in Subs /\ InSent(s, e)
    BY <1>4, <2>1 DEF CommitDelivered, NInv, HandedOver, TInv, TypeOK, HoldsMatch, Outcomes
  <2>3. InSent(s, e)'
    BY <1>3, <2>2 DEF InSent
  <2>4. \A t \in Subs : \/ lastDelivered'[t] = lastDelivered[t]
                        \/ t = s /\ lastDelivered'[t] = e
    BY <1>2, <1>4, <2>1, <2>2 DEF CommitDelivered
  <2>5. \A t \in Subs : \/ lastDelivered'[t] = lastDelivered[t]
                        \/ InSent(t, lastDelivered[t])'
    BY <2>3, <2>4 DEF InSent
  <2>6. notice' = notice
    BY <1>4 DEF CommitDelivered
  <2> QED
    BY <1>1, <1>3, <2>5, <2>6, NoticeFrame
<1>5. CASE ~CommitDelivered(p)
  <2>1. lastDelivered' = lastDelivered
    BY <1>5 DEF CommitDropped, CommitDisconnect, CommitClosed, Return, Cancel, DropGuard, subVars
  <2>2. \A s \in Subs : notice'[s] = notice[s] \/ notice'[s] = SlowNotice(s)
    BY <1>2, <1>5 DEF CommitDropped, CommitDisconnect, CommitClosed, Return, Cancel, DropGuard,
         subVars
  <2> QED
    BY <1>1, <1>3, <2>1, <2>2, NoticeQuiet
<1> QED
  BY <1>4, <1>5

(* Consumers and the start of a publication touch none of it. *)
LEMMA NoticeOther ==
  ASSUME NInv, TInv',
         \/ \E s \in Subs : ConsumerStep(s)
         \/ \E p \in Publishers, str \in Streams, k \in Keys \cup {NoKey} :
              PublishEnvelope(p, str, k)
         \/ \E p \in Publishers : RejectTooLarge(p) \/ RecordEnvelope(p) \/ PruneIndex(p)
         \/ UNCHANGED vars
  PROVE  NInv'
<1>1. /\ pc \in [Publishers -> PcStates]
      /\ event \in [Publishers -> Event \cup {NoEvent}]
  BY DEF NInv, TInv, TypeOK
<1>2. UNCHANGED <<sent, lastDelivered, notice, cur>>
  BY DEF ConsumerStep, Subscribe, Unsubscribe, Recv, RecvNone, DropReceiver, PublishEnvelope,
       RejectTooLarge, RecordEnvelope, PruneIndex, subVars, pubVars, vars
<1>3. \A q \in Publishers : pc'[q] = "delivered" => pc[q] = "delivered" /\ event'[q] = event[q]
  <2>1. CASE UNCHANGED <<pc, event>>
    BY <2>1
  <2>2. CASE \E s \in Subs : ConsumerStep(s)
    BY <2>1, <2>2 DEF ConsumerStep, Subscribe, Unsubscribe, Recv, RecvNone, DropReceiver, pubVars
  <2>3. CASE \E p \in Publishers, str \in Streams, k \in Keys \cup {NoKey} :
               PublishEnvelope(p, str, k)
    BY <1>1, <2>3 DEF PublishEnvelope
  <2>4. CASE \E p \in Publishers : RejectTooLarge(p) \/ RecordEnvelope(p) \/ PruneIndex(p)
    BY <1>1, <2>4 DEF RejectTooLarge, RecordEnvelope, PruneIndex
  <2> QED
    BY <2>1, <2>2, <2>3, <2>4 DEF vars
<1> QED
  BY <1>2, <1>3, NoticeQuiet

(* A slow consumer is always told of an envelope it really got: whatever    *)
(* publishers have in flight when the disconnect commit fires the notice,   *)
(* the envelope it names took a slot of the outbound queue.                 *)
THEOREM NoticeCorrect == Spec => []NoticeNamesSent
<1>1. Init => NInv
  BY InitType DEF NInv, TInv, Init, HoldsEvent, HoldsMatch, Outcomes, LastSent, HandedOver,
       NoticeNamesSent
<1>2. NInv /\ [Next]_vars => NInv'
  <2> SUFFICES ASSUME NInv, [Next]_vars PROVE NInv'
    OBVIOUS
  <2>1. TInv'
    BY TypeStep DEF NInv
  <2>2. CASE \/ \E s \in Subs : ConsumerStep(s)
             \/ \E p \in Publishers, str \in Streams, k \in Keys \cup {NoKey} :
                  PublishEnvelope(p, str, k)
             \/ UNCHANGED vars
    BY <2>1, <2>2, NoticeOther
  <2>3. CASE \E p \in Publishers : PublisherStep(p) \/ Cancel(p)
    BY <2>1, <2>3, NoticeOther, NoticeFanOut, NoticeSend, NoticeSettle DEF PublisherStep
  <2> QED
    BY <2>2, <2>3 DEF Next
<1> QED
  BY <1>1, <1>2, PTL DEF Spec, NInv
=============================================================================
