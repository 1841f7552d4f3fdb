------------------------- MODULE NdjsonStreamProofs -------------------------
(***************************************************************************)
(* Proofs about NdjsonStream for every set of requests, subscriptions,     *)
(* publishers and streams, every policy and capacity.                      *)
(*                                                                         *)
(* Every step is a step of the bus, so its invariants carry over; on top   *)
(* of them the proofs follow an envelope from the publisher that holds it  *)
(* through the ring and the queue to the lines of the body.                *)
(***************************************************************************)
EXTENDS NdjsonStream, ReplayIndexProofs

-----------------------------------------------------------------------------
(* Bodies that have not come to an end. *)
Running == {"request", "subscribed", "unpolled", "replay", "select", "polling"}

(* p has recorded its envelope and has still to offer it to s. *)
Serving(p, s) == pc[p] \in {"recorded", "fanout"} \/ p \in Unsent(s)

(* p may still put its envelope into the queue of s. *)
Pending(p, s) == pc[p] = "allocated" \/ Serving(p, s)

(* The envelopes some part of the system holds or has handed out. *)
Known(x) ==
  \/ \E str \in Streams : x \in Range(ring[str])
  \/ x # NoEvent /\ \E p \in Publishers : event[p] = x
  \/ \E s \in Subs : x \in Range(queue[s]) \cup Range(sent[s])
  \/ \E s \in HttpSubs : x \in Range(written[s]) \cup Range(backlog[s])

(* They were minted before, and an id names one of them. *)
Minted ==
  /\ \A x : Known(x) => x \in Event /\ x.seq < nextSequence[x.stream]
  /\ \A x, y : Known(x) /\ Known(y) /\ EventId(x) = EventId(y) => x = y

(* A publisher's envelope is its own. *)
OwnEvent ==
  \A p, q \in Publishers : p # q /\ event[p] = event[q] => event[p] = NoEvent

BodyTypeOK ==
  /\ body \in [HttpSubs -> Running \cup {"refused", "closing", "leaving", "released", "closed"}]
  /\ asked \in [HttpSubs -> BOOLEAN]
  /\ backlog \in [HttpSubs -> Seq(Event)]
  /\ replayed \in [HttpSubs -> SUBSET (Streams \X (Nat \ {0}))]
  /\ written \in [HttpSubs -> Seq(Event)]
  /\ gap \in [HttpSubs -> BOOLEAN]

(* An envelope passes through the queue of a subscription once: nothing a   *)
(* publisher may still send is in the queue, and what was written before    *)
(* it comes through the queue is remembered as replayed.                    *)
QueuedOnce(s) ==
  /\ IsInjective(queue[s])
  /\ \A x \in Range(queue[s]) : x \in Range(written[s]) => EventId(x) \in replayed[s]
  /\ \A p \in Publishers : Pending(p, s) =>
       /\ event[p] \notin Range(queue[s])
       /\ event[p] \in Range(written[s]) => EventId(event[p]) \in replayed[s]

(* What is still to be replayed has not been written. *)
ReplayedOnce(s) ==
  /\ IsInjective(backlog[s])
  /\ Range(backlog[s]) \cap Range(written[s]) = {}
  /\ \A id \in replayed[s] : \E x \in Range(written[s]) : EventId(x) = id
  /\ body[s] \in {"request", "subscribed"} => written[s] = <<>>
  /\ body[s] \in {"select", "polling"} => backlog[s] = <<>>

LineInv ==
  /\ BodyTypeOK /\ Minted /\ OwnEvent
  /\ \A s \in HttpSubs : QueuedOnce(s) /\ ReplayedOnce(s) /\ IsInjective(written[s])

-----------------------------------------------------------------------------
(* What the bus sent to a running body has been written or is still on its  *)
(* way; a coalescing queue may overwrite it.                                *)
SentReached(s) ==
  body[s] \in Running /\ Policy[s] # "coalesce" => Range(sent[s]) \subseteq Reached(s)

(* A retained envelope the body has not reached is still being published,   *)
(* or its publication was cancelled.                                        *)
RetainedReached(s) ==
  /\ body[s] \in Running \ {"request", "subscribed"}
  /\ st[s] = "active" /\ Policy[s] = "disconnect" /\ asked[s]
  => \A str \in Topic[s] : \A x \in Range(ring[str]) :
       \/ x \in Reached(s) \cup cancelled
       \/ \E p \in Publishers : event[p] = x /\ Serving(p, s)

(* Replay is asked for one stream, and the ring is read once. *)
Opening(s) ==
  /\ asked[s] \/ body[s] = "subscribed" => ReplayOf[s] # {}
  /\ body[s] \in {"request", "subscribed"} => backlog[s] = <<>>

(* A running Disconnect body has lost its subscription only to an overflow, *)
(* and one that ended without a gap line has seen the end of its queue.     *)
EndExplained(s) ==
  /\ body[s] \in Running => rx[s] = "open"
  /\ body[s] \in Running /\ Policy[s] = "disconnect" /\ st[s] = "removed" => notice[s] # <<>>
  /\ body[s] = "closing" /\ ~gap[s] /\ Policy[s] = "disconnect" =>
       rx[s] # "open" /\ Range(sent[s]) \subseteq Range(written[s])

(* Why a publisher may skip a match. *)
SkipReason ==
  \A p \in Publishers :
     /\ pc[p] = "dropped" => Policy[cur[p]] = "drop_newest"
     /\ pc[p] = "cancelled" => event[p] \in cancelled
     /\ pc[p] = "closed" => rx[cur[p]] # "open"

ReachInv ==
  /\ SkipReason
  /\ \A s \in HttpSubs : SentReached(s) /\ RetainedReached(s) /\ Opening(s) /\ EndExplained(s)

-----------------------------------------------------------------------------
(* What a queue, a ring or a body holds after a push, a pop or a            *)
(* coalescing replacement.                                                  *)
LEMMA EmptyRange == Range(<<>>) = {} /\ IsInjective(<<>>)
  BY DEF Range, IsInjective

(* A push. *)
LEMMA AppendRange ==
  ASSUME NEW q \in Seq(Event), NEW e \in Event
  PROVE  /\ Append(q, e) \in Seq(Event)
         /\ Range(Append(q, e)) = Range(q) \cup {e}
         /\ IsInjective(q) /\ e \notin Range(q) => IsInjective(Append(q, e))
<1> DEFINE z == Append(q, e)
<1>1. /\ z \in Seq(Event) /\ Len(q) \in Nat
      /\ DOMAIN z = 1 .. Len(q) + 1 /\ DOMAIN q = 1 .. Len(q)
      /\ \A i \in 1 .. Len(q) : z[i] = q[i]
      /\ z[Len(q) + 1] = e
  OBVIOUS
<1> HIDE DEF z
<1>2. \A i \in DOMAIN z : \/ i \in DOMAIN q /\ z[i] = q[i]
                          \/ i = Len(q) + 1 /\ z[i] = e
  BY <1>1
<1>3. Range(z) \subseteq Range(q) \cup {e}
  BY <1>2 DEF Range
<1>4. Range(q) \cup {e} \subseteq Range(z)
  <2>1. \A i \in DOMAIN q : i \in DOMAIN z /\ z[i] = q[i]
    BY <1>1
  <2>2. Len(q) + 1 \in DOMAIN z
    BY <1>1
  <2> QED
    BY <1>1, <2>1, <2>2 DEF Range
<1>5. ASSUME IsInjective(q), e \notin Range(q) PROVE IsInjective(z)
  <2> SUFFICES ASSUME NEW i \in DOMAIN z, NEW j \in DOMAIN z, z[i] = z[j] PROVE i = j
    BY DEF IsInjective
  <2>1. \A k \in DOMAIN q : q[k] # e
    BY <1>5 DEF Range
  <2> QED
    BY <1>2, <1>5, <2>1 DEF IsInjective
<1> QED
  BY <1>1, <1>3, <1>4, <1>5 DEF z

(* A pop. *)
LEMMA TailRange ==
  ASSUME NEW q \in Seq(Event), q # <<>>
  PROVE  /\ Head(q) \in Event /\ Tail(q) \in Seq(Event)
         /\ Range(q) = Range(Tail(q)) \cup {Head(q)}
         /\ IsInjective(q) => IsInjective(Tail(q)) /\ Head(q) \notin Range(Tail(q))
<1> DEFINE z == Tail(q)
<1>1. /\ z \in Seq(Event) /\ Len(q) \in Nat \ {0} /\ Head(q) = q[1] /\ Head(q) \in Event
      /\ DOMAIN z = 1 .. Len(q) - 1 /\ DOMAIN q = 1 .. Len(q)
      /\ \A i \in 1 .. Len(q) - 1 : z[i] = q[i + 1]
  OBVIOUS
<1> HIDE DEF z
<1>2. \A i \in DOMAIN z : i \in Nat /\ i + 1 \in DOMAIN q /\ i + 1 # 1 /\ z[i] = q[i + 1]
  BY <1>1
<1>3. ASSUME NEW i \in DOMAIN q, i # 1 PROVE i - 1 \in DOMAIN z /\ z[i - 1] = q[i]
  BY <1>1, <1>3
<1>4. 1 \in DOMAIN q
  BY <1>1
<1>5. Range(q) \subseteq Range(z) \cup {Head(q)}
  BY <1>1, <1>3 DEF Range
<1>6. Range(z) \cup {Head(q)} \subseteq Range(q)
  BY <1>1, <1>2, <1>4 DEF Range
<1>7. ASSUME IsInjective(q) PROVE IsInjective(z) /\ Head(q) \notin Range(z)
  <2>1. ASSUME NEW i \in DOMAIN z, NEW j \in DOMAIN z, z[i] = z[j] PROVE i = j
    <3>1. i + 1 = j + 1
      BY <1>2, <1>7, <2>1 DEF IsInjective
    <3> QED
      BY <1>2, <3>1
  <2>2. ASSUME NEW i \in DOMAIN z PROVE z[i] # Head(q)
    BY <1>1, <1>2, <1>4, <1>7 DEF IsInjective
  <2> QED
    BY <2>1, <2>2 DEF IsInjective, Range
<1> QED
  BY <1>1, <1>5, <1>6, <1>7 DEF z

(* A queued envelope overwritten in place. *)
LEMMA ReplaceRange ==
  ASSUME NEW q \in Seq(Event), NEW e \in Event
  PROVE  /\ Range(ReplaceSlot(q, e)) \subseteq Range(q) \cup {e}
         /\ IsInjective(q) /\ e \notin Range(q) => IsInjective(ReplaceSlot(q, e))
<1> DEFINE z == ReplaceSlot(q, e)
<1>1. DOMAIN z = DOMAIN q /\ \A i \in DOMAIN q : z[i] = q[i] \/ z[i] = e
  BY DEF ReplaceSlot
<1>2. \A i, j \in DOMAIN q : i \in Nat /\ j \in Nat
  OBVIOUS
<1>3. \A i, j \in DOMAIN q : z[i] # q[i] /\ z[j] # q[j] => i = j
  <2> SUFFICES ASSUME NEW i \in DOMAIN q, NEW j \in DOMAIN q, z[i] # q[i], z[j] # q[j]
               PROVE  i = j
    OBVIOUS
  <2>1. /\ i \in SameKey(q, e) /\ \A k \in SameKey(q, e) : i <= k
        /\ j \in SameKey(q, e) /\ \A k \in SameKey(q, e) : j <= k
    BY DEF ReplaceSlot
  <2> QED
    BY <1>2, <2>1
<1> HIDE DEF z
<1>4. Range(z) \subseteq Range(q) \cup {e}
  BY <1>1 DEF Range
<1>5. ASSUME IsInjective(q), e \notin Range(q) PROVE IsInjective(z)
  <2> SUFFICES ASSUME NEW i \in DOMAIN q, NEW j \in DOMAIN q, z[i] = z[j] PROVE i = j
    BY <1>1 DEF IsInjective
  <2>1. \A k \in DOMAIN q : q[k] # e
    BY <1>5 DEF Range
  <2> QED
    BY <1>1, <1>3, <1>5, <2>1 DEF IsInjective
<1> QED
  BY <1>4, <1>5 DEF z

-----------------------------------------------------------------------------
(* The bus under the bodies. *)
BInv == CInv /\ XInv

(* A body only ever acts on the bus as one of its consumers. *)
LEMMA StreamIsBus == [StreamNext]_allVars => [Next]_vars
<1> SUFFICES ASSUME [StreamNext]_allVars PROVE [Next]_vars
  OBVIOUS
<1>0. HttpSubs \subseteq Subs
  BY HttpAssumption
<1>1. CASE UNCHANGED allVars
  BY <1>1 DEF allVars
<1>2. ASSUME NEW s \in HttpSubs, BodyStep(s) PROVE ConsumerStep(s) \/ UNCHANGED vars
  <2>1. CASE \E q \in Queries : Refuse(s, q) \/ Open(s, q)
    BY <2>1 DEF Refuse, Open, ConsumerStep
  <2>2. CASE Start(s) \/ Replay(s) \/ ReplayDone(s) \/ PollNotice(s) \/ ClientGone(s)
    BY <2>2 DEF Start, Replay, ReplayDone, PollNotice, ClientGone
  <2>3. CASE PollQueue(s)
    BY <2>3 DEF PollQueue, ConsumerStep
  <2>4. CASE Release(s) \/ DropBody(s)
    BY <2>4 DEF Release, DropBody, ConsumerStep
  <2> QED
    BY <1>2, <2>1, <2>2, <2>3, <2>4 DEF BodyStep
<1>3. CASE BusStep
  BY <1>3 DEF BusStep, Next
<1>4. CASE \E p \in Publishers : CancelPublish(p)
  BY <1>4 DEF CancelPublish, Next
<1> QED
  BY <1>0, <1>1, <1>2, <1>3, <1>4 DEF StreamNext, Next

(* ... so its invariants hold. *)
LEMMA BusStepKept == BInv /\ [StreamNext]_allVars => BInv'
  BY StreamIsBus, ClaimsStep, IndexStep DEF BInv

-----------------------------------------------------------------------------
(* What a step of publisher p past allocation does to the queue of s: it    *)
(* leaves it alone, or p hands over the envelope it had pending, for good.  *)
FedBy(p, s) ==
  \/ queue'[s] = queue[s] /\ sent'[s] = sent[s]
  \/ /\ Pending(p, s) /\ ~Pending(p, s)' /\ rx[s] = "open"
     /\ \/ queue'[s] = Append(queue[s], event[p]) /\ sent'[s] = Append(sent[s], event[p])
        \/ /\ Policy[s] = "coalesce"
           /\ queue'[s] = ReplaceSlot(queue[s], event[p]) /\ sent'[s] = sent[s]

(* ... and to the rest: nobody's envelope changes while it is pending, and  *)
(* a ring takes in no other envelope than p's.                              *)
Offered(p) ==
  /\ \A s \in Subs : FedBy(p, s)
  /\ \A r \in Publishers, s \in Subs : Pending(r, s)' => Pending(r, s) /\ event'[r] = event[r]
  /\ \A r \in Publishers : event'[r] \in {event[r], NoEvent}
  /\ \A str \in Streams : Range(ring'[str]) \subseteq Range(ring[str]) \cup {event[p]}
  /\ nextSequence' = nextSequence

(* The pass over the subscription map of try_publish and of publish. *)
LEMMA OfferedFanOut ==
  ASSUME BInv, NEW p \in Publishers, TryPublish(p) \/ Claim(p)
  PROVE  Offered(p)
<1>1. /\ pc \in [Publishers -> PcStates] /\ event \in [Publishers -> Event \cup {NoEvent}]
      /\ guards \in [Publishers -> SUBSET Subs]
      /\ pc[p] = "fanout" /\ guards[p] = {}
  BY DEF BInv, CInv, TInv, TypeOK, GuardsInLoop, TryPublish, Claim
<1>2. UNCHANGED <<ring, nextSequence, cur, rx>>
  BY DEF TryPublish, Claim, replayVars
<1>3. \A r \in Publishers : r # p => pc'[r] = pc[r] /\ guards'[r] = guards[r] /\ event'[r] = event[r]
  BY <1>1 DEF TryPublish, Claim
<1>4. event'[p] \in {event[p], NoEvent}
  BY <1>1 DEF TryPublish, Claim
<1>5. \A s : Pending(p, s)
  BY <1>1 DEF Pending, Serving
<1>6. PICK d, c, x :
        /\ FanOut(event[p], d, c, x)
        /\ \A s \in d : rx[s] = "open"
        /\ \A s \in d \cup Pushed(event[p]) \cup Replaced(event[p]) : s \notin guards'[p]
        /\ pc'[p] \in {"idle", "loop"}
        /\ event'[p] = event[p] \/ guards'[p] = {}
  <2>1. CASE TryPublish(p)
    <3>1. guards' = guards
      BY <2>1 DEF TryPublish
    <3> QED
      BY <1>1, <2>1, <3>1 DEF TryPublish
  <2>2. CASE Claim(p)
    <3>1. guards'[p] = Claimable(event[p]) /\ pc'[p] = "loop" /\ event' = event
      BY <1>1, <2>2 DEF Claim
    <3>2. \A s \in Pushed(event[p]) \cup Replaced(event[p]) : s \notin Claimable(event[p])
      BY DEF Pushed, Replaced, Claimable
    <3>3. FanOut(event[p], {}, Claimable(event[p]), {})
      BY <2>2 DEF Claim
    <3> QED
      BY <3>1, <3>2, <3>3
  <2> QED
    BY <2>1, <2>2
<1>7. ASSUME NEW s \in Subs PROVE FedBy(p, s)
  <2>1. CASE s \notin d \cup Pushed(event[p]) \cup Replaced(event[p])
    BY <1>6, <2>1 DEF FanOut, FedBy
  <2>2. CASE s \in d \cup Pushed(event[p]) \cup Replaced(event[p])
    <3>1. rx[s] = "open"
      BY <1>6, <2>2 DEF Pushed, Replaced, ReceiverGone
    <3>2. ~Pending(p, s)'
      BY <1>6, <2>2 DEF Pending, Serving, Unsent
    <3>3. CASE s \in d \cup Pushed(event[p])
      <4>1. queue'[s] = Append(queue[s], event[p]) /\ sent'[s] = Append(sent[s], event[p])
        BY <1>6, <3>3 DEF FanOut
      <4> QED
        BY <1>5, <3>1, <3>2, <4>1 DEF FedBy
    <3>4. CASE s \notin d \cup Pushed(event[p])
      <4>1. queue'[s] = ReplaceSlot(queue[s], event[p]) /\ sent'[s] = sent[s]
        BY <1>6, <2>2, <3>4 DEF FanOut
      <4>2. Policy[s] = "coalesce"
        BY <2>2, <3>4 DEF Replaced, Coalescing
      <4> QED
        BY <1>5, <3>1, <3>2, <4>1, <4>2 DEF FedBy
    <3> QED
      BY <3>3, <3>4
  <2> QED
    BY <2>1, <2>2
<1>8. ASSUME NEW r \in Publishers, NEW s \in Subs, Pending(r, s)'
      PROVE  Pending(r, s) /\ event'[r] = event[r]
  <2>1. CASE r = p
    BY <1>5, <1>6, <1>8, <2>1 DEF Pending, Serving, Unsent
  <2>2. CASE r # p
    BY <1>2, <1>3, <1>8, <2>2 DEF Pending, Serving, Unsent
  <2> QED
    BY <2>1, <2>2
<1> QED
  BY <1>2, <1>3, <1>4, <1>7, <1>8 DEF Offered

(* try_send, and send().await for Backpressure. *)
LEMMA OfferedSend ==
  ASSUME BInv, NEW p \in Publishers, AwaitSend(p) \/ \E s \in Subs : TrySend(p, s)
  PROVE  Offered(p)
<1>1. /\ pc \in [Publishers -> PcStates] /\ event \in [Publishers -> Event \cup {NoEvent}]
      /\ guards \in [Publishers -> SUBSET Subs] /\ cur \in [Publishers -> Subs \cup {NoSub}]
      /\ queue \in [Subs -> Seq(Event)] /\ sent \in [Subs -> Seq(Event)]
  BY DEF BInv, CInv, TInv, TypeOK
<1>2. UNCHANGED <<ring, nextSequence, event, guards>>
  BY DEF AwaitSend, TrySend, replayVars
<1>3. /\ pc'[p] \in {"blocked"} \cup Outcomes
      /\ \A q \in Publishers : q # p => pc'[q] = pc[q] /\ cur'[q] = cur[q]
      /\ cur'[p] \in guards[p]
      /\ pc[p] = "loop" \/ pc[p] = "blocked"
  BY SendShape DEF BInv, CInv
<1>4. PICK t \in Subs : t = cur'[p]
  BY <1>1, <1>3
<1>5. \/ UNCHANGED <<queue, sent>>
      \/ /\ rx[t] = "open" /\ pc'[p] = "delivered"
         /\ queue' = [queue EXCEPT ![t] = Append(@, event[p])]
         /\ sent' = [sent EXCEPT ![t] = Append(@, event[p])]
  <2>1. CASE AwaitSend(p)
    BY <1>1, <1>4, <2>1 DEF AwaitSend, Enqueue
  <2>2. ASSUME NEW s \in Subs, TrySend(p, s)
        PROVE  \/ UNCHANGED <<queue, sent>>
               \/ /\ rx[t] = "open" /\ pc'[p] = "delivered"
                  /\ queue' = [queue EXCEPT ![t] = Append(@, event[p])]
                  /\ sent' = [sent EXCEPT ![t] = Append(@, event[p])]
    <3>1. t = s
      BY <1>1, <1>4, <2>2 DEF TrySend
    <3> QED
      BY <1>1, <2>2, <3>1 DEF TrySend, Enqueue
  <2> QED
    BY <2>1, <2>2
<1>6. \A s \in Subs : p \in Unsent(s) <=> s \in guards[p]
  BY <1>3 DEF Unsent
<1>7. ASSUME NEW s \in Subs PROVE FedBy(p, s)
  <2>1. CASE queue'[s] = queue[s] /\ sent'[s] = sent[s]
    BY <2>1 DEF FedBy
  <2>2. CASE ~(queue'[s] = queue[s] /\ sent'[s] = sent[s])
    <3>1. s = t /\ rx[s] = "open" /\ pc'[p] = "delivered"
      BY <1>1, <1>5, <2>2
    <3>2. queue'[s] = Append(queue[s], event[p]) /\ sent'[s] = Append(sent[s], event[p])
      BY <1>1, <1>5, <2>2
    <3>3. Pending(p, s) /\ ~Pending(p, s)'
      BY <1>3, <1>4, <1>6, <3>1 DEF Pending, Serving, Unsent
    <3> QED
      BY <3>1, <3>2, <3>3 DEF FedBy
  <2> QED
    BY <2>1, <2>2
<1>8. ASSUME NEW r \in Publishers, NEW s \in Subs, Pending(r, s)'
      PROVE  Pending(r, s) /\ event'[r] = event[r]
  <2>1. CASE r = p
    BY <1>2, <1>3, <1>6, <1>8, <2>1 DEF Pending, Serving, Unsent, Outcomes
  <2>2. CASE r # p
    BY <1>2, <1>3, <1>8, <2>2 DEF Pending, Serving, Unsent
  <2> QED
    BY <2>1, <2>2
<1> QED
  BY <1>2, <1>7, <1>8 DEF Offered

(* Rejecting, recording and pruning; the ring takes in p's envelope. *)
LEMMA OfferedRecord ==
  ASSUME BInv, NEW p \in Publishers, RejectTooLarge(p) \/ RecordEnvelope(p) \/ PruneIndex(p)
  PROVE  Offered(p)
<1>1. /\ pc \in [Publishers -> PcStates] /\ event \in [Publishers -> Event \cup {NoEvent}]
      /\ ring \in [Streams -> Seq(Event)]
      /\ pc[p] \in {"allocated", "recorded"} /\ guards[p] = {} /\ event[p] \in Event
  BY DEF BInv, CInv, TInv, TypeOK, ReplayTypeOK, HoldsEvent, GuardsInLoop, RejectTooLarge,
       RecordEnvelope, PruneIndex
<1>2. UNCHANGED <<nextSequence, cur, guards, queue, sent>>
  BY DEF RejectTooLarge, RecordEnvelope, PruneIndex, subVars
<1>3. /\ \A r \in Publishers : r # p => pc'[r] = pc[r] /\ event'[r] = event[r]
      /\ event'[p] = event[p] \/ (event'[p] = NoEvent /\ pc'[p] = "idle")
  BY <1>1 DEF RejectTooLarge, RecordEnvelope, PruneIndex
<1>4. \A str \in Streams : Range(ring'[str]) \subseteq Range(ring[str]) \cup {event[p]}
  <2>1. CASE ring' = ring
    BY <2>1
  <2>2. CASE RecordEnvelope(p)
    <3>1. PICK e \in Event, t \in Streams : e = event[p] /\ t = e.stream
      BY <1>1 DEF Event
    <3> DEFINE q == ring[t]
    <3> DEFINE r == IF Full(t) THEN Tail(q) ELSE q
    <3>2. ring'[t] = Append(r, e) /\ \A str \in Streams : str # t => ring'[str] = ring[str]
      BY <1>1, <2>2, <3>1 DEF RecordEnvelope, Record
    <3>3. q \in Seq(Event)
      BY <1>1
    <3>4. r \in Seq(Event) /\ Range(r) \subseteq Range(q)
      <4>1. CASE Full(t)
        BY <3>3, <4>1, TailRange DEF Full
      <4> QED
        BY <3>3, <4>1
    <3> HIDE DEF r
    <3>5. Range(Append(r, e)) = Range(r) \cup {e}
      BY <3>4, AppendRange
    <3> QED
      BY <3>1, <3>2, <3>4, <3>5
  <2> QED
    BY <2>1, <2>2 DEF RejectTooLarge, PruneIndex
<1>5. ASSUME NEW r \in Publishers, NEW s \in Subs, Pending(r, s)'
      PROVE  Pending(r, s) /\ event'[r] = event[r]
  <2>1. CASE r = p
    BY <1>1, <1>2, <1>3, <1>5, <2>1 DEF Pending, Serving, Unsent
  <2>2. CASE r # p
    BY <1>2, <1>3, <1>5, <2>2 DEF Pending, Serving, Unsent
  <2> QED
    BY <2>1, <2>2
<1> QED
  BY <1>2, <1>3, <1>4, <1>5 DEF Offered, FedBy

(* Committing an outcome, refunding a claim, returning, being cancelled. *)
LEMMA OfferedSettle ==
  ASSUME BInv, NEW p \in Publishers,
         \/ CommitDelivered(p) \/ CommitDropped(p) \/ CommitDisconnect(p) \/ CommitClosed(p)
         \/ Return(p) \/ Cancel(p) \/ \E s \in Subs : DropGuard(p, s)
  PROVE  Offered(p)
<1>1. /\ pc \in [Publishers -> PcStates] /\ event \in [Publishers -> Event \cup {NoEvent}]
      /\ guards \in [Publishers -> SUBSET Subs] /\ cur \in [Publishers -> Subs \cup {NoSub}]
  BY DEF BInv, CInv, TInv, TypeOK
<1>2. UNCHANGED <<ring, nextSequence, queue, sent>>
  BY DEF CommitDelivered, CommitDropped, CommitDisconnect, CommitClosed, Return, Cancel, DropGuard,
       replayVars, subVars
<1>3. \A r \in Publishers : r # p => /\ pc'[r] = pc[r] /\ event'[r] = event[r]
                                     /\ guards'[r] = guards[r] /\ cur'[r] = cur[r]
  BY <1>1 DEF CommitDelivered, CommitDropped, CommitDisconnect, CommitClosed, Return, Cancel,
       DropGuard, Disarm
<1>4. /\ guards'[p] \subseteq guards[p]
      /\ pc'[p] \in {"idle", "loop", "cancelled"}
      /\ event'[p] = event[p] \/ (event'[p] = NoEvent /\ guards'[p] = {})
      /\ pc[p] = "delivered" => cur[p] \notin guards'[p]
  <2>1. CASE CommitDelivered(p) \/ CommitDropped(p) \/ CommitDisconnect(p) \/ CommitClosed(p)
    BY <1>1, <2>1 DEF CommitDelivered, CommitDropped, CommitDisconnect, CommitClosed, Disarm
  <2>2. CASE Return(p)
    BY <1>1, <2>2 DEF Return
  <2>3. CASE Cancel(p)
    BY <1>1, <2>3 DEF Cancel
  <2>4. CASE \E s \in Subs : DropGuard(p, s)
    BY <1>1, <2>4 DEF DropGuard
  <2> QED
    BY <2>1, <2>2, <2>3, <2>4
<1>5. ASSUME NEW r \in Publishers, NEW s \in Subs, Pending(r, s)'
      PROVE  Pending(r, s) /\ event'[r] = event[r]
  <2>1. CASE r = p
    BY <1>4, <1>5, <2>1 DEF Pending, Serving, Unsent
  <2>2. CASE r # p
    BY <1>3, <1>5, <2>2 DEF Pending, Serving, Unsent
  <2> QED
    BY <2>1, <2>2
<1> QED
  BY <1>2, <1>3, <1>4, <1>5 DEF Offered, FedBy

(* Every step of a publisher past allocation. *)
LEMMA PublisherOffers ==
  ASSUME BInv, NEW p \in Publishers, PublisherStep(p) \/ Cancel(p)
  PROVE  Offered(p)
  BY OfferedRecord, OfferedFanOut, OfferedSend, OfferedSettle DEF PublisherStep

-----------------------------------------------------------------------------
(* The lines of a body.  A step that hands out no new envelope. *)
LEMMA MintedFrame ==
  ASSUME Minted, nextSequence' = nextSequence, \A x : Known(x)' => Known(x)
  PROVE  Minted'
  BY DEF Minted

(* A publisher's step past allocation. *)
LEMMA LineFeed ==
  ASSUME BInv, LineInv, NEW p \in Publishers, Offered(p), event[p] \in Event, UNCHANGED bodyVars
  PROVE  LineInv'
<1>1. /\ queue \in [Subs -> Seq(Event)] /\ sent \in [Subs -> Seq(Event)]
      /\ HttpSubs \subseteq Subs /\ event \in [Publishers -> Event \cup {NoEvent}]
  BY HttpAssumption DEF BInv, CInv, TInv, TypeOK
<1>2. NoEvent \notin Event /\ Known(event[p])
  BY BusAssumption DEF Known
<1>3. ASSUME NEW s \in Subs
      PROVE  /\ Range(queue'[s]) \subseteq Range(queue[s]) \cup {event[p]}
             /\ Range(sent'[s]) \subseteq Range(sent[s]) \cup {event[p]}
             /\ ~Pending(p, s)' \/ queue'[s] = queue[s]
             /\ queue'[s] = queue[s] \/ Pending(p, s)
             /\ IsInjective(queue[s]) /\ event[p] \notin Range(queue[s]) /\ queue'[s] # queue[s]
                  => IsInjective(queue'[s])
  <2>1. FedBy(p, s) /\ queue[s] \in Seq(Event) /\ sent[s] \in Seq(Event)
    BY <1>1 DEF Offered
  <2>2. /\ Range(Append(queue[s], event[p])) = Range(queue[s]) \cup {event[p]}
        /\ Range(Append(sent[s], event[p])) = Range(sent[s]) \cup {event[p]}
        /\ IsInjective(queue[s]) /\ event[p] \notin Range(queue[s]) =>
             IsInjective(Append(queue[s], event[p]))
    BY <2>1, AppendRange
  <2>3. /\ Range(ReplaceSlot(queue[s], event[p])) \subseteq Range(queue[s]) \cup {event[p]}
        /\ IsInjective(queue[s]) /\ event[p] \notin Range(queue[s]) =>
             IsInjective(ReplaceSlot(queue[s], event[p]))
    BY <2>1, ReplaceRange
  <2> QED
    BY <2>1, <2>2, <2>3 DEF FedBy
<1>4. Minted'
  <2>1. ASSUME NEW x, Known(x)' PROVE Known(x)
    <3>1. CASE \E str \in Streams : x \in Range(ring'[str])
      BY <1>2, <3>1 DEF Offered, Known
    <3>2. CASE x # NoEvent /\ \E r \in Publishers : event'[r] = x
      BY <3>2 DEF Offered, Known
    <3>3. CASE \E s \in Subs : x \in Range(queue'[s]) \cup Range(sent'[s])
      BY <1>2, <1>3, <3>3 DEF Known
    <3>4. CASE \E s \in HttpSubs : x \in Range(written'[s]) \cup Range(backlog'[s])
      BY <3>4 DEF Known, bodyVars
    <3> QED
      BY <2>1, <3>1, <3>2, <3>3, <3>4 DEF Known
  <2> QED
    BY <2>1, MintedFrame DEF LineInv, Offered
<1>5. OwnEvent'
  BY DEF LineInv, OwnEvent, Offered
<1>6. ASSUME NEW s \in HttpSubs PROVE QueuedOnce(s)'
  <2>1. QueuedOnce(s) /\ s \in Subs
    BY <1>1 DEF LineInv
  <2>2. written' = written /\ replayed' = replayed
    BY DEF bodyVars
  <2>3. \A r \in Publishers : Pending(r, s)' => Pending(r, s) /\ event'[r] = event[r]
    BY <2>1 DEF Offered
  <2>4. Pending(p, s) => /\ event[p] \notin Range(queue[s])
                         /\ event[p] \in Range(written[s]) => EventId(event[p]) \in replayed[s]
    BY <2>1 DEF QueuedOnce
  <2>5. IsInjective(queue'[s])
    BY <1>3, <2>1, <2>4 DEF QueuedOnce
  <2>6. ASSUME NEW x \in Range(queue'[s]), x \in Range(written'[s]) PROVE EventId(x) \in replayed'[s]
    BY <1>3, <2>1, <2>2, <2>4, <2>6 DEF QueuedOnce
  <2>7. ASSUME NEW r \in Publishers, Pending(r, s)'
        PROVE  /\ event'[r] \notin Range(queue'[s])
               /\ event'[r] \in Range(written'[s]) => EventId(event'[r]) \in replayed'[s]
    <3>1. Pending(r, s) /\ event'[r] = event[r]
      BY <2>3, <2>7
    <3>2. /\ event[r] \notin Range(queue[s])
          /\ event[r] \in Range(written[s]) => EventId(event[r]) \in replayed[s]
      BY <2>1, <3>1 DEF QueuedOnce
    <3>3. r # p => event[r] # event[p]
      BY <1>2 DEF LineInv, OwnEvent
    <3>4. event[r] \notin Range(queue'[s])
      BY <1>3, <2>1, <2>7, <3>2, <3>3
    <3> QED
      BY <2>2, <3>1, <3>2, <3>4
  <2> QED
    BY <2>5, <2>6, <2>7 DEF QueuedOnce
<1> QED
  BY <1>4, <1>5, <1>6 DEF LineInv, BodyTypeOK, ReplayedOnce, bodyVars

(* An envelope is minted: its id is above every id handed out before, so no *)
(* queue and no body can hold it.                                           *)
LEMMA LineAllocate ==
  ASSUME BInv, LineInv, NEW p \in Publishers, NEW str \in Streams, NEW k \in Keys \cup {NoKey},
         PublishEnvelope(p, str, k), UNCHANGED bodyVars
  PROVE  LineInv'
<1>1. /\ pc \in [Publishers -> PcStates] /\ event \in [Publishers -> Event \cup {NoEvent}]
      /\ nextSequence \in [Streams -> Nat \ {0}] /\ NoEvent \notin Event
      /\ HttpSubs \subseteq Subs
  BY BusAssumption, HttpAssumption DEF BInv, CInv, TInv, TypeOK, ReplayTypeOK
<1>2. PICK e : e = Allocated(str, k)
  OBVIOUS
<1>3. e \in Event /\ e.stream = str /\ e.seq = nextSequence[str] /\ EventId(e) = <<str, nextSequence[str]>>
  BY <1>1, <1>2 DEF Allocated, Event, EventId
<1>4. /\ UNCHANGED <<ring, queue, sent, guards, cur, backlog, written, replayed, body>>
      /\ event'[p] = e /\ pc'[p] = "allocated"
      /\ \A r \in Publishers : r # p => event'[r] = event[r] /\ pc'[r] = pc[r]
      /\ nextSequence' = [nextSequence EXCEPT ![str] = @ + 1]
  BY <1>1, <1>2 DEF PublishEnvelope, Allocate, subVars, bodyVars
<1>5. \A x : Known(x) => /\ x \in Event /\ x.stream \in Streams /\ x.seq \in Nat
                         /\ x.seq < nextSequence[x.stream] /\ EventId(x) # EventId(e) /\ x # e
  <2> SUFFICES ASSUME NEW x, Known(x)
               PROVE  /\ x \in Event /\ x.stream \in Streams /\ x.seq \in Nat
                      /\ x.seq < nextSequence[x.stream] /\ EventId(x) # EventId(e) /\ x # e
    OBVIOUS
  <2>1. x \in Event /\ x.seq < nextSequence[x.stream] /\ x.stream \in Streams /\ x.seq \in Nat
    BY DEF LineInv, Minted, Event
  <2>2. x.stream = str => x.seq # nextSequence[str]
    BY <1>1, <2>1
  <2>3. EventId(x) # EventId(e) /\ x # e
    BY <1>3, <2>1, <2>2 DEF EventId
  <2> QED
    BY <2>1, <2>3
<1>6. ASSUME NEW x, Known(x)' PROVE Known(x) \/ x = e
  BY <1>4, <1>6 DEF Known
<1>7. Minted'
  <2>1. ASSUME NEW x, Known(x)' PROVE x \in Event /\ x.seq < nextSequence'[x.stream]
    <3>1. CASE x = e
      BY <1>1, <1>3, <1>4, <3>1
    <3>2. CASE Known(x)
      <4>1. /\ x \in Event /\ x.stream \in Streams /\ x.seq \in Nat
            /\ x.seq < nextSequence[x.stream]
        BY <1>5, <3>2
      <4>2. nextSequence'[x.stream] \in {nextSequence[x.stream], nextSequence[x.stream] + 1}
        BY <1>1, <1>4, <4>1
      <4> QED
        BY <1>1, <4>1, <4>2
    <3> QED
      BY <1>6, <2>1, <3>1, <3>2
  <2>2. ASSUME NEW x, NEW y, Known(x)', Known(y)', EventId(x) = EventId(y) PROVE x = y
    <3>1. (Known(x) \/ x = e) /\ (Known(y) \/ y = e)
      BY <1>6, <2>2
    <3> QED
      BY <1>5, <2>2, <3>1 DEF LineInv, Minted
  <2> QED
    BY <2>1, <2>2 DEF Minted
<1>8. OwnEvent'
  <2>1. ASSUME NEW r \in Publishers PROVE event[r] # e
    <3>1. CASE event[r] = NoEvent
      BY <1>1, <1>3, <3>1
    <3>2. CASE event[r] # NoEvent
      BY <1>5, <3>2 DEF Known
    <3> QED
      BY <3>1, <3>2
  <2>2. ASSUME NEW r \in Publishers, NEW q \in Publishers, r # q, event'[r] = event'[q]
        PROVE  event'[r] = NoEvent
    <3>1. r # p /\ q # p
      BY <1>4, <2>1, <2>2
    <3> QED
      BY <1>4, <2>2, <3>1 DEF LineInv, OwnEvent
  <2> QED
    BY <2>2 DEF OwnEvent
<1>9. ASSUME NEW s \in HttpSubs PROVE QueuedOnce(s)'
  <2>1. e \notin Range(queue[s]) /\ e \notin Range(written[s])
    BY <1>1, <1>5 DEF Known
  <2>2. \A r \in Publishers : r # p /\ Pending(r, s)' => Pending(r, s)
    BY <1>4 DEF Pending, Serving, Unsent
  <2>3. QueuedOnce(s)
    BY DEF LineInv
  <2>4. ASSUME NEW r \in Publishers, Pending(r, s)'
        PROVE  /\ event'[r] \notin Range(queue[s])
               /\ event'[r] \in Range(written[s]) => EventId(event'[r]) \in replayed[s]
    <3>1. CASE r = p
      BY <1>4, <2>1, <3>1
    <3>2. CASE r # p
      BY <1>4, <2>2, <2>3, <2>4, <3>2 DEF QueuedOnce
    <3> QED
      BY <3>1, <3>2
  <2> QED
    BY <1>4, <2>3, <2>4 DEF QueuedOnce
<1>10. ASSUME NEW s \in HttpSubs PROVE ReplayedOnce(s)' /\ IsInjective(written'[s])
  BY <1>4 DEF LineInv, ReplayedOnce
<1>11. BodyTypeOK'
  BY DEF LineInv, BodyTypeOK, bodyVars
<1> QED
  BY <1>7, <1>8, <1>9, <1>10, <1>11 DEF LineInv

(* A consumer's step concerns one subscription, and no publisher. *)
LEMMA LineAt ==
  ASSUME LineInv, UNCHANGED <<nextSequence, pc, event, guards, cur>>, BodyTypeOK',
         \A x : Known(x)' => Known(x),
         NEW s,
         \A t \in HttpSubs : t # s => /\ queue'[t] = queue[t] /\ written'[t] = written[t]
                                      /\ replayed'[t] = replayed[t] /\ backlog'[t] = backlog[t]
                                      /\ body'[t] = body[t],
         s \in HttpSubs => QueuedOnce(s)' /\ ReplayedOnce(s)' /\ IsInjective(written'[s])
  PROVE  LineInv'
<1>1. Minted'
  BY MintedFrame DEF LineInv
<1>2. OwnEvent'
  BY DEF LineInv, OwnEvent
<1>3. ASSUME NEW t \in HttpSubs, t # s
      PROVE  QueuedOnce(t)' /\ ReplayedOnce(t)' /\ IsInjective(written'[t])
  <2>1. /\ queue'[t] = queue[t] /\ written'[t] = written[t] /\ replayed'[t] = replayed[t]
        /\ backlog'[t] = backlog[t] /\ body'[t] = body[t]
    BY <1>3
  <2>2. \A p \in Publishers : Pending(p, t)' <=> Pending(p, t)
    BY DEF Pending, Serving, Unsent
  <2>3. QueuedOnce(t) /\ ReplayedOnce(t) /\ IsInjective(written[t])
    BY DEF LineInv
  <2>4. QueuedOnce(t)'
    BY <2>1, <2>2, <2>3 DEF QueuedOnce
  <2> QED
    BY <2>1, <2>3, <2>4 DEF ReplayedOnce
<1> QED
  BY <1>1, <1>2, <1>3 DEF LineInv

(* Consumers of the bus that are not requests. *)
LEMMA LineConsumer ==
  ASSUME BInv, LineInv, NEW s \in Subs \ HttpSubs, ConsumerStep(s), UNCHANGED bodyVars
  PROVE  LineInv'
<1>1. queue \in [Subs -> Seq(Event)] /\ HttpSubs \subseteq Subs
  BY HttpAssumption DEF BInv, CInv, TInv, TypeOK
<1>2. /\ UNCHANGED <<nextSequence, ring, pc, event, guards, cur, sent>>
      /\ \A t \in Subs : t # s => queue'[t] = queue[t]
      /\ \/ queue'[s] = queue[s]
         \/ queue[s] # <<>> /\ queue'[s] = Tail(queue[s])
         \/ queue'[s] = <<>>
  BY <1>1 DEF ConsumerStep, Subscribe, Unsubscribe, Recv, RecvNone, DropReceiver, pubVars, replayVars
<1>3. Range(queue'[s]) \subseteq Range(queue[s])
  <2>1. CASE queue'[s] = queue[s]
    BY <2>1
  <2>2. CASE queue[s] # <<>> /\ queue'[s] = Tail(queue[s])
    <3>1. queue[s] \in Seq(Event)
      BY <1>1
    <3> QED
      BY <2>2, <3>1, TailRange
  <2>3. CASE queue'[s] = <<>>
    BY <2>3, EmptyRange
  <2> QED
    BY <1>2, <2>1, <2>2, <2>3
<1>4. \A x : Known(x)' => Known(x)
  <2>1. \A t \in Subs : Range(queue'[t]) \subseteq Range(queue[t])
    BY <1>2, <1>3
  <2> QED
    BY <1>2, <2>1 DEF Known, bodyVars
<1>5. BodyTypeOK'
  BY DEF LineInv, BodyTypeOK, bodyVars
<1>6. \A t \in HttpSubs : t # s => /\ queue'[t] = queue[t] /\ written'[t] = written[t]
                                   /\ replayed'[t] = replayed[t] /\ backlog'[t] = backlog[t]
                                   /\ body'[t] = body[t]
  BY <1>1, <1>2 DEF bodyVars
<1> QED
  BY <1>2, <1>4, <1>5, <1>6, LineAt

(* A body moves on without reading or writing: checks, the first poll, the  *)
(* notice, the end.  Only dropping the receiver empties the queue.          *)
LEMMA LineMove ==
  ASSUME BInv, LineInv, NEW s \in HttpSubs, BodyTypeOK',
         UNCHANGED <<nextSequence, ring, pc, event, guards, cur, sent, backlog, replayed, written>>,
         \A t \in Subs : t # s => queue'[t] = queue[t],
         queue'[s] = queue[s] \/ queue'[s] = <<>>,
         \A t \in HttpSubs : t # s => body'[t] = body[t],
         body'[s] \in {"request", "subscribed"} => body[s] \in {"request", "subscribed"},
         body'[s] \in {"select", "polling"} => backlog[s] = <<>>
  PROVE  LineInv'
<1>1. s \in Subs /\ HttpSubs \subseteq Subs
  BY HttpAssumption
<1>2. Range(queue'[s]) \subseteq Range(queue[s]) /\ (IsInjective(queue[s]) => IsInjective(queue'[s]))
  BY EmptyRange
<1>3. \A x : Known(x)' => Known(x)
  <2>1. \A t \in Subs : Range(queue'[t]) \subseteq Range(queue[t])
    BY <1>2
  <2> QED
    BY <2>1 DEF Known
<1>4. QueuedOnce(s) /\ ReplayedOnce(s) /\ IsInjective(written[s])
  BY DEF LineInv
<1>5. \A p \in Publishers : Pending(p, s)' <=> Pending(p, s)
  BY DEF Pending, Serving, Unsent
<1>6. QueuedOnce(s)'
  BY <1>2, <1>4, <1>5 DEF QueuedOnce
<1>7. ReplayedOnce(s)'
  BY <1>4 DEF ReplayedOnce
<1>8. \A t \in HttpSubs : t # s => /\ queue'[t] = queue[t] /\ written'[t] = written[t]
                                   /\ replayed'[t] = replayed[t] /\ backlog'[t] = backlog[t]
                                   /\ body'[t] = body[t]
  BY <1>1
<1> QED
  BY <1>3, <1>4, <1>6, <1>7, <1>8, LineAt

(* events_after(stream, 0) returns the whole ring: sequences start at 1. *)
LEMMA WholeRing ==
  ASSUME BInv, NEW str \in Streams
  PROVE  /\ EventsAfter(str, 0) = ring[str] /\ ring[str] \in Seq(Event)
         /\ IsInjective(ring[str])
<1>1. ring[str] \in Seq(Event)
  BY DEF BInv, CInv, TInv, TypeOK, ReplayTypeOK
<1>2. \A i \in DOMAIN ring[str] : ring[str][i] \in Event
  BY <1>1
<1>3. \A i \in DOMAIN ring[str] : After(ring[str][i], 0)
  BY <1>2 DEF After, Event
<1>4. EventsAfter(str, 0) = ring[str]
  BY <1>3 DEF EventsAfter
<1>5. IsInjective(ring[str])
  BY DEF BInv, XInv, RingInv, IsInjective
<1> QED
  BY <1>1, <1>4, <1>5

(* The two halves of opening a stream. *)
LEMMA LineOpen ==
  ASSUME BInv, LineInv, NEW s \in HttpSubs, NEW q \in Queries, Open(s, q)
  PROVE  LineInv'
<1>1. /\ HttpSubs \subseteq Subs /\ ReplayOf[s] \subseteq Streams
      /\ body \in [HttpSubs -> Running \cup {"refused", "closing", "leaving", "released", "closed"}]
      /\ asked \in [HttpSubs -> BOOLEAN] /\ backlog \in [HttpSubs -> Seq(Event)]
  BY HttpAssumption, BusAssumption DEF LineInv, BodyTypeOK
<1>2. UNCHANGED <<nextSequence, ring, pc, event, guards, cur, sent, queue, replayed, written, gap>>
  BY DEF Open, Subscribe, vars, replayVars, pubVars
<1>3. /\ body[s] \in {"request", "subscribed"} /\ body'[s] \in {"subscribed", "unpolled"}
      /\ \A t \in HttpSubs : t # s => body'[t] = body[t]
  BY <1>1 DEF Open, Goto
<1>4. CASE backlog' = backlog
  <2>1. BodyTypeOK'
    BY <1>1, <1>2, <1>4 DEF Open, Goto, Queries, LineInv, BodyTypeOK, Running
  <2> QED
    BY <1>2, <1>3, <1>4, <2>1, LineMove
<1>5. ASSUME NEW str \in ReplayOf[s], backlog' = [backlog EXCEPT ![s] = EventsAfter(str, 0)],
             Goto(s, "unpolled"), asked' = asked
      PROVE  LineInv'
  <2>1. /\ str \in Streams /\ EventsAfter(str, 0) = ring[str] /\ ring[str] \in Seq(Event)
        /\ IsInjective(ring[str])
    BY <1>1, <1>5, WholeRing
  <2>2. backlog'[s] = ring[str] /\ \A t \in HttpSubs : t # s => backlog'[t] = backlog[t]
    BY <1>1, <1>5, <2>1
  <2>3. BodyTypeOK'
    BY <1>1, <1>2, <1>5, <2>1 DEF Goto, LineInv, BodyTypeOK, Running
  <2>4. \A x : Known(x)' => Known(x)
    BY <1>2, <2>1, <2>2 DEF Known
  <2>5. QueuedOnce(s) /\ ReplayedOnce(s) /\ IsInjective(written[s])
    BY DEF LineInv
  <2>6. \A p \in Publishers : Pending(p, s)' <=> Pending(p, s)
    BY <1>2 DEF Pending, Serving, Unsent
  <2>7. QueuedOnce(s)'
    BY <1>2, <2>5, <2>6 DEF QueuedOnce
  <2>8. ReplayedOnce(s)'
    <3>1. written[s] = <<>> /\ Range(written[s]) = {}
      BY <1>3, <2>5, EmptyRange DEF ReplayedOnce
    <3>2. body'[s] = "unpolled"
      BY <1>1, <1>5 DEF Goto
    <3> QED
      BY <1>2, <2>1, <2>2, <2>5, <3>1, <3>2 DEF ReplayedOnce
  <2> QED
    BY <1>2, <1>3, <2>2, <2>3, <2>4, <2>5, <2>7, <2>8, LineAt
<1> QED
  BY <1>4, <1>5 DEF Open

(* One replayed line, whose id is remembered. *)
LEMMA LineReplay ==
  ASSUME BInv, LineInv, NEW s \in HttpSubs, Replay(s)
  PROVE  LineInv'
<1>1. /\ backlog \in [HttpSubs -> Seq(Event)] /\ written \in [HttpSubs -> Seq(Event)]
      /\ replayed \in [HttpSubs -> SUBSET (Streams \X (Nat \ {0}))]
  BY DEF LineInv, BodyTypeOK
<1>2. /\ UNCHANGED <<nextSequence, ring, pc, event, guards, cur, sent, queue, body, asked, gap>>
      /\ body[s] = "replay" /\ backlog[s] # <<>>
  BY DEF Replay, vars
<1>3. PICK e : e = Head(backlog[s])
  OBVIOUS
<1>4. /\ e \in Event /\ Tail(backlog[s]) \in Seq(Event)
      /\ Range(backlog[s]) = Range(Tail(backlog[s])) \cup {e}
      /\ IsInjective(backlog[s]) => IsInjective(Tail(backlog[s])) /\ e \notin Range(Tail(backlog[s]))
  BY <1>1, <1>2, <1>3, TailRange
<1>5. /\ backlog' = [backlog EXCEPT ![s] = Tail(backlog[s])]
      /\ replayed' = [replayed EXCEPT ![s] = replayed[s] \cup {EventId(e)}]
      /\ written' = [written EXCEPT ![s] = Append(written[s], e)]
  BY <1>3 DEF Replay, WriteLine
<1>6. /\ backlog'[s] = Tail(backlog[s]) /\ replayed'[s] = replayed[s] \cup {EventId(e)}
      /\ written'[s] = Append(written[s], e)
      /\ \A t \in HttpSubs : t # s => /\ written'[t] = written[t] /\ replayed'[t] = replayed[t]
                                      /\ backlog'[t] = backlog[t]
  BY <1>1, <1>5
<1>7. /\ Range(Append(written[s], e)) = Range(written[s]) \cup {e}
      /\ Append(written[s], e) \in Seq(Event)
      /\ IsInjective(written[s]) /\ e \notin Range(written[s]) => IsInjective(Append(written[s], e))
  BY <1>1, <1>4, AppendRange
<1>8. EventId(e) \in Streams \X (Nat \ {0})
  BY <1>4 DEF EventId, Event
<1>9. BodyTypeOK'
  BY <1>1, <1>2, <1>4, <1>5, <1>7, <1>8 DEF LineInv, BodyTypeOK
<1>10. \A x : Known(x)' => Known(x)
  <2>1. \A t \in HttpSubs : Range(written'[t]) \cup Range(backlog'[t])
                              \subseteq Range(written[t]) \cup Range(backlog[t])
    BY <1>4, <1>6, <1>7
  <2> QED
    BY <1>2, <2>1 DEF Known
<1>11. QueuedOnce(s) /\ ReplayedOnce(s) /\ IsInjective(written[s])
  BY DEF LineInv
<1>12. e \notin Range(written[s])
  BY <1>4, <1>11 DEF ReplayedOnce
<1>13. QueuedOnce(s)'
  <2>1. \A p \in Publishers : Pending(p, s)' <=> Pending(p, s)
    BY <1>2 DEF Pending, Serving, Unsent
  <2>2. Range(written'[s]) = Range(written[s]) \cup {e} /\ EventId(e) \in replayed'[s]
    BY <1>6, <1>7
  <2> QED
    BY <1>2, <1>6, <1>11, <2>1, <2>2 DEF QueuedOnce
<1>14. ReplayedOnce(s)'
  <2>1. IsInjective(backlog'[s]) /\ Range(backlog'[s]) \cap Range(written'[s]) = {}
    BY <1>4, <1>6, <1>7, <1>11 DEF ReplayedOnce
  <2>2. \A id \in replayed'[s] : \E x \in Range(written'[s]) : EventId(x) = id
    BY <1>6, <1>7, <1>11 DEF ReplayedOnce
  <2> QED
    BY <1>2, <2>1, <2>2 DEF ReplayedOnce
<1>15. IsInjective(written'[s])
  BY <1>6, <1>7, <1>11, <1>12
<1> QED
  BY <1>2, <1>6, <1>9, <1>10, <1>13, <1>14, <1>15, LineAt

(* One live envelope: skipped if it was replayed, written if not.  It       *)
(* cannot come through the queue again, so its id may be forgotten.         *)
LEMMA LineRecv ==
  ASSUME BInv, LineInv, NEW s \in HttpSubs, PollQueue(s), Recv(s)
  PROVE  LineInv'
<1>1. /\ written \in [HttpSubs -> Seq(Event)] /\ queue \in [Subs -> Seq(Event)] /\ s \in Subs
      /\ replayed \in [HttpSubs -> SUBSET (Streams \X (Nat \ {0}))] /\ HttpSubs \subseteq Subs
      /\ body \in [HttpSubs -> Running \cup {"refused", "closing", "leaving", "released", "closed"}]
  BY HttpAssumption DEF LineInv, BodyTypeOK, BInv, CInv, TInv, TypeOK
<1>2. /\ UNCHANGED <<nextSequence, ring, pc, event, guards, cur, sent, asked, backlog, gap>>
      /\ body[s] = "polling" /\ queue[s] # <<>>
      /\ queue' = [queue EXCEPT ![s] = Tail(queue[s])]
  BY DEF PollQueue, Recv, replayVars, pubVars
<1>3. PICK e : e = Head(queue[s])
  OBVIOUS
<1>4. /\ e \in Event
      /\ Range(queue[s]) = Range(Tail(queue[s])) \cup {e}
      /\ IsInjective(queue[s]) => IsInjective(Tail(queue[s])) /\ e \notin Range(Tail(queue[s]))
  BY <1>1, <1>2, <1>3, TailRange
<1>5. queue'[s] = Tail(queue[s]) /\ \A t \in Subs : t # s => queue'[t] = queue[t]
  BY <1>1, <1>2
<1>6. /\ Goto(s, "select")
      /\ \/ /\ EventId(e) \in replayed[s] /\ written' = written
            /\ replayed' = [replayed EXCEPT ![s] = replayed[s] \ {EventId(e)}]
         \/ /\ EventId(e) \notin replayed[s] /\ replayed' = replayed
            /\ written' = [written EXCEPT ![s] = Append(written[s], e)]
  <2>1. ~RecvNone(s)
    BY <1>2 DEF RecvNone
  <2> QED
    BY <1>2, <1>3, <2>1 DEF PollQueue, WriteLine
<1>7. body'[s] = "select" /\ \A t \in HttpSubs : t # s => body'[t] = body[t]
  BY <1>1, <1>6 DEF Goto
<1>8. /\ Range(Append(written[s], e)) = Range(written[s]) \cup {e}
      /\ Append(written[s], e) \in Seq(Event)
      /\ IsInjective(written[s]) /\ e \notin Range(written[s]) => IsInjective(Append(written[s], e))
  BY <1>1, <1>4, AppendRange
<1>9. QueuedOnce(s) /\ ReplayedOnce(s) /\ IsInjective(written[s])
  BY DEF LineInv
<1>10. BodyTypeOK'
  BY <1>1, <1>2, <1>6, <1>8 DEF LineInv, BodyTypeOK, Goto, Running
<1>11. \A x : Known(x)' => Known(x)
  <2>1. \A t \in Subs : Range(queue'[t]) \subseteq Range(queue[t])
    BY <1>4, <1>5
  <2>2. \A t \in HttpSubs : Range(written'[t]) \subseteq Range(written[t]) \cup Range(queue[t])
    BY <1>1, <1>4, <1>6, <1>8
  <2> QED
    BY <1>1, <1>2, <2>1, <2>2 DEF Known
<1>12. \A p \in Publishers : /\ Pending(p, s)' <=> Pending(p, s)
                             /\ Pending(p, s) => event[p] \notin Range(queue[s]) /\ event[p] # e
  <2>1. \A p \in Publishers : Pending(p, s)' <=> Pending(p, s)
    BY <1>2 DEF Pending, Serving, Unsent
  <2> QED
    BY <1>4, <1>9, <2>1 DEF QueuedOnce
<1>13. CASE EventId(e) \in replayed[s]
  <2>1. written' = written /\ replayed'[s] = replayed[s] \ {EventId(e)}
    BY <1>1, <1>6, <1>13
  <2>2. \A x : Known(x) /\ EventId(x) = EventId(e) => x = e
    <3>1. Known(e)
      BY <1>1, <1>4 DEF Known
    <3> QED
      BY <3>1 DEF LineInv, Minted
  <2>3. \A x \in Range(written[s]) \cup Range(queue[s]) : x # e => EventId(x) # EventId(e)
    BY <1>1, <2>2 DEF Known
  <2>4. QueuedOnce(s)'
    <3>1. IsInjective(queue'[s]) /\ e \notin Range(queue'[s]) /\ Range(queue'[s]) \subseteq Range(queue[s])
      BY <1>4, <1>5, <1>9 DEF QueuedOnce
    <3>2. \A x \in Range(queue'[s]) : x \in Range(written'[s]) => EventId(x) \in replayed'[s]
      BY <1>9, <2>1, <2>3, <3>1 DEF QueuedOnce
    <3>3. \A p \in Publishers : Pending(p, s) =>
            /\ event[p] \notin Range(queue'[s])
            /\ event[p] \in Range(written[s]) => EventId(event[p]) \in replayed'[s]
      BY <1>9, <1>12, <2>1, <2>3, <3>1 DEF QueuedOnce
    <3> QED
      BY <1>2, <1>12, <2>1, <3>1, <3>2, <3>3 DEF QueuedOnce
  <2>5. ReplayedOnce(s)'
    BY <1>2, <1>7, <1>9, <2>1 DEF ReplayedOnce
  <2>6. \A t \in HttpSubs : t # s => replayed'[t] = replayed[t]
    BY <1>1, <1>6, <1>13
  <2> QED
    BY <1>1, <1>2, <1>5, <1>7, <1>9, <1>10, <1>11, <2>1, <2>4, <2>5, <2>6, LineAt
<1>14. CASE EventId(e) \notin replayed[s]
  <2>1. replayed' = replayed /\ written'[s] = Append(written[s], e)
        /\ \A t \in HttpSubs : t # s => written'[t] = written[t]
    BY <1>1, <1>6, <1>14
  <2>2. e \notin Range(written[s])
    BY <1>4, <1>9, <1>14 DEF QueuedOnce
  <2>3. Range(written'[s]) = Range(written[s]) \cup {e} /\ IsInjective(written'[s])
    BY <1>8, <1>9, <2>1, <2>2
  <2>4. QueuedOnce(s)'
    <3>1. IsInjective(queue'[s]) /\ e \notin Range(queue'[s]) /\ Range(queue'[s]) \subseteq Range(queue[s])
      BY <1>4, <1>5, <1>9 DEF QueuedOnce
    <3> QED
      BY <1>2, <1>9, <1>12, <2>1, <2>3, <3>1 DEF QueuedOnce
  <2>5. ReplayedOnce(s)'
    <3>1. backlog'[s] = <<>> /\ backlog[s] = <<>> /\ Range(backlog'[s]) = {}
      BY <1>2, <1>9, EmptyRange DEF ReplayedOnce
    <3> QED
      BY <1>7, <1>9, <2>1, <2>3, <3>1 DEF ReplayedOnce
  <2> QED
    BY <1>1, <1>2, <1>5, <1>7, <1>10, <1>11, <2>1, <2>3, <2>4, <2>5, LineAt
<1> QED
  BY <1>13, <1>14

(* The steps of a body that write nothing. *)
LEMMA LineOther ==
  ASSUME BInv, LineInv, NEW s \in HttpSubs,
         \/ \E q \in Queries : Refuse(s, q)
         \/ Start(s) \/ ReplayDone(s) \/ PollNotice(s) \/ (PollQueue(s) /\ ~Recv(s))
         \/ ClientGone(s) \/ Release(s) \/ DropBody(s)
  PROVE  LineInv'
<1>1. /\ HttpSubs \subseteq Subs /\ s \in Subs /\ queue \in [Subs -> Seq(Event)]
      /\ body \in [HttpSubs -> Running \cup {"refused", "closing", "leaving", "released", "closed"}]
      /\ gap \in [HttpSubs -> BOOLEAN]
  BY HttpAssumption DEF LineInv, BodyTypeOK, BInv, CInv, TInv, TypeOK
<1>2. PICK w \in {"refused", "replay", "select", "closing", "polling", "released", "leaving", "closed"} :
        /\ Goto(s, w)
        /\ w \in {"select", "polling"} => backlog[s] = <<>>
  <2>1. body[s] \in {"select", "polling"} => backlog[s] = <<>>
    BY DEF LineInv, ReplayedOnce
  <2>2. CASE (\E q \in Queries : Refuse(s, q)) \/ Start(s) \/ ReplayDone(s)
    BY <2>2 DEF Refuse, Start, ReplayDone
  <2>3. CASE PollNotice(s)
    BY <2>1, <2>3 DEF PollNotice
  <2>4. CASE PollQueue(s) /\ ~Recv(s)
    BY <2>1, <2>4 DEF PollQueue
  <2>5. CASE ClientGone(s) \/ Release(s) \/ DropBody(s)
    BY <2>5 DEF ClientGone, Release, DropBody
  <2> QED
    BY <2>2, <2>3, <2>4, <2>5
<1>3. body'[s] = w /\ \A t \in HttpSubs : t # s => body'[t] = body[t]
  BY <1>1, <1>2 DEF Goto
<1>4. UNCHANGED <<asked, backlog, replayed, written>>
  BY DEF Refuse, Start, ReplayDone, PollNotice, PollQueue, ClientGone, Release, DropBody
<1>5. /\ UNCHANGED <<nextSequence, ring, pc, event, guards, cur, sent>>
      /\ \A t \in Subs : t # s => queue'[t] = queue[t]
      /\ queue'[s] = queue[s] \/ queue'[s] = <<>>
  <2>1. CASE UNCHANGED vars
    BY <2>1 DEF vars
  <2>2. CASE RecvNone(s) \/ Unsubscribe(s)
    BY <2>2 DEF RecvNone, Unsubscribe, replayVars, pubVars
  <2>3. CASE DropReceiver(s)
    BY <1>1, <2>3 DEF DropReceiver, replayVars, pubVars
  <2> QED
    BY <2>1, <2>2, <2>3 DEF Refuse, Start, ReplayDone, PollNotice, PollQueue, ClientGone, Release,
         DropBody
<1>6. gap' \in [HttpSubs -> BOOLEAN]
  BY <1>1 DEF Refuse, Start, ReplayDone, PollNotice, PollQueue, ClientGone, Release, DropBody
<1>7. BodyTypeOK'
  BY <1>1, <1>2, <1>4, <1>6 DEF LineInv, BodyTypeOK, Goto, Running
<1> QED
  BY <1>2, <1>3, <1>4, <1>5, <1>7, LineMove

(* LineInv is inductive relative to the invariants of the bus. *)
LEMMA LineStep == BInv /\ LineInv /\ [StreamNext]_allVars => LineInv'
<1> SUFFICES ASSUME BInv, LineInv, [StreamNext]_allVars PROVE LineInv'
  OBVIOUS
<1>1. ASSUME NEW s \in HttpSubs, BodyStep(s) PROVE LineInv'
  <2>1. CASE \E q \in Queries : Open(s, q)
    BY <2>1, LineOpen
  <2>2. CASE Replay(s)
    BY <2>2, LineReplay
  <2>3. CASE PollQueue(s) /\ Recv(s)
    BY <2>3, LineRecv
  <2> QED
    BY <1>1, <2>1, <2>2, <2>3, LineOther DEF BodyStep
<1>2. ASSUME NEW p \in Publishers, PublisherStep(p) \/ Cancel(p), UNCHANGED bodyVars PROVE LineInv'
  <2>1. Offered(p)
    BY <1>2, PublisherOffers
  <2>2. pc[p] # "idle"
    BY <1>2 DEF PublisherStep, Cancel, RejectTooLarge, RecordEnvelope, PruneIndex, TryPublish, Claim,
         AwaitSend, TrySend, DropGuard, CommitDelivered, CommitDropped, CommitDisconnect,
         CommitClosed, Return
  <2>3. event[p] \in Event
    BY <2>2 DEF BInv, CInv, TInv, HoldsEvent
  <2> QED
    BY <1>2, <2>1, <2>3, LineFeed
<1>3. CASE BusStep /\ UNCHANGED bodyVars
  BY <1>2, <1>3, LineConsumer, LineAllocate DEF BusStep
<1>4. CASE UNCHANGED allVars
  <2>1. UNCHANGED vars /\ UNCHANGED bodyVars
    BY <1>4 DEF allVars
  <2>2. \A x : Known(x)' => Known(x)
    BY <2>1 DEF Known, vars, bodyVars
  <2>3. BodyTypeOK'
    BY <2>1 DEF LineInv, BodyTypeOK, bodyVars
  <2>4. PICK s : s \notin HttpSubs
    <3>1. \E s : s \notin HttpSubs
      BY BusAssumption, HttpAssumption
    <3> QED
      BY <3>1
  <2> QED
    BY <2>1, <2>2, <2>3, <2>4, LineAt DEF vars, bodyVars
<1> QED
  BY <1>1, <1>2, <1>3, <1>4 DEF StreamNext, CancelPublish

(* Nothing is published, queued or written to begin with. *)
LEMMA LineInit == StreamInit => BInv /\ LineInv
<1> SUFFICES ASSUME StreamInit PROVE BInv /\ LineInv
  OBVIOUS
<1>1. Init /\ HttpSubs \subseteq Subs
  BY HttpAssumption DEF StreamInit
<1>2. BInv
  BY <1>1, ClaimsInit, IndexInit DEF BInv
<1>3. BodyTypeOK
  BY DEF StreamInit, BodyTypeOK, Running
<1>4. /\ \A str \in Streams : ring[str] = <<>>
      /\ \A s \in Subs : queue[s] = <<>> /\ sent[s] = <<>>
      /\ \A p \in Publishers : event[p] = NoEvent /\ pc[p] = "idle" /\ guards[p] = {}
      /\ \A s \in HttpSubs : backlog[s] = <<>> /\ written[s] = <<>> /\ replayed[s] = {}
      /\ \A s \in HttpSubs : body[s] = "request"
  BY <1>1 DEF Init, ReplayInit, StreamInit
<1>5. \A x : ~Known(x)
  BY <1>4, EmptyRange DEF Known
<1>6. Minted /\ OwnEvent
  BY <1>4, <1>5 DEF Minted, OwnEvent
<1>7. \A p \in Publishers, s \in HttpSubs : ~Pending(p, s)
  BY <1>4 DEF Pending, Serving, Unsent
<1>8. \A s \in HttpSubs : QueuedOnce(s) /\ ReplayedOnce(s) /\ IsInjective(written[s])
  BY <1>1, <1>4, <1>7, EmptyRange DEF QueuedOnce, ReplayedOnce
<1> QED
  BY <1>2, <1>3, <1>6, <1>8 DEF LineInv

(* No envelope is written twice, whatever publications fall between         *)
(* subscribe_events and events_after, and whatever the policy, the capacity *)
(* of the queue and of the replay ring (replayed_event_ids).                *)
THEOREM WrittenOnce == StreamSpec => []NoLineTwice
<1>1. LineInv => NoLineTwice
  BY DEF LineInv, NoLineTwice
<1> QED
  BY <1>1, LineInit, LineStep, BusStepKept, PTL DEF StreamSpec

-----------------------------------------------------------------------------
(* Completeness.  A publisher acts alone. *)
LEMMA OthersStill ==
  ASSUME BInv, NEW p \in Publishers, PublisherStep(p) \/ Cancel(p),
         NEW r \in Publishers, r # p
  PROVE  /\ pc'[r] = pc[r] /\ event'[r] = event[r]
         /\ guards'[r] = guards[r] /\ cur'[r] = cur[r]
<1>1. /\ pc \in [Publishers -> PcStates] /\ event \in [Publishers -> Event \cup {NoEvent}]
      /\ guards \in [Publishers -> SUBSET Subs] /\ cur \in [Publishers -> Subs \cup {NoSub}]
  BY DEF BInv, CInv, TInv, TypeOK
<1>2. CASE RejectTooLarge(p) \/ RecordEnvelope(p) \/ PruneIndex(p)
  BY <1>1, <1>2 DEF RejectTooLarge, RecordEnvelope, PruneIndex
<1>3. CASE TryPublish(p) \/ Claim(p)
  BY <1>1, <1>3 DEF TryPublish, Claim
<1>4. CASE AwaitSend(p) \/ \E s \in Subs : TrySend(p, s)
  BY <1>4, SendShape DEF BInv, CInv
<1>5. CASE CommitDelivered(p) \/ CommitDropped(p) \/ CommitDisconnect(p) \/ CommitClosed(p)
  BY <1>1, <1>5 DEF CommitDelivered, CommitDropped, CommitDisconnect, CommitClosed, Disarm
<1>6. CASE Return(p) \/ Cancel(p) \/ \E s \in Subs : DropGuard(p, s)
  BY <1>1, <1>6 DEF Return, Cancel, DropGuard
<1> QED
  BY <1>2, <1>3, <1>4, <1>5, <1>6 DEF PublisherStep

(* A receiver does not reopen, and only its owner closes it. *)
LEMMA ReceiverStays ==
  ASSUME NEW p \in Publishers, PublisherStep(p) \/ Cancel(p)
  PROVE  rx' = rx
  BY DEF PublisherStep, Cancel, RejectTooLarge, RecordEnvelope, PruneIndex, TryPublish, Claim,
       AwaitSend, TrySend, DropGuard, CommitDelivered, CommitDropped, CommitDisconnect,
       CommitClosed, Return, subVars

(* Why p skips a match, after each of its steps. *)
LEMMA SkipPublisher ==
  ASSUME BInv, SkipReason, NEW p \in Publishers,
         \/ PublisherStep(p) /\ cancelled' = cancelled
         \/ CancelPublish(p)
  PROVE  SkipReason'
<1>1. /\ pc \in [Publishers -> PcStates] /\ event \in [Publishers -> Event \cup {NoEvent}]
      /\ cur \in [Publishers -> Subs \cup {NoSub}]
  BY DEF BInv, CInv, TInv, TypeOK
<1>2. rx' = rx /\ cancelled \subseteq cancelled' /\ (PublisherStep(p) \/ Cancel(p))
  BY ReceiverStays DEF CancelPublish
<1>3. ASSUME NEW r \in Publishers, r # p
      PROVE  /\ pc'[r] = "dropped" => Policy[cur'[r]] = "drop_newest"
             /\ pc'[r] = "cancelled" => event'[r] \in cancelled'
             /\ pc'[r] = "closed" => rx'[cur'[r]] # "open"
  BY <1>2, <1>3, OthersStill DEF SkipReason
<1>4. /\ pc'[p] = "dropped" => Policy[cur'[p]] = "drop_newest"
      /\ pc'[p] = "cancelled" => event'[p] \in cancelled'
      /\ pc'[p] = "closed" => rx'[cur'[p]] # "open"
  <2>1. CASE RejectTooLarge(p) \/ RecordEnvelope(p) \/ PruneIndex(p)
    BY <1>1, <2>1 DEF RejectTooLarge, RecordEnvelope, PruneIndex
  <2>2. CASE TryPublish(p) \/ Claim(p)
    BY <1>1, <2>2 DEF TryPublish, Claim
  <2>3. CASE AwaitSend(p)
    BY <1>1, <1>2, <2>3 DEF AwaitSend
  <2>4. ASSUME NEW s \in Subs, TrySend(p, s)
        PROVE  /\ pc'[p] = "dropped" => Policy[cur'[p]] = "drop_newest"
               /\ pc'[p] = "cancelled" => event'[p] \in cancelled'
               /\ pc'[p] = "closed" => rx'[cur'[p]] # "open"
    <3>1. cur'[p] = s
      BY <1>1, <2>4 DEF TrySend
    <3>2. pc'[p] \in {"closed", "delivered", OverflowOutcome(s)}
      BY <1>1, <2>4 DEF TrySend
    <3>3. /\ OverflowOutcome(s) \in {"blocked", "dropped", "disconnect"}
          /\ OverflowOutcome(s) = "dropped" => Policy[s] = "drop_newest"
      BY DEF OverflowOutcome
    <3>4. pc'[p] = "closed" => rx[s] # "open"
      <4>1. CASE rx[s] = "open" /\ HasRoom(s)
        BY <1>1, <2>4, <4>1 DEF TrySend
      <4>2. CASE rx[s] = "open" /\ ~HasRoom(s)
        <5>1. pc'[p] = OverflowOutcome(s)
          BY <1>1, <2>4, <4>2 DEF TrySend
        <5> QED
          BY <3>3, <5>1
      <4> QED
        BY <4>1, <4>2
    <3> QED
      BY <1>2, <3>1, <3>2, <3>3, <3>4
  <2>5. CASE CommitDelivered(p) \/ CommitDropped(p) \/ CommitDisconnect(p) \/ CommitClosed(p) \/ Return(p)
    BY <1>1, <2>5 DEF CommitDelivered, CommitDropped, CommitDisconnect, CommitClosed, Disarm, Return
  <2>6. CASE \E s \in Subs : DropGuard(p, s)
    BY <1>1, <1>2, <2>6 DEF DropGuard, SkipReason
  <2>7. CASE CancelPublish(p)
    BY <1>1, <2>7 DEF CancelPublish, Cancel
  <2> QED
    BY <2>1, <2>2, <2>3, <2>4, <2>5, <2>6, <2>7 DEF PublisherStep
<1> QED
  BY <1>3, <1>4 DEF SkipReason

(* Other steps leave the publishers' reasons alone. *)
LEMMA SkipOther ==
  ASSUME BInv, SkipReason, cancelled' = cancelled,
         \A p \in Publishers : \/ pc'[p] = pc[p] /\ event'[p] = event[p] /\ cur'[p] = cur[p]
                               \/ pc'[p] = "allocated",
         \A s \in Subs : rx'[s] = "open" => rx[s] = "open"
  PROVE  SkipReason'
<1>1. \A p \in Publishers : pc[p] = "closed" => cur[p] \in Subs
  BY DEF BInv, CInv, TInv, TypeOK, HoldsMatch, Outcomes
<1> QED
  BY <1>1 DEF SkipReason

(* A publisher takes an unlimited Disconnect subscription with an open      *)
(* receiver out of the map only with a notice.                              *)
LEMMA RemovalNoticed ==
  ASSUME BInv, SkipReason, NEW p \in Publishers, PublisherStep(p) \/ Cancel(p),
         NEW s \in HttpSubs, Policy[s] = "disconnect", rx[s] = "open"
  PROVE  /\ notice[s] # <<>> => notice'[s] # <<>>
         /\ st'[s] = "removed" /\ st[s] # "removed" => notice'[s] # <<>>
<1>1. /\ s \in Subs /\ remaining[s] = NoLimit /\ NoLimit # 0 /\ Dec(remaining[s]) # 0
      /\ st \in [Subs -> {"new", "active", "removed"}]
      /\ notice \in [Subs -> Seq(Event \cup {NoEvent})]
  BY HttpAssumption DEF BInv, CInv, TInv, TypeOK, Unlimited, NoLimit, Dec
<1>2. SlowNotice(s) # <<>>
  BY DEF SlowNotice
<1>3. CASE UNCHANGED <<st, notice>>
  BY <1>3
<1>4. CASE TryPublish(p)
  <2>1. /\ notice'[s] \in {notice[s], SlowNotice(s)}
        /\ notice[s] # <<>> => notice'[s] = notice[s]
    BY <1>1, <1>4 DEF TryPublish
  <2>2. ASSUME st'[s] = "removed", st[s] # "removed" PROVE notice'[s] # <<>>
    <3> DEFINE e == event[p]
               mpsc == Matching(e) \ Coalescing(e)
               closed == {t \in mpsc : rx[t] # "open"}
               room == {t \in mpsc \ closed : HasRoom(t)}
               slow == {t \in mpsc \ (closed \cup room) : Policy[t] = "disconnect"}
    <3>1. FanOut(e, room, {}, closed \cup slow)
      BY <1>4 DEF TryPublish
    <3>2. s \in closed \cup slow \cup ReceiverGone(e)
      <4> HIDE DEF room, closed, slow, e
      <4>1. \/ s \in closed \cup slow \cup ReceiverGone(e)
            \/ s \in room \cup Pushed(e) /\ Dec(remaining[s]) = 0
        BY <1>1, <2>2, <3>1 DEF FanOut
      <4> QED
        BY <1>1, <4>1
    <3>3. s \in slow
      BY <3>2 DEF ReceiverGone
    <3>4. notice'[s] = IF s \in slow /\ notice[s] = <<>> THEN SlowNotice(s) ELSE notice[s]
      BY <1>1, <1>4 DEF TryPublish
    <3> QED
      BY <1>2, <3>3, <3>4
  <2> QED
    BY <1>2, <2>1, <2>2
<1>5. CASE Claim(p)
  <2>1. notice' = notice /\ FanOut(event[p], {}, Claimable(event[p]), {})
    BY <1>5 DEF Claim
  <2>2. s \notin ReceiverGone(event[p])
    BY DEF ReceiverGone
  <2>3. st'[s] = st[s]
    BY <1>1, <2>1, <2>2 DEF FanOut
  <2> QED
    BY <2>1, <2>3
<1>6. CASE CommitDelivered(p)
  <2>1. ~Exhausted(s)
    BY <1>1 DEF Exhausted
  <2>2. notice' = notice /\ st'[s] = st[s]
    <3>1. CASE cur[p] = s
      BY <1>1, <1>6, <2>1, <3>1 DEF CommitDelivered
    <3>2. CASE cur[p] # s
      BY <1>1, <1>6, <3>2 DEF CommitDelivered
    <3> QED
      BY <1>6, <3>1, <3>2 DEF CommitDelivered
  <2> QED
    BY <2>2
<1>7. CASE CommitDisconnect(p)
  <2>1. CASE cur[p] = s
    <3>1. st[s] # "new"
      BY <1>7, <2>1 DEF CommitDisconnect, BInv, CInv, TInv, HoldsMatch, Outcomes, GuardsOnQueues
    <3>2. notice'[s] = IF st[s] = "active" /\ notice[s] = <<>> THEN SlowNotice(s) ELSE notice[s]
      BY <1>1, <1>7, <2>1 DEF CommitDisconnect
    <3> QED
      BY <1>1, <1>2, <3>1, <3>2
  <2>2. CASE cur[p] # s
    BY <1>1, <1>7, <2>2 DEF CommitDisconnect
  <2> QED
    BY <2>1, <2>2
<1>8. CASE CommitClosed(p)
  <2>1. cur[p] # s
    BY <1>8 DEF CommitClosed, SkipReason
  <2> QED
    BY <1>1, <1>8, <2>1 DEF CommitClosed
<1>9. \/ UNCHANGED <<st, notice>>
      \/ TryPublish(p) \/ Claim(p) \/ CommitDelivered(p) \/ CommitDisconnect(p) \/ CommitClosed(p)
  BY DEF PublisherStep, Cancel, RejectTooLarge, RecordEnvelope, PruneIndex, AwaitSend, TrySend,
       DropGuard, CommitDropped, Return, subVars
<1> QED
  BY <1>3, <1>4, <1>5, <1>6, <1>7, <1>8, <1>9

(* A publisher that has an envelope pending for a live Disconnect body      *)
(* keeps it pending, hands it over, or is cancelled.                        *)
LEMMA ServingKept ==
  ASSUME BInv, SkipReason, NEW p \in Publishers,
         \/ PublisherStep(p) /\ cancelled' = cancelled
         \/ CancelPublish(p),
         NEW s \in HttpSubs, Policy[s] = "disconnect", st[s] = "active", st'[s] = "active",
         NEW x, event[p] = x, x.stream \in Topic[s], Serving(p, s)
  PROVE  \/ event'[p] = x /\ Serving(p, s)'
         \/ x \in Range(queue'[s])
         \/ x \in cancelled'
<1>1. /\ s \in Subs /\ remaining[s] = NoLimit /\ NoLimit # 0
      /\ pc \in [Publishers -> PcStates] /\ event \in [Publishers -> Event \cup {NoEvent}]
      /\ guards \in [Publishers -> SUBSET Subs] /\ cur \in [Publishers -> Subs \cup {NoSub}]
      /\ queue \in [Subs -> Seq(Event)] /\ st \in [Subs -> {"new", "active", "removed"}]
  BY HttpAssumption DEF BInv, CInv, TInv, TypeOK, Unlimited, NoLimit
<1>2. \/ pc[p] \in {"recorded", "fanout"}
      \/ s \in guards[p] /\ ~(pc[p] = "delivered" /\ cur[p] = s)
  BY DEF Serving, Unsent
<1>3. pc[p] # "idle" /\ x \in Event
  <2>1. pc[p] = "idle" => guards[p] = {}
    BY DEF BInv, CInv, GuardsInLoop
  <2> QED
    BY <1>2, <2>1 DEF BInv, CInv, TInv, HoldsEvent
<1>4. ASSUME queue'[s] = Append(queue[s], x) PROVE x \in Range(queue'[s])
  BY <1>1, <1>3, <1>4, AppendRange
<1>5. CASE RejectTooLarge(p) \/ RecordEnvelope(p)
  <2>1. pc[p] = "allocated" /\ guards[p] = {}
    BY <1>5 DEF RejectTooLarge, RecordEnvelope, BInv, CInv, GuardsInLoop
  <2> QED
    BY <1>2, <2>1
<1>6. CASE PruneIndex(p)
  BY <1>1, <1>6 DEF PruneIndex, Serving
<1>7. s \in Matching(x) \ Coalescing(x)
  BY <1>1 DEF Matching, Coalescing
<1>8. CASE TryPublish(p)
  <2> DEFINE mpsc == Matching(x) \ Coalescing(x)
             closed == {t \in mpsc : rx[t] # "open"}
             room == {t \in mpsc \ closed : HasRoom(t)}
             slow == {t \in mpsc \ (closed \cup room) : Policy[t] = "disconnect"}
  <2>1. FanOut(x, room, {}, closed \cup slow)
    BY <1>8 DEF TryPublish
  <2>2. s \in closed \cup slow \cup room
    BY <1>7
  <2> HIDE DEF room, closed, slow, mpsc
  <2>3. s \notin closed \cup slow
    BY <1>1, <2>1 DEF FanOut
  <2>4. queue'[s] = Append(queue[s], x)
    BY <1>1, <2>1, <2>2, <2>3 DEF FanOut
  <2> QED
    BY <1>4, <2>4
<1>9. CASE Claim(p)
  <2>1. s \in Claimable(x)
    BY <1>1, <1>7 DEF Claimable
  <2>2. s \in guards'[p] /\ pc'[p] = "loop" /\ event'[p] = x
    BY <1>1, <1>9, <2>1 DEF Claim
  <2> QED
    BY <2>2 DEF Serving, Unsent
<1>10. CASE AwaitSend(p)
  <2>1. pc[p] = "blocked" /\ cur'[p] = cur[p] /\ guards' = guards /\ event' = event
    BY <1>10 DEF AwaitSend
  <2>2. CASE pc'[p] = "delivered" /\ cur[p] = s
    <3>1. queue'[s] = Append(queue[s], x)
      BY <1>1, <1>10, <2>2 DEF AwaitSend, Enqueue
    <3> QED
      BY <1>4, <3>1
  <2>3. CASE ~(pc'[p] = "delivered" /\ cur[p] = s)
    BY <1>2, <2>1, <2>3 DEF Serving, Unsent
  <2> QED
    BY <2>2, <2>3
<1>11. ASSUME NEW t \in Subs, TrySend(p, t)
       PROVE  \/ event'[p] = x /\ Serving(p, s)'
              \/ x \in Range(queue'[s])
  <2>1. pc[p] = "loop" /\ cur'[p] = t /\ guards' = guards /\ event' = event
    BY <1>1, <1>11 DEF TrySend
  <2>2. CASE pc'[p] = "delivered" /\ t = s
    <3>1. OverflowOutcome(t) # "delivered"
      BY DEF OverflowOutcome
    <3>2. queue'[s] = Append(queue[s], x)
      BY <1>1, <1>11, <2>2, <3>1 DEF TrySend, Enqueue
    <3> QED
      BY <1>4, <3>2
  <2>3. CASE ~(pc'[p] = "delivered" /\ t = s)
    BY <1>2, <2>1, <2>3 DEF Serving, Unsent
  <2> QED
    BY <2>2, <2>3
<1>12. CASE CommitDelivered(p) \/ CommitDropped(p) \/ CommitDisconnect(p) \/ CommitClosed(p)
  <2>1. /\ pc[p] \in {"delivered", "dropped", "disconnect", "closed"} /\ pc'[p] = "loop"
        /\ guards'[p] = guards[p] \ {cur[p]} /\ event' = event
    BY <1>1, <1>12 DEF CommitDelivered, CommitDropped, CommitDisconnect, CommitClosed, Disarm
  <2>2. cur[p] # s
    <3>1. CASE CommitDelivered(p)
      BY <1>2, <3>1 DEF CommitDelivered
    <3>2. CASE CommitDropped(p)
      BY <3>2 DEF CommitDropped, SkipReason
    <3>3. CASE CommitDisconnect(p) \/ CommitClosed(p)
      BY <1>1, <3>3 DEF CommitDisconnect, CommitClosed
    <3> QED
      BY <1>12, <3>1, <3>2, <3>3
  <2> QED
    BY <1>2, <2>1, <2>2 DEF Serving, Unsent
<1>13. CASE Return(p)
  BY <1>2, <1>13 DEF Return
<1>14. CASE \E t \in Subs : DropGuard(p, t)
  BY <1>14 DEF DropGuard, SkipReason, CancelPublish, Cancel
<1>15. CASE CancelPublish(p)
  BY <1>15 DEF CancelPublish
<1> QED
  BY <1>5, <1>6, <1>8, <1>9, <1>10, <1>11, <1>12, <1>13, <1>14, <1>15 DEF PublisherStep

(* What a publisher's step does to a body's way to an envelope. *)
LEMMA FedReached ==
  ASSUME BInv, LineInv, NEW p \in Publishers, PublisherStep(p) \/ Cancel(p), UNCHANGED bodyVars,
         NEW s \in HttpSubs, Policy[s] # "coalesce"
  PROVE  /\ Reached(s) \subseteq Reached(s)'
         /\ Range(sent[s]) \subseteq Reached(s) => Range(sent'[s]) \subseteq Reached(s)'
         /\ rx[s] # "open" => sent'[s] = sent[s]
<1>1. /\ s \in Subs /\ queue[s] \in Seq(Event) /\ sent[s] \in Seq(Event)
      /\ written'[s] = written[s] /\ backlog'[s] = backlog[s]
  BY HttpAssumption DEF BInv, CInv, TInv, TypeOK, bodyVars
<1>2. FedBy(p, s)
  BY <1>1, PublisherOffers DEF Offered
<1>3. CASE queue'[s] = queue[s] /\ sent'[s] = sent[s]
  BY <1>1, <1>3 DEF Reached
<1>4. CASE ~(queue'[s] = queue[s] /\ sent'[s] = sent[s])
  <2>1. /\ Pending(p, s) /\ rx[s] = "open"
        /\ queue'[s] = Append(queue[s], event[p]) /\ sent'[s] = Append(sent[s], event[p])
    BY <1>2, <1>4 DEF FedBy
  <2>2. event[p] \in Event
    <3>1. pc[p] # "idle"
      BY <2>1 DEF Pending, Serving, Unsent, BInv, CInv, GuardsInLoop
    <3> QED
      BY <3>1 DEF BInv, CInv, TInv, HoldsEvent
  <2>3. /\ Range(queue'[s]) = Range(queue[s]) \cup {event[p]}
        /\ Range(sent'[s]) = Range(sent[s]) \cup {event[p]}
    BY <1>1, <2>1, <2>2, AppendRange
  <2> QED
    BY <1>1, <2>1, <2>3 DEF Reached
<1> QED
  BY <1>3, <1>4

(* A publisher puts no subscription into the map. *)
LEMMA PublisherRemoves ==
  ASSUME BInv, NEW p \in Publishers, PublisherStep(p) \/ Cancel(p), NEW s \in Subs,
         st'[s] = "active"
  PROVE  st[s] = "active"
<1>1. st \in [Subs -> {"new", "active", "removed"}]
  BY DEF BInv, CInv, TInv, TypeOK
<1>2. CASE TryPublish(p) \/ Claim(p)
  <2>1. PICK d, c, x : FanOut(event[p], d, c, x)
    BY <1>2 DEF TryPublish, Claim
  <2> QED
    BY <1>1, <2>1 DEF FanOut
<1>3. CASE CommitDelivered(p) \/ CommitDisconnect(p) \/ CommitClosed(p)
  BY <1>1, <1>3 DEF CommitDelivered, CommitDisconnect, CommitClosed
<1>4. CASE UNCHANGED st
  BY <1>4
<1>5. UNCHANGED st \/ TryPublish(p) \/ Claim(p) \/ CommitDelivered(p) \/ CommitDisconnect(p) \/ CommitClosed(p)
  BY DEF PublisherStep, Cancel, RejectTooLarge, RecordEnvelope, PruneIndex, AwaitSend, TrySend,
       DropGuard, CommitDropped, Return, subVars
<1> QED
  BY <1>2, <1>3, <1>4, <1>5

(* Only record() changes a ring, and its publisher then has the envelope to *)
(* offer.                                                                   *)
LEMMA RecordedServes ==
  ASSUME BInv, NEW p \in Publishers, PublisherStep(p) \/ Cancel(p)
  PROVE  \/ ring' = ring
         \/ event' = event /\ \A s : Serving(p, s)'
<1>1. pc \in [Publishers -> PcStates]
  BY DEF BInv, CInv, TInv, TypeOK
<1>2. CASE RecordEnvelope(p)
  BY <1>1, <1>2 DEF RecordEnvelope, Serving
<1>3. ring' = ring \/ RecordEnvelope(p)
  BY DEF PublisherStep, Cancel, RejectTooLarge, PruneIndex, TryPublish, Claim, AwaitSend, TrySend,
       DropGuard, CommitDelivered, CommitDropped, CommitDisconnect, CommitClosed, Return, replayVars
<1> QED
  BY <1>2, <1>3

(* ReachInv under the steps of the publishers. *)
LEMMA ReachPublisher ==
  ASSUME BInv, LineInv, ReachInv, NEW p \in Publishers,
         \/ PublisherStep(p) /\ cancelled' = cancelled
         \/ CancelPublish(p),
         UNCHANGED bodyVars
  PROVE  ReachInv'
<1>1. PublisherStep(p) \/ Cancel(p)
  BY DEF CancelPublish
<1>2. cancelled \subseteq cancelled' /\ UNCHANGED <<body, asked, backlog, written, gap>> /\ rx' = rx
  BY <1>1, ReceiverStays DEF CancelPublish, bodyVars
<1>3. SkipReason /\ SkipReason'
  BY SkipPublisher DEF ReachInv
<1> SUFFICES ASSUME NEW s \in HttpSubs
             PROVE  SentReached(s)' /\ RetainedReached(s)' /\ Opening(s)' /\ EndExplained(s)'
  BY <1>3 DEF ReachInv
<1>4. s \in Subs /\ SentReached(s) /\ RetainedReached(s) /\ Opening(s) /\ EndExplained(s)
  BY HttpAssumption DEF ReachInv
<1>5. Policy[s] # "coalesce" =>
        /\ Reached(s) \subseteq Reached(s)'
        /\ Range(sent[s]) \subseteq Reached(s) => Range(sent'[s]) \subseteq Reached(s)'
        /\ rx[s] # "open" => sent'[s] = sent[s]
  BY <1>1, FedReached
<1>6. SentReached(s)'
  BY <1>2, <1>4, <1>5 DEF SentReached
<1>7. Opening(s)'
  BY <1>2, <1>4 DEF Opening
<1>8. EndExplained(s)'
  <2>1. body[s] \in Running => rx'[s] = "open"
    BY <1>2, <1>4 DEF EndExplained
  <2>2. body[s] \in Running /\ Policy[s] = "disconnect" /\ st'[s] = "removed" => notice'[s] # <<>>
    BY <1>1, <1>3, <1>4, RemovalNoticed DEF EndExplained
  <2>3. body[s] = "closing" /\ ~gap[s] /\ Policy[s] = "disconnect" =>
          rx'[s] # "open" /\ Range(sent'[s]) \subseteq Range(written[s])
    BY <1>2, <1>4, <1>5 DEF EndExplained
  <2> QED
    BY <1>2, <2>1, <2>2, <2>3 DEF EndExplained
<1>9. RetainedReached(s)'
  <2> SUFFICES ASSUME body[s] \in Running \ {"request", "subscribed"},
                      st'[s] = "active", Policy[s] = "disconnect", asked[s],
                      NEW str \in Topic[s], NEW x \in Range(ring'[str])
               PROVE  \/ x \in Reached(s)' \cup cancelled'
                      \/ \E r \in Publishers : event'[r] = x /\ Serving(r, s)'
    BY <1>2 DEF RetainedReached
  <2>1. st[s] = "active" /\ str \in Streams
    BY <1>1, <1>4, PublisherRemoves, BusAssumption
  <2>2. CASE x \in Range(ring[str])
    <3>1. x.stream \in Topic[s]
      BY <2>1, <2>2 DEF BInv, XInv, RingInv, Range
    <3>2. CASE x \in Reached(s) \cup cancelled
      BY <1>2, <1>5, <3>2
    <3>3. CASE x \notin Reached(s) \cup cancelled
      <4>1. PICK r \in Publishers : event[r] = x /\ Serving(r, s)
        BY <1>4, <2>1, <2>2, <3>3 DEF RetainedReached
      <4>2. CASE r = p
        BY <1>3, <2>1, <3>1, <4>1, <4>2, ServingKept DEF Reached
      <4>3. CASE r # p
        BY <1>1, <4>1, <4>3, OthersStill DEF Serving, Unsent
      <4> QED
        BY <4>2, <4>3
    <3> QED
      BY <3>2, <3>3
  <2>3. CASE x \notin Range(ring[str])
    <3>1. x = event[p]
      BY <1>1, <2>1, <2>3, PublisherOffers DEF Offered
    <3>2. event' = event /\ Serving(p, s)'
      BY <1>1, <2>3, RecordedServes
    <3> QED
      BY <3>1, <3>2
  <2> QED
    BY <2>2, <2>3
<1> QED
  BY <1>6, <1>7, <1>8, <1>9

(* Steps of one consumer: what ReachInv says of the others stands. *)
LEMMA ReachAt ==
  ASSUME BInv, ReachInv, NEW s,
         UNCHANGED <<ring, sent, pc, event, guards, cur, cancelled>>,
         \A t \in Subs : rx'[t] = "open" => rx[t] = "open",
         \A t \in HttpSubs : t # s =>
            /\ body'[t] = body[t] /\ asked'[t] = asked[t] /\ backlog'[t] = backlog[t]
            /\ written'[t] = written[t] /\ gap'[t] = gap[t] /\ queue'[t] = queue[t]
            /\ st'[t] = st[t] /\ rx'[t] = rx[t] /\ notice'[t] = notice[t],
         s \in HttpSubs =>
            SentReached(s)' /\ RetainedReached(s)' /\ Opening(s)' /\ EndExplained(s)'
  PROVE  ReachInv'
<1>1. SkipReason'
  BY SkipOther DEF ReachInv
<1>2. \A t, p : Serving(p, t)' <=> Serving(p, t)
  BY DEF Serving, Unsent
<1>3. ASSUME NEW t \in HttpSubs, t # s
      PROVE  SentReached(t)' /\ RetainedReached(t)' /\ Opening(t)' /\ EndExplained(t)'
  <2>1. SentReached(t) /\ RetainedReached(t) /\ Opening(t) /\ EndExplained(t)
    BY DEF ReachInv
  <2>2. Reached(t)' = Reached(t)
    BY <1>3 DEF Reached
  <2> QED
    BY <1>2, <1>3, <2>1, <2>2 DEF SentReached, RetainedReached, Opening, EndExplained
<1> QED
  BY <1>1, <1>3 DEF ReachInv

(* A body that reaches no less than before keeps what is said of it. *)
LEMMA ReachKept ==
  ASSUME ReachInv, NEW s \in HttpSubs,
         UNCHANGED <<ring, sent, pc, event, guards, cur, cancelled>>,
         Reached(s) \subseteq Reached(s)',
         body[s] \in Running, asked'[s] = asked[s], st'[s] = st[s]
  PROVE  /\ SentReached(s)'
         /\ body[s] \notin {"request", "subscribed"} => RetainedReached(s)'
<1>1. \A p : Serving(p, s)' <=> Serving(p, s)
  BY DEF Serving, Unsent
<1>2. SentReached(s) /\ RetainedReached(s)
  BY DEF ReachInv
<1> QED
  BY <1>1, <1>2 DEF SentReached, RetainedReached

(* The request: subscribe_events, and then events_after. *)
LEMMA ReachOpen ==
  ASSUME BInv, LineInv, ReachInv, NEW s \in HttpSubs, NEW q \in Queries, Open(s, q),
         cancelled' = cancelled
  PROVE  ReachInv'
<1>1. /\ s \in Subs /\ HttpSubs \subseteq Subs /\ st \in [Subs -> {"new", "active", "removed"}]
      /\ body \in [HttpSubs -> Running \cup {"refused", "closing", "leaving", "released", "closed"}]
      /\ asked \in [HttpSubs -> BOOLEAN] /\ backlog \in [HttpSubs -> Seq(Event)]
  BY HttpAssumption DEF BInv, CInv, TInv, TypeOK, LineInv, BodyTypeOK
<1>2. SentReached(s) /\ RetainedReached(s) /\ Opening(s) /\ EndExplained(s)
  BY DEF ReachInv
<1>3. CASE body[s] = "request"
  <2>1. /\ Asks(s, q) /\ Subscribe(s) /\ UNCHANGED <<backlog, replayed, written, gap>>
        /\ body' = [body EXCEPT ![s] = IF q.replay THEN "subscribed" ELSE "unpolled"]
        /\ asked' = [asked EXCEPT ![s] = q.replay]
    BY <1>3 DEF Open, Goto
  <2>2. /\ UNCHANGED <<ring, sent, pc, event, guards, cur, queue, rx, notice>>
        /\ st' = [st EXCEPT ![s] = "active"]
    BY <2>1 DEF Subscribe, replayVars, pubVars
  <2>3. body'[s] \in {"subscribed", "unpolled"} /\ asked'[s] = q.replay /\ st'[s] = "active"
    BY <1>1, <2>1, <2>2
  <2>4. body'[s] = "unpolled" => ~asked'[s]
    BY <1>1, <2>1, <2>3
  <2>5. Reached(s)' = Reached(s)
    BY <2>1, <2>2 DEF Reached
  <2>6. SentReached(s)'
    BY <1>2, <1>3, <2>2, <2>5 DEF SentReached, Running
  <2>7. RetainedReached(s)'
    BY <2>3, <2>4 DEF RetainedReached
  <2>8. Opening(s)'
    <3>1. q.replay => ReplayOf[s] # {}
      BY <2>1 DEF Asks, Refused
    <3>2. q.replay \in BOOLEAN
      BY DEF Queries
    <3>3. body'[s] = "subscribed" => q.replay
      BY <1>1, <2>1
    <3> QED
      BY <1>2, <1>3, <2>1, <2>3, <3>1, <3>3 DEF Opening
  <2>9. EndExplained(s)'
    BY <1>2, <1>3, <2>2, <2>3 DEF EndExplained, Running
  <2> QED
    BY <1>1, <2>1, <2>2, <2>6, <2>7, <2>8, <2>9, ReachAt
<1>4. CASE body[s] # "request"
  <2>1. /\ body[s] = "subscribed" /\ UNCHANGED vars /\ UNCHANGED <<asked, replayed, written, gap>>
        /\ body' = [body EXCEPT ![s] = "unpolled"]
        /\ \E str \in ReplayOf[s] : backlog' = [backlog EXCEPT ![s] = EventsAfter(str, 0)]
    BY <1>4 DEF Open, Goto
  <2>2. UNCHANGED <<ring, sent, pc, event, guards, cur, queue, rx, notice, st>>
    BY <2>1 DEF vars
  <2>3. PICK str \in Streams : ReplayOf[s] = {str} /\ Topic[s] \subseteq {str}
    BY <1>2, <2>1, HttpAssumption DEF Opening
  <2>4. backlog'[s] = ring[str]
    <3>1. backlog'[s] = EventsAfter(str, 0)
      BY <1>1, <2>1, <2>3
    <3> QED
      BY <2>3, <3>1, WholeRing
  <2>5. backlog[s] = <<>> /\ body'[s] = "unpolled"
    BY <1>1, <1>2, <2>1 DEF Opening
  <2>6. Reached(s) \subseteq Reached(s)' /\ Range(ring[str]) \subseteq Reached(s)'
    BY <2>1, <2>2, <2>4, <2>5, EmptyRange DEF Reached
  <2>7. SentReached(s)'
    BY <1>2, <2>1, <2>2, <2>6 DEF SentReached, Running
  <2>8. RetainedReached(s)'
    BY <2>2, <2>3, <2>6 DEF RetainedReached
  <2>9. Opening(s)'
    BY <2>3, <2>5 DEF Opening
  <2>10. EndExplained(s)'
    BY <1>2, <2>1, <2>2, <2>5 DEF EndExplained, Running
  <2> QED
    BY <1>1, <2>1, <2>2, <2>7, <2>8, <2>9, <2>10, ReachAt
<1> QED
  BY <1>3, <1>4

(* A replayed line goes from the backlog to the lines. *)
LEMMA ReachReplay ==
  ASSUME BInv, LineInv, ReachInv, NEW s \in HttpSubs, Replay(s), cancelled' = cancelled
  PROVE  ReachInv'
<1>1. /\ HttpSubs \subseteq Subs /\ backlog \in [HttpSubs -> Seq(Event)]
      /\ written \in [HttpSubs -> Seq(Event)]
  BY HttpAssumption DEF LineInv, BodyTypeOK
<1>2. SentReached(s) /\ RetainedReached(s) /\ Opening(s) /\ EndExplained(s)
  BY DEF ReachInv
<1>3. /\ body[s] = "replay" /\ backlog[s] # <<>>
      /\ UNCHANGED vars /\ UNCHANGED <<body, asked, gap>>
      /\ backlog' = [backlog EXCEPT ![s] = Tail(backlog[s])]
      /\ written' = [written EXCEPT ![s] = Append(written[s], Head(backlog[s]))]
  BY DEF Replay, WriteLine
<1>4. UNCHANGED <<ring, sent, pc, event, guards, cur, queue, rx, notice, st>>
  BY <1>3 DEF vars
<1>5. backlog'[s] = Tail(backlog[s]) /\ written'[s] = Append(written[s], Head(backlog[s]))
  BY <1>1, <1>3
<1>6. Reached(s) \subseteq Reached(s)'
  <2>1. /\ Head(backlog[s]) \in Event
        /\ Range(backlog[s]) = Range(Tail(backlog[s])) \cup {Head(backlog[s])}
    BY <1>1, <1>3, TailRange
  <2>2. Range(written'[s]) = Range(written[s]) \cup {Head(backlog[s])}
    BY <1>1, <1>5, <2>1, AppendRange
  <2> QED
    BY <1>4, <1>5, <2>1, <2>2 DEF Reached
<1>7. SentReached(s)' /\ RetainedReached(s)'
  BY <1>3, <1>4, <1>6, ReachKept DEF Running
<1>8. Opening(s)' /\ EndExplained(s)'
  BY <1>2, <1>3, <1>4 DEF Opening, EndExplained
<1> QED
  BY <1>1, <1>3, <1>4, <1>7, <1>8, ReachAt

(* A queued envelope is written, or an equal line was replayed before. *)
LEMMA ReachRecv ==
  ASSUME BInv, LineInv, ReachInv, NEW s \in HttpSubs, PollQueue(s), Recv(s),
         cancelled' = cancelled
  PROVE  ReachInv'
<1> DEFINE e == Head(queue[s])
<1>1. /\ s \in Subs /\ HttpSubs \subseteq Subs /\ queue \in [Subs -> Seq(Event)]
      /\ body \in [HttpSubs -> Running \cup {"refused", "closing", "leaving", "released", "closed"}]
      /\ written \in [HttpSubs -> Seq(Event)]
  BY HttpAssumption DEF BInv, CInv, TInv, TypeOK, LineInv, BodyTypeOK
<1>2. SentReached(s) /\ RetainedReached(s) /\ Opening(s) /\ EndExplained(s)
  BY DEF ReachInv
<1>3. /\ queue[s] # <<>> /\ queue' = [queue EXCEPT ![s] = Tail(queue[s])]
      /\ UNCHANGED <<ring, sent, pc, event, guards, cur, rx, notice, st>>
  BY DEF Recv, replayVars, pubVars
<1>4. /\ body[s] = "polling" /\ body' = [body EXCEPT ![s] = "select"]
      /\ UNCHANGED <<asked, backlog, gap>>
      /\ \/ EventId(e) \in replayed[s] /\ written' = written
         \/ written' = [written EXCEPT ![s] = Append(written[s], e)]
  <2>1. ~(RecvNone(s) \/ queue[s] = <<>>)
    BY <1>3 DEF RecvNone
  <2> QED
    BY <2>1 DEF PollQueue, Goto, WriteLine
<1>5. /\ e \in Event /\ Range(queue[s]) = Range(queue'[s]) \cup {e}
  BY <1>1, <1>3, TailRange
<1>6. Range(written[s]) \cup {e} \subseteq Range(written'[s])
  <2>1. CASE EventId(e) \in replayed[s] /\ written' = written
    <3>1. PICK x \in Range(written[s]) : EventId(x) = EventId(e)
      BY <2>1 DEF LineInv, ReplayedOnce
    <3>2. Known(x) /\ Known(e)
      BY <1>1, <1>5, <3>1 DEF Known
    <3>3. x = e
      BY <3>1, <3>2 DEF LineInv, Minted
    <3> QED
      BY <2>1, <3>1, <3>3
  <2>2. CASE written' = [written EXCEPT ![s] = Append(written[s], e)]
    <3>1. written'[s] = Append(written[s], e)
      BY <1>1, <2>2
    <3> QED
      BY <1>1, <1>5, <3>1, AppendRange
  <2> QED
    BY <1>4, <2>1, <2>2
<1>7. Reached(s) \subseteq Reached(s)'
  BY <1>4, <1>5, <1>6 DEF Reached
<1>8. SentReached(s)' /\ RetainedReached(s)'
  BY <1>3, <1>4, <1>7, ReachKept DEF Running
<1>9. body'[s] = "select"
  BY <1>1, <1>4
<1>10. Opening(s)' /\ EndExplained(s)'
  BY <1>2, <1>3, <1>4, <1>9 DEF Opening, EndExplained, Running
<1>11. \A t \in HttpSubs : t # s => /\ written'[t] = written[t] /\ body'[t] = body[t]
                                    /\ queue'[t] = queue[t]
  BY <1>1, <1>3, <1>4
<1> QED
  BY <1>1, <1>3, <1>4, <1>8, <1>10, <1>11, ReachAt

(* The steps of a body that write nothing: it goes on as it was, it comes   *)
(* to its end, or it stops.                                                 *)
LEMMA ReachOther ==
  ASSUME BInv, LineInv, ReachInv, NEW s \in HttpSubs, cancelled' = cancelled,
         \/ \E q \in Queries : Refuse(s, q)
         \/ Start(s) \/ ReplayDone(s) \/ PollNotice(s) \/ (PollQueue(s) /\ ~Recv(s))
         \/ ClientGone(s) \/ Release(s) \/ DropBody(s)
  PROVE  ReachInv'
<1>1. /\ s \in Subs /\ HttpSubs \subseteq Subs /\ queue \in [Subs -> Seq(Event)]
      /\ st \in [Subs -> {"new", "active", "removed"}] /\ rx \in [Subs -> {"open", "ended", "dropped"}]
      /\ body \in [HttpSubs -> Running \cup {"refused", "closing", "leaving", "released", "closed"}]
      /\ gap \in [HttpSubs -> BOOLEAN]
  BY HttpAssumption DEF BInv, CInv, TInv, TypeOK, LineInv, BodyTypeOK
<1>2. SentReached(s) /\ RetainedReached(s) /\ Opening(s) /\ EndExplained(s)
  BY DEF ReachInv
<1>3. UNCHANGED <<asked, backlog, written>>
  BY DEF Refuse, Start, ReplayDone, PollNotice, PollQueue, ClientGone, Release, DropBody
<1>4. /\ UNCHANGED <<ring, sent, pc, event, guards, cur, notice>>
      /\ \A t \in Subs : rx'[t] = "open" => rx[t] = "open"
      /\ \A t \in Subs : t # s => queue'[t] = queue[t] /\ st'[t] = st[t] /\ rx'[t] = rx[t]
  <2>1. CASE UNCHANGED vars
    BY <2>1 DEF vars
  <2>2. CASE RecvNone(s) \/ Unsubscribe(s) \/ DropReceiver(s)
    BY <1>1, <2>2 DEF RecvNone, Unsubscribe, DropReceiver, replayVars, pubVars
  <2> QED
    BY <2>1, <2>2 DEF Refuse, Start, ReplayDone, PollNotice, PollQueue, ClientGone, Release,
         DropBody
<1>5. \A t \in HttpSubs : t # s => body'[t] = body[t] /\ gap'[t] = gap[t]
  BY <1>1 DEF Refuse, Start, ReplayDone, PollNotice, PollQueue, ClientGone, Release, DropBody, Goto
<1>6. ASSUME body'[s] \notin Running, body'[s] # "closing"
      PROVE  SentReached(s)' /\ RetainedReached(s)' /\ Opening(s)' /\ EndExplained(s)'
  BY <1>2, <1>3, <1>6 DEF SentReached, RetainedReached, Opening, EndExplained, Running
<1>7. ASSUME body[s] \in Running \ {"request", "subscribed"},
             body'[s] \in Running \ {"request", "subscribed"}, UNCHANGED vars
      PROVE  SentReached(s)' /\ RetainedReached(s)' /\ Opening(s)' /\ EndExplained(s)'
  <2>1. UNCHANGED <<queue, st, rx, notice>>
    BY <1>7 DEF vars
  <2>2. Reached(s)' = Reached(s)
    BY <1>3, <2>1 DEF Reached
  <2>3. SentReached(s)' /\ RetainedReached(s)'
    BY <1>3, <1>4, <1>7, <2>1, <2>2, ReachKept
  <2>4. Opening(s)' /\ EndExplained(s)'
    BY <1>2, <1>3, <1>7, <2>1 DEF Opening, EndExplained, Running
  <2> QED
    BY <2>3, <2>4
<1>8. ASSUME body'[s] = "closing",
             gap'[s] \/ Policy[s] # "disconnect" \/ (rx'[s] # "open" /\ Range(sent[s]) \subseteq Range(written[s]))
      PROVE  SentReached(s)' /\ RetainedReached(s)' /\ Opening(s)' /\ EndExplained(s)'
  BY <1>2, <1>3, <1>4, <1>8 DEF SentReached, RetainedReached, Opening, EndExplained, Running
<1>9. SentReached(s)' /\ RetainedReached(s)' /\ Opening(s)' /\ EndExplained(s)'
  <2>1. CASE (\E q \in Queries : Refuse(s, q)) \/ ClientGone(s) \/ Release(s) \/ DropBody(s)
    <3>1. body'[s] \in {"refused", "released", "leaving", "closed"}
      BY <1>1, <2>1 DEF Refuse, ClientGone, Release, DropBody, Goto
    <3> QED
      BY <1>6, <3>1 DEF Running
  <2>2. CASE Start(s) \/ ReplayDone(s)
    <3>1. body[s] \in {"unpolled", "replay"} /\ body'[s] \in {"replay", "select"} /\ UNCHANGED vars
      BY <1>1, <2>2 DEF Start, ReplayDone, Goto
    <3> QED
      BY <1>7, <3>1 DEF Running
  <2>3. CASE PollNotice(s)
    <3>1. /\ body[s] = "select" /\ UNCHANGED vars /\ gap'[s] = (notice[s] # <<>>)
          /\ body'[s] = IF Terminated(s) THEN "closing" ELSE "polling"
      BY <1>1, <2>3 DEF PollNotice, Goto
    <3>2. CASE Terminated(s)
      <4>1. Policy[s] = "disconnect" => notice[s] # <<>>
        BY <1>2, <3>1, <3>2 DEF Terminated, EndExplained, Running
      <4> QED
        BY <1>8, <3>1, <3>2, <4>1
    <3>3. CASE ~Terminated(s)
      BY <1>7, <3>1, <3>3 DEF Running
    <3> QED
      BY <3>2, <3>3
  <2>4. CASE PollQueue(s) /\ ~Recv(s)
    <3>1. body[s] = "polling" /\ backlog[s] = <<>>
      BY <2>4 DEF PollQueue, LineInv, ReplayedOnce
    <3>2. CASE RecvNone(s) /\ Goto(s, "closing")
      <4>1. queue[s] = <<>> /\ rx'[s] # "open" /\ body'[s] = "closing"
        BY <1>1, <3>2 DEF RecvNone, Goto
      <4>2. Reached(s) = Range(written[s])
        BY <3>1, <4>1, EmptyRange DEF Reached
      <4>3. Policy[s] = "disconnect" => Range(sent[s]) \subseteq Range(written[s])
        BY <1>2, <3>1, <4>2 DEF SentReached, Running
      <4> QED
        BY <1>8, <4>1, <4>3
    <3>3. CASE UNCHANGED vars /\ Goto(s, "select")
      BY <1>1, <1>7, <3>1, <3>3 DEF Goto, Running
    <3> QED
      BY <2>4, <3>2, <3>3 DEF PollQueue
  <2> QED
    BY <2>1, <2>2, <2>3, <2>4
<1> QED
  BY <1>1, <1>3, <1>4, <1>5, <1>9, ReachAt

(* Steps of the bus's other consumers, and a new envelope. *)
LEMMA ReachBus ==
  ASSUME BInv, ReachInv, UNCHANGED bodyVars, cancelled' = cancelled,
         \/ \E c \in Subs \ HttpSubs : ConsumerStep(c)
         \/ \E p \in Publishers, str \in Streams, k \in Keys \cup {NoKey} : PublishEnvelope(p, str, k)
  PROVE  ReachInv'
<1>1. /\ HttpSubs \subseteq Subs /\ queue \in [Subs -> Seq(Event)]
      /\ st \in [Subs -> {"new", "active", "removed"}] /\ rx \in [Subs -> {"open", "ended", "dropped"}]
      /\ pc \in [Publishers -> PcStates] /\ event \in [Publishers -> Event \cup {NoEvent}]
  BY HttpAssumption DEF BInv, CInv, TInv, TypeOK
<1>2. UNCHANGED <<body, asked, backlog, written, gap>>
  BY DEF bodyVars
<1>3. ASSUME NEW c \in Subs \ HttpSubs, ConsumerStep(c) PROVE ReachInv'
  <2>1. UNCHANGED <<ring, sent, pc, event, guards, cur, notice>>
    BY <1>3 DEF ConsumerStep, Subscribe, Unsubscribe, Recv, RecvNone, DropReceiver, replayVars, pubVars
  <2>2. \A t \in Subs : rx'[t] = "open" => rx[t] = "open"
    BY <1>1, <1>3 DEF ConsumerStep, Subscribe, Unsubscribe, Recv, RecvNone, DropReceiver
  <2>3. \A t \in HttpSubs : queue'[t] = queue[t] /\ st'[t] = st[t] /\ rx'[t] = rx[t]
    BY <1>1, <1>3 DEF ConsumerStep, Subscribe, Unsubscribe, Recv, RecvNone, DropReceiver
  <2> QED
    BY <1>2, <1>3, <2>1, <2>2, <2>3, ReachAt
<1>4. ASSUME NEW p \in Publishers, NEW str \in Streams, NEW k \in Keys \cup {NoKey},
             PublishEnvelope(p, str, k)
      PROVE  ReachInv'
  <2>1. /\ UNCHANGED <<ring, sent, queue, st, rx, notice, guards, cur>>
        /\ pc[p] = "idle" /\ pc'[p] = "allocated"
        /\ \A r \in Publishers : r # p => pc'[r] = pc[r] /\ event'[r] = event[r]
    BY <1>1, <1>4 DEF PublishEnvelope, subVars
  <2>2. guards[p] = {}
    BY <2>1 DEF BInv, CInv, GuardsInLoop
  <2>3. SkipReason'
    BY <2>1, SkipOther DEF ReachInv
  <2>4. \A r \in Publishers : \A s : Serving(r, s) => event'[r] = event[r] /\ Serving(r, s)'
    BY <2>1, <2>2 DEF Serving, Unsent
  <2>5. ASSUME NEW s \in HttpSubs
        PROVE  SentReached(s)' /\ RetainedReached(s)' /\ Opening(s)' /\ EndExplained(s)'
    <3>1. SentReached(s) /\ RetainedReached(s) /\ Opening(s) /\ EndExplained(s)
      BY DEF ReachInv
    <3>2. Reached(s)' = Reached(s)
      BY <1>2, <2>1 DEF Reached
    <3>3. SentReached(s)' /\ Opening(s)' /\ EndExplained(s)'
      BY <1>2, <2>1, <3>1, <3>2 DEF SentReached, Opening, EndExplained
    <3>4. RetainedReached(s)'
      BY <1>2, <2>1, <2>4, <3>1, <3>2 DEF RetainedReached
    <3> QED
      BY <3>3, <3>4
  <2> QED
    BY <2>3, <2>5 DEF ReachInv
<1> QED
  BY <1>3, <1>4

(* ReachInv is inductive relative to the invariants of the bus and to       *)
(* LineInv.                                                                 *)
LEMMA ReachStep == BInv /\ LineInv /\ ReachInv /\ [StreamNext]_allVars => ReachInv'
<1> SUFFICES ASSUME BInv, LineInv, ReachInv, [StreamNext]_allVars PROVE ReachInv'
  OBVIOUS
<1>1. ASSUME NEW s \in HttpSubs, BodyStep(s), cancelled' = cancelled PROVE ReachInv'
  <2>1. CASE \E q \in Queries : Open(s, q)
    BY <1>1, <2>1, ReachOpen
  <2>2. CASE Replay(s)
    BY <1>1, <2>2, ReachReplay
  <2>3. CASE PollQueue(s) /\ Recv(s)
    BY <1>1, <2>3, ReachRecv
  <2> QED
    BY <1>1, <2>1, <2>2, <2>3, ReachOther DEF BodyStep
<1>2. CASE BusStep /\ UNCHANGED <<bodyVars, cancelled>>
  BY <1>2, ReachBus, ReachPublisher DEF BusStep
<1>3. ASSUME NEW p \in Publishers, CancelPublish(p), UNCHANGED bodyVars PROVE ReachInv'
  BY <1>3, ReachPublisher
<1>4. CASE UNCHANGED allVars
  <2>1. /\ UNCHANGED <<ring, sent, pc, event, guards, cur, cancelled, queue, st, rx, notice>>
        /\ UNCHANGED <<body, asked, backlog, written, gap>>
    BY <1>4 DEF allVars, vars, bodyVars
  <2>2. NoSub \notin HttpSubs
    BY BusAssumption, HttpAssumption
  <2> QED
    BY <2>1, <2>2, ReachAt
<1> QED
  BY <1>1, <1>2, <1>3, <1>4 DEF StreamNext

(* Nothing is sent, retained or skipped to begin with. *)
LEMMA ReachInit == StreamInit => ReachInv
<1> SUFFICES ASSUME StreamInit PROVE ReachInv
  OBVIOUS
<1>1. HttpSubs \subseteq Subs /\ Init
  BY HttpAssumption DEF StreamInit
<1>2. /\ \A s \in Subs : sent[s] = <<>> /\ st[s] = "new" /\ rx[s] = "open"
      /\ \A p \in Publishers : pc[p] = "idle"
      /\ \A s \in HttpSubs : body[s] = "request" /\ backlog[s] = <<>> /\ ~asked[s]
  BY <1>1 DEF Init, StreamInit
<1>3. SkipReason
  BY <1>2 DEF SkipReason
<1>4. \A s \in HttpSubs : SentReached(s) /\ RetainedReached(s) /\ Opening(s) /\ EndExplained(s)
  BY <1>1, <1>2, EmptyRange DEF SentReached, RetainedReached, Opening, EndExplained
<1> QED
  BY <1>3, <1>4 DEF ReachInv

(* No envelope falls between replay and the live stream of a Disconnect     *)
(* subscription, however publications interleave with subscribe_events and  *)
(* events_after, unless its publish future was dropped in the wait for      *)
(* another subscription.                                                    *)
THEOREM ReplayMeetsLive == StreamSpec => []NothingMissed
<1>1. BInv /\ ReachInv => NothingMissed
  <2> SUFFICES ASSUME BInv, ReachInv, NEW s \in HttpSubs,
                      body[s] \in {"unpolled", "replay", "select", "polling"},
                      st[s] = "active", Policy[s] = "disconnect", asked[s]
               PROVE  Settled(s) \cup Range(sent[s]) \subseteq Reached(s)
    BY DEF NothingMissed
  <2>1. SentReached(s) /\ RetainedReached(s)
    BY DEF ReachInv
  <2>2. Range(sent[s]) \subseteq Reached(s)
    BY <2>1 DEF SentReached, Running
  <2>3. \A str \in Topic[s] : \A x \in Range(ring[str]) :
          \/ x \in Reached(s) \cup cancelled
          \/ \E p \in Publishers : event[p] = x
    BY <2>1 DEF RetainedReached, Running
  <2>4. ASSUME NEW x \in Settled(s) PROVE x \in Reached(s)
    <3>1. PICK str \in Topic[s] : x \in Range(ring[str])
      BY DEF Settled
    <3>2. x \notin cancelled /\ \A p \in Publishers : event[p] # x
      BY DEF Settled
    <3> QED
      BY <2>3, <3>1, <3>2
  <2> QED
    BY <2>2, <2>4
<1> QED
  BY <1>1, LineInit, LineStep, BusStepKept, ReachInit, ReachStep, PTL DEF StreamSpec

(* A Disconnect response that ends by itself with no stream-gap line has    *)
(* written everything the bus accepted into its queue: the body leaves its  *)
(* loop on a fired notice, which it announces, or at the end of the queue.  *)
(* It does not say that an overflow is always announced, which is false.    *)
THEOREM AcceptedWritten == StreamSpec => []AcceptedIsWritten
<1>1. ReachInv => AcceptedIsWritten
  BY DEF ReachInv, EndExplained, AcceptedIsWritten
<1> QED
  BY <1>1, LineInit, LineStep, BusStepKept, ReachInit, ReachStep, PTL DEF StreamSpec
=============================================================================
