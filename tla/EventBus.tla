------------------------------ MODULE EventBus ------------------------------
(***************************************************************************)
(* The event bus (events/bus.rs, and the queue of events/coalesce.rs):     *)
(* subscriptions with a quota, a bounded queue and a slow-consumer policy, *)
(* and publishers that run concurrently.                                   *)
(*                                                                         *)
(* Publishers are tasks inside `publish` (AsyncPublishers) or inside the   *)
(* synchronous `try_publish` (SyncPublishers).  `publish` takes the bus    *)
(* lock once to claim a slot on every matching subscription and once more  *)
(* per match to commit what the send came to; the send itself, and a       *)
(* Backpressure wait, happen between the two with the lock released.  A    *)
(* publish future dropped in that wait refunds its claims one lock         *)
(* acquisition at a time (ClaimGuard).  Each step below is one such        *)
(* critical section.                                                       *)
(*                                                                         *)
(* A topic pattern is the set of streams it matches.  The iteration order  *)
(* of the subscription map is unspecified, so a publisher serves its       *)
(* matches in any order.  Subscription ids are never reused.               *)
(***************************************************************************)
EXTENDS StreamReplay

CONSTANTS Subs, AsyncPublishers, SyncPublishers,
          Topic,       \* Topic[s]: the streams s subscribes to
          Policy,      \* Policy[s]: slow_consumer_policy
          Limit,       \* Limit[s]: opts.limit, NoLimit for None
          OutCap,      \* OutCap[s]: capacity of the outbound queue
          NoEvent,     \* no envelope (Option::None)
          NoSub,       \* no subscription
          MaxSeq       \* bound: envelopes allocated per stream

NoLimit == -1
Publishers == AsyncPublishers \cup SyncPublishers
Policies == {"disconnect", "backpressure", "drop_newest", "coalesce"}

ASSUME BusAssumption ==
  /\ AsyncPublishers \cap SyncPublishers = {}
  /\ IsFiniteSet(Publishers)
  /\ Topic \in [Subs -> SUBSET Streams]
  /\ Policy \in [Subs -> Policies]
  /\ Limit \in [Subs -> Nat \cup {NoLimit}]
  /\ OutCap \in [Subs -> Nat \ {0}]
  /\ NoSub \notin Subs
  /\ NoEvent \notin Event
  /\ MaxSeq \in Nat

VARIABLES
  st,             \* st[s]: not yet subscribed, in the subscription map, or removed
  remaining,      \* remaining[s]: quota left, NoLimit for None
  inFlight,       \* inFlight[s]: claims not yet committed or refunded
  lastDelivered,  \* lastDelivered[s]
  notice,         \* notice[s]: what slow_consumer_notify was fired with, if it was
  queue,          \* queue[s]: the outbound queue
  rx,             \* rx[s]: the receiver: open, has seen the end, or dropped
  sent,           \* sent[s]: history of the envelopes that took a queue slot
  pc,             \* pc[p]: where the publisher is
  event,          \* event[p]: the envelope it publishes
  evicted,        \* evicted[p]: ids its record() evicted and evict() must prune
  matches,        \* matches[p]: subscriptions whose sender clone it holds
  guards,         \* guards[p]: subscriptions with an active ClaimGuard
  cur             \* cur[p]: the match it is serving

subVars == <<st, remaining, inFlight, lastDelivered, notice, queue, rx, sent>>
pubVars == <<pc, event, evicted, matches, guards, cur>>
vars == <<nextSequence, byEventId, ring, st, remaining, inFlight, lastDelivered, notice,
          queue, rx, sent, pc, event, evicted, matches, guards, cur>>

Outcomes == {"delivered", "dropped", "disconnect", "closed"}
PcStates == {"idle", "allocated", "recorded", "fanout", "loop", "blocked", "cancelled"}
              \cup Outcomes

TypeOK ==
  /\ ReplayTypeOK
  /\ st \in [Subs -> {"new", "active", "removed"}]
  /\ remaining \in [Subs -> Nat \cup {NoLimit}]
  /\ inFlight \in [Subs -> Nat]
  /\ lastDelivered \in [Subs -> Event \cup {NoEvent}]
  /\ notice \in [Subs -> Seq(Event \cup {NoEvent})]
  /\ queue \in [Subs -> Seq(Event)]
  /\ rx \in [Subs -> {"open", "ended", "dropped"}]
  /\ sent \in [Subs -> Seq(Event)]
  /\ pc \in [Publishers -> PcStates]
  /\ event \in [Publishers -> Event \cup {NoEvent}]
  /\ evicted \in [Publishers -> SUBSET (Streams \X (Nat \ {0}))]
  /\ matches \in [Publishers -> SUBSET Subs]
  /\ guards \in [Publishers -> SUBSET Subs]
  /\ cur \in [Publishers -> Subs \cup {NoSub}]

Init ==
  /\ ReplayInit
  /\ st = [s \in Subs |-> "new"]
  /\ remaining = Limit
  /\ inFlight = [s \in Subs |-> 0]
  /\ lastDelivered = [s \in Subs |-> NoEvent]
  /\ notice = [s \in Subs |-> <<>>]
  /\ queue = [s \in Subs |-> <<>>]
  /\ rx = [s \in Subs |-> "open"]
  /\ sent = [s \in Subs |-> <<>>]
  /\ pc = [p \in Publishers |-> "idle"]
  /\ event = [p \in Publishers |-> NoEvent]
  /\ evicted = [p \in Publishers |-> {}]
  /\ matches = [p \in Publishers |-> {}]
  /\ guards = [p \in Publishers |-> {}]
  /\ cur = [p \in Publishers |-> NoSub]

-----------------------------------------------------------------------------
(* Counter arithmetic: saturating_sub(1) and `+= 1`; an unlimited           *)
(* subscription has no quota counter to change.                            *)
DecUnlimited(r) == r - 1   \* faulty: charges an unlimited subscription
Dec(r) == IF r > 0 THEN r - 1 ELSE r
Inc(r) == IF r >= 0 THEN r + 1 ELSE r

(* tokio's bounded mpsc: a permit that frees up while senders wait is      *)
(* assigned to a waiter, so a try_send succeeds only beyond the waiters.   *)
Waiters(s) == {p \in Publishers : pc[p] = "blocked" /\ cur[p] = s}
HasRoom(s) == Len(queue[s]) + Cardinality(Waiters(s)) < OutCap[s]

(* The notice disconnect_slow_consumer and the disconnect commit send. *)
SlowNotice(s) == <<lastDelivered[s]>>

Matching(e) == {s \in Subs : st[s] = "active" /\ e.stream \in Topic[s]}

(* CoalesceState::push, by outcome. *)
Coalescing(e) == {s \in Matching(e) : Policy[s] = "coalesce"}
SameKey(q, e) == {i \in DOMAIN q : e.key # NoKey /\ q[i].key = e.key}
ReceiverGone(e) == {s \in Coalescing(e) : rx[s] # "open"}
Replaced(e) == {s \in Coalescing(e) \ ReceiverGone(e) : SameKey(queue[s], e) # {}}
Pushed(e) == {s \in Coalescing(e) \ (ReceiverGone(e) \cup Replaced(e)) :
                Len(queue[s]) < OutCap[s]}
ReplaceSlot(q, e) ==
  [i \in DOMAIN q |->
     IF i \in SameKey(q, e) /\ \A j \in SameKey(q, e) : i <= j THEN e ELSE q[i]]

(* What one pass over the subscription map does under the bus lock: the    *)
(* coalescing matches are pushed inline, the subscriptions in `deliver`    *)
(* are sent the envelope, those in `claim` lose a slot to a claim, and     *)
(* `drop`, dead receivers and exhausted quotas go into to_remove.          *)
FanOut(e, deliver, claim, drop) ==
  LET took == deliver \cup Pushed(e)
  IN /\ queue' = [s \in Subs |-> IF s \in took THEN Append(queue[s], e)
                                 ELSE IF s \in Replaced(e) THEN ReplaceSlot(queue[s], e)
                                 ELSE queue[s]]
     /\ sent' = [s \in Subs |-> IF s \in took THEN Append(sent[s], e) ELSE sent[s]]
     /\ lastDelivered' = [s \in Subs |-> IF s \in took THEN e ELSE lastDelivered[s]]
     /\ remaining' = [s \in Subs |-> IF s \in took \cup claim THEN Dec(remaining[s])
                                     ELSE remaining[s]]
     /\ st' = [s \in Subs |-> IF \/ s \in drop \cup ReceiverGone(e)
                                 \/ s \in took /\ Dec(remaining[s]) = 0
                              THEN "removed" ELSE st[s]]

-----------------------------------------------------------------------------
(* EventBus::subscribe and unsubscribe. *)
Subscribe(s) ==
  /\ st[s] = "new"
  /\ st' = [st EXCEPT ![s] = "active"]
  /\ UNCHANGED <<replayVars, remaining, inFlight, lastDelivered, notice, queue, rx, sent, pubVars>>

Unsubscribe(s) ==
  /\ st[s] = "active"
  /\ st' = [st EXCEPT ![s] = "removed"]
  /\ UNCHANGED <<replayVars, remaining, inFlight, lastDelivered, notice, queue, rx, sent, pubVars>>

(* SubscriptionRx: recv takes the oldest envelope; it returns None once    *)
(* the queue is empty, the entry is gone and no publisher holds a sender   *)
(* clone; dropping the receiver discards what is queued.                   *)
Recv(s) ==
  /\ st[s] # "new" /\ rx[s] = "open" /\ queue[s] # <<>>
  /\ queue' = [queue EXCEPT ![s] = Tail(@)]
  /\ UNCHANGED <<replayVars, st, remaining, inFlight, lastDelivered, notice, rx, sent, pubVars>>

RecvNone(s) ==
  /\ st[s] = "removed" /\ rx[s] = "open" /\ queue[s] = <<>>
  /\ \A p \in Publishers : s \notin matches[p]
  /\ rx' = [rx EXCEPT ![s] = "ended"]
  /\ UNCHANGED <<replayVars, st, remaining, inFlight, lastDelivered, notice, queue, sent, pubVars>>

DropReceiver(s) ==
  /\ st[s] # "new" /\ rx[s] = "open"
  /\ rx' = [rx EXCEPT ![s] = "dropped"]
  /\ queue' = [queue EXCEPT ![s] = <<>>]
  /\ UNCHANGED <<replayVars, st, remaining, inFlight, lastDelivered, notice, sent, pubVars>>

-----------------------------------------------------------------------------
(* publish_envelope mints the envelope; publish and try_publish start the  *)
(* same way: reject an oversized one, or record it and prune the index.    *)
PublishEnvelope(p, str, k) ==
  /\ pc[p] = "idle" /\ nextSequence[str] <= MaxSeq
  /\ Allocate(str, k)
  /\ event' = [event EXCEPT ![p] = Allocated(str, k)]
  /\ pc' = [pc EXCEPT ![p] = "allocated"]
  /\ UNCHANGED <<ring, subVars, evicted, matches, guards, cur>>

RejectTooLarge(p) ==
  /\ pc[p] = "allocated"
  /\ Evict({EventId(event[p])})
  /\ pc' = [pc EXCEPT ![p] = "idle"]
  /\ event' = [event EXCEPT ![p] = NoEvent]
  /\ UNCHANGED <<nextSequence, ring, subVars, evicted, matches, guards, cur>>

RecordEnvelope(p) ==
  /\ pc[p] = "allocated"
  /\ Record(event[p])
  /\ evicted' = [evicted EXCEPT ![p] = EvictedBy(event[p])]
  /\ pc' = [pc EXCEPT ![p] = "recorded"]
  /\ UNCHANGED <<nextSequence, byEventId, subVars, event, matches, guards, cur>>

PruneIndex(p) ==
  /\ pc[p] = "recorded"
  /\ Evict(evicted[p])
  /\ evicted' = [evicted EXCEPT ![p] = {}]
  /\ pc' = [pc EXCEPT ![p] = "fanout"]
  /\ UNCHANGED <<nextSequence, ring, subVars, event, matches, guards, cur>>

(* try_publish: one pass under the lock, sending as it goes. *)
TryPublish(p) ==
  LET e      == event[p]
      mpsc   == Matching(e) \ Coalescing(e)
      closed == {s \in mpsc : rx[s] # "open"}
      room   == {s \in mpsc \ closed : HasRoom(s)}
      slow   == {s \in mpsc \ (closed \cup room) : Policy[s] = "disconnect"}
  IN /\ p \in SyncPublishers /\ pc[p] = "fanout"
     /\ FanOut(e, room, {}, closed \cup slow)
     /\ notice' = [s \in Subs |-> IF s \in slow /\ notice[s] = <<>>
                                  THEN SlowNotice(s) ELSE notice[s]]
     /\ pc' = [pc EXCEPT ![p] = "idle"]
     /\ event' = [event EXCEPT ![p] = NoEvent]
     /\ UNCHANGED <<replayVars, inFlight, rx, evicted, matches, guards, cur>>

(* publish, claim phase: coalescing matches are finished under the lock,   *)
(* every other match with quota left is claimed.                           *)
ClaimableAlways(e) == Matching(e) \ Coalescing(e)   \* faulty: no quota test
Claimable(e) == {s \in Matching(e) \ Coalescing(e) : remaining[s] # 0}

Claim(p) ==
  LET e       == event[p]
      claimed == Claimable(e)
  IN /\ p \in AsyncPublishers /\ pc[p] = "fanout"
     /\ FanOut(e, {}, claimed, {})
     /\ inFlight' = [s \in Subs |-> IF s \in claimed THEN inFlight[s] + 1 ELSE inFlight[s]]
     /\ matches' = [matches EXCEPT ![p] = claimed]
     /\ guards' = [guards EXCEPT ![p] = claimed]
     /\ pc' = [pc EXCEPT ![p] = "loop"]
     /\ UNCHANGED <<replayVars, notice, rx, event, evicted, cur>>

(* publish, send loop: the outcome of try_send, and of the send().await a  *)
(* Backpressure subscription falls back to.                                *)
Enqueue(p, s) ==
  /\ queue' = [queue EXCEPT ![s] = Append(@, event[p])]
  /\ sent' = [sent EXCEPT ![s] = Append(@, event[p])]

OverflowOutcome(s) == CASE Policy[s] = "backpressure" -> "blocked"
                       [] Policy[s] = "drop_newest" -> "dropped"
                       [] OTHER -> "disconnect"

TrySend(p, s) ==
  /\ pc[p] = "loop" /\ s \in guards[p]
  /\ cur' = [cur EXCEPT ![p] = s]
  /\ \/ /\ rx[s] # "open"
        /\ pc' = [pc EXCEPT ![p] = "closed"]
        /\ UNCHANGED <<queue, sent>>
     \/ /\ rx[s] = "open" /\ HasRoom(s)
        /\ pc' = [pc EXCEPT ![p] = "delivered"]
        /\ Enqueue(p, s)
     \/ /\ rx[s] = "open" /\ ~HasRoom(s)
        /\ pc' = [pc EXCEPT ![p] = OverflowOutcome(s)]
        /\ UNCHANGED <<queue, sent>>
  /\ UNCHANGED <<replayVars, st, remaining, inFlight, lastDelivered, notice, rx,
                 event, evicted, matches, guards>>

AwaitSendDeaf(p) ==   \* faulty: a closed channel does not wake the waiter
  /\ pc[p] = "blocked" /\ rx[cur[p]] = "open" /\ Len(queue[cur[p]]) < OutCap[cur[p]]
  /\ Enqueue(p, cur[p])
  /\ pc' = [pc EXCEPT ![p] = "delivered"]
  /\ UNCHANGED <<replayVars, st, remaining, inFlight, lastDelivered, notice, rx,
                 event, evicted, matches, guards, cur>>

AwaitSend(p) ==
  /\ pc[p] = "blocked"
  /\ LET s == cur[p]
     IN \/ /\ rx[s] = "open" /\ Len(queue[s]) < OutCap[s]
           /\ Enqueue(p, s)
           /\ pc' = [pc EXCEPT ![p] = "delivered"]
        \/ /\ rx[s] # "open"
           /\ pc' = [pc EXCEPT ![p] = "closed"]
           /\ UNCHANGED <<queue, sent>>
  /\ UNCHANGED <<replayVars, st, remaining, inFlight, lastDelivered, notice, rx,
                 event, evicted, matches, guards, cur>>

(* publish, commit: apply the outcome under the lock and disarm the guard. *)
(* The entry may have been removed by someone else since the claim.        *)
Disarm(p) ==
  /\ guards' = [guards EXCEPT ![p] = @ \ {cur[p]}]
  /\ cur' = [cur EXCEPT ![p] = NoSub]
  /\ pc' = [pc EXCEPT ![p] = "loop"]

ExhaustedLate(s) == remaining[s] = 0 /\ inFlight[s] = 0   \* faulty: counts itself
Exhausted(s) == remaining[s] = 0 /\ Dec(inFlight[s]) = 0

CommitDelivered(p) ==
  LET s == cur[p]
  IN /\ pc[p] = "delivered"
     /\ IF st[s] = "active"
        THEN /\ lastDelivered' = [lastDelivered EXCEPT ![s] = event[p]]
             /\ inFlight' = [inFlight EXCEPT ![s] = Dec(@)]
             /\ st' = IF Exhausted(s)
                      THEN [st EXCEPT ![s] = "removed"] ELSE st
        ELSE UNCHANGED <<lastDelivered, inFlight, st>>
     /\ Disarm(p)
     /\ UNCHANGED <<replayVars, remaining, notice, queue, rx, sent, event, evicted, matches>>

(* The refund of a dropped envelope and of a cancelled claim are the same. *)
RefundClaimOnly(s) ==   \* faulty: the slot is not given back
  IF st[s] = "active"
  THEN inFlight' = [inFlight EXCEPT ![s] = Dec(@)] /\ UNCHANGED remaining
  ELSE UNCHANGED <<inFlight, remaining>>

RefundSlotOnly(s) ==   \* faulty: the claim stays counted
  IF st[s] = "active"
  THEN remaining' = [remaining EXCEPT ![s] = Inc(@)] /\ UNCHANGED inFlight
  ELSE UNCHANGED <<inFlight, remaining>>

Refund(s) ==
  IF st[s] = "active"
  THEN /\ inFlight' = [inFlight EXCEPT ![s] = Dec(@)]
       /\ remaining' = [remaining EXCEPT ![s] = Inc(@)]
  ELSE UNCHANGED <<inFlight, remaining>>

CommitDropped(p) ==
  /\ pc[p] = "dropped"
  /\ Refund(cur[p])
  /\ Disarm(p)
  /\ UNCHANGED <<replayVars, st, lastDelivered, notice, queue, rx, sent, event, evicted, matches>>

CommitDisconnectRefused(p) ==   \* faulty: reports the refused envelope as delivered
  LET s == cur[p]
  IN /\ pc[p] = "disconnect"
     /\ notice' = IF st[s] = "active" /\ notice[s] = <<>>
                  THEN [notice EXCEPT ![s] = <<event[p]>>] ELSE notice
     /\ st' = [st EXCEPT ![s] = "removed"]
     /\ Disarm(p)
     /\ UNCHANGED <<replayVars, remaining, inFlight, lastDelivered, queue, rx, sent,
                    event, evicted, matches>>

CommitDisconnect(p) ==
  LET s == cur[p]
  IN /\ pc[p] = "disconnect"
     /\ notice' = IF st[s] = "active" /\ notice[s] = <<>>
                  THEN [notice EXCEPT ![s] = SlowNotice(s)] ELSE notice
     /\ st' = [st EXCEPT ![s] = "removed"]
     /\ Disarm(p)
     /\ UNCHANGED <<replayVars, remaining, inFlight, lastDelivered, queue, rx, sent,
                    event, evicted, matches>>

CommitClosed(p) ==
  /\ pc[p] = "closed"
  /\ st' = [st EXCEPT ![cur[p]] = "removed"]
  /\ Disarm(p)
  /\ UNCHANGED <<replayVars, remaining, inFlight, lastDelivered, notice, queue, rx, sent,
                 event, evicted, matches>>

(* The future returns, or is dropped inside send().await: then the active  *)
(* guards run their Drop one after the other before the senders go.        *)
Return(p) ==
  /\ pc[p] \in {"loop", "cancelled"} /\ guards[p] = {}
  /\ pc' = [pc EXCEPT ![p] = "idle"]
  /\ event' = [event EXCEPT ![p] = NoEvent]
  /\ matches' = [matches EXCEPT ![p] = {}]
  /\ UNCHANGED <<replayVars, subVars, evicted, guards, cur>>

Cancel(p) ==
  /\ pc[p] = "blocked"
  /\ pc' = [pc EXCEPT ![p] = "cancelled"]
  /\ cur' = [cur EXCEPT ![p] = NoSub]
  /\ UNCHANGED <<replayVars, subVars, event, evicted, matches, guards>>

DropGuard(p, s) ==
  /\ pc[p] = "cancelled" /\ s \in guards[p]
  /\ Refund(s)
  /\ guards' = [guards EXCEPT ![p] = @ \ {s}]
  /\ UNCHANGED <<replayVars, st, lastDelivered, notice, queue, rx, sent,
                 pc, event, evicted, matches, cur>>

-----------------------------------------------------------------------------
ConsumerStep(s) == Subscribe(s) \/ Unsubscribe(s) \/ Recv(s) \/ RecvNone(s) \/ DropReceiver(s)

PublisherStep(p) ==
  \/ RejectTooLarge(p) \/ RecordEnvelope(p) \/ PruneIndex(p)
  \/ TryPublish(p) \/ Claim(p) \/ AwaitSend(p)
  \/ \E s \in Subs : TrySend(p, s) \/ DropGuard(p, s)
  \/ CommitDelivered(p) \/ CommitDropped(p) \/ CommitDisconnect(p) \/ CommitClosed(p)
  \/ Return(p)

Next ==
  \/ \E s \in Subs : ConsumerStep(s)
  \/ \E p \in Publishers : \/ \E str \in Streams, k \in Keys \cup {NoKey} : PublishEnvelope(p, str, k)
                           \/ PublisherStep(p)
                           \/ Cancel(p)

Spec == Init /\ [][Next]_vars
-----------------------------------------------------------------------------
(* Claims on s whose envelope is not in the queue, and all claims on s. *)
Unsent(s) == {p \in Publishers : s \in guards[p] /\ ~(pc[p] = "delivered" /\ cur[p] = s)}
Claiming(s) == {p \in Publishers : s \in guards[p]}

(* However publishers interleave, are cancelled or overflow, a subscription *)
(* never gets more envelopes than the limit it asked for (bus.rs, the       *)
(* claim taken in publish before the lock is released).                     *)
QuotaRespected ==
  \A s \in Subs : Limit[s] # NoLimit => Len(sent[s]) <= Limit[s]

(* No slot of a live quota is lost or invented: what was sent, what is      *)
(* left and what publishers hold as claims adds up to the limit (the        *)
(* refunds of ClaimGuard::drop and of the Dropped outcome, once each).      *)
QuotaConserved ==
  \A s \in Subs : st[s] = "active" /\ Limit[s] # NoLimit =>
     Len(sent[s]) + remaining[s] + Cardinality(Unsent(s)) = Limit[s]

(* A subscription whose quota is used up stays in the map only while some   *)
(* publisher still has a claim on it to settle (the in_flight == 0 test of  *)
(* the delivered commit): none lingers with nobody left to remove it.       *)
ExhaustedIsReaped ==
  \A s \in Subs : st[s] = "active" /\ remaining[s] = 0 /\ Limit[s] # 0 => Claiming(s) # {}

(* in_flight counts the active guards of the publishers exactly. *)
InFlightExact ==
  \A s \in Subs : st[s] = "active" => inFlight[s] = Cardinality(Claiming(s))

(* A slow-consumer notice names an envelope the subscription really got,    *)
(* never one that was refused or is still being sent (disconnect commit).   *)
NoticeNamesSent ==
  \A s \in Subs : notice[s] # <<>> /\ notice[s][1] # NoEvent =>
     \E i \in DOMAIN sent[s] : sent[s][i] = notice[s][1]

(* The reverse index holds exactly the ids of the retained envelopes, of    *)
(* those allocated but not yet recorded, and of those evicted whose pruning *)
(* is pending: nothing leaks past replay retention, nothing retained is     *)
(* forgotten (sequencer.rs, replay.rs, the oversize path of publish).       *)
IndexBounded ==
  byEventId = RingIds \cup {EventId(event[p]) : p \in {q \in Publishers : pc[q] = "allocated"}}
                      \cup UNION {evicted[p] : p \in Publishers}

-----------------------------------------------------------------------------
(* Publishers are polled by the runtime whenever they can run, and          *)
(* consumers keep calling recv; subscribing, cancelling and dropping a      *)
(* receiver are up to the environment.                                      *)
Fairness ==
  /\ \A p \in Publishers : WF_vars(PublisherStep(p))
  /\ \A s \in Subs : WF_vars(Recv(s) \/ RecvNone(s))

FairSpec == Spec /\ Fairness

(* Every publish call comes back, Backpressure waits included. *)
PublishReturns == \A p \in Publishers : pc[p] = "allocated" ~> pc[p] = "idle"

(* A subscription that got its N envelopes is unsubscribed by the bus and   *)
(* its consumer sees the end of the stream.                                 *)
QuotaEndsStream ==
  \A s \in Subs : (Limit[s] # 0 /\ Len(sent[s]) = Limit[s]) ~> rx[s] # "open"
=============================================================================
