---------------------------- MODULE NdjsonStream ----------------------------
(***************************************************************************)
(* `GET /servers/{name}/events` (http/routes.rs, server_events_stream) on  *)
(* top of the event bus: the request is checked, the bus is subscribed to, *)
(* the replay ring is read, and the response body writes the replayed      *)
(* envelopes, then the live ones, until the subscription or the client is  *)
(* gone.                                                                   *)
(*                                                                         *)
(* HttpSubs are the subscriptions such a request makes; the other          *)
(* subscriptions are consumers of the bus itself.  The body is a lazily    *)
(* polled stream: nothing of it runs, the UnsubOnDrop guard included,      *)
(* before the first poll.  One turn of its biased select polls the         *)
(* slow-consumer oneshot and then the queue; the bus may move in between.  *)
(***************************************************************************)
EXTENDS EventBus, Functions

CONSTANTS HttpSubs,
          ReplayOf    \* ReplayOf[s]: the stream a concrete pattern of s names, {} for another

(* subscribe_opts_from_query leaves `limit` at its default, None.  The      *)
(* stream id is built from the node, the resource and the stream of the     *)
(* pattern; its kind is not looked at, so a pattern of another kind names   *)
(* the stream and matches no envelope of it.                                *)
ASSUME HttpAssumption ==
  /\ HttpSubs \subseteq Subs
  /\ ReplayOf \in [HttpSubs -> SUBSET Streams]
  /\ \A s \in HttpSubs :
       /\ Limit[s] = NoLimit
       /\ ReplayOf[s] # {} => \E str \in Streams : ReplayOf[s] = {str} /\ Topic[s] \subseteq {str}

VARIABLES
  body,       \* body[s]: where the request and its response body are
  asked,      \* asked[s]: replay_stream_id is set
  backlog,    \* backlog[s]: replayed envelopes still to be written
  replayed,   \* replayed[s]: replayed_event_ids
  written,    \* written[s]: history of the envelopes written as lines
  gap,        \* gap[s]: a stream-gap line was written
  cancelled   \* history of the envelopes whose publish future was dropped

bodyVars == <<body, asked, backlog, replayed, written, gap>>
allVars == <<vars, bodyVars, cancelled>>

StreamInit ==
  /\ Init
  /\ body = [s \in HttpSubs |-> "request"]
  /\ asked = [s \in HttpSubs |-> FALSE]
  /\ backlog = [s \in HttpSubs |-> <<>>]
  /\ replayed = [s \in HttpSubs |-> {}]
  /\ written = [s \in HttpSubs |-> <<>>]
  /\ gap = [s \in HttpSubs |-> FALSE]
  /\ cancelled = {}

Goto(s, where) == body' = [body EXCEPT ![s] = where]

-----------------------------------------------------------------------------
(* The query string: a topic, replay, a policy and its coalesce key. *)
Queries == [topic : {"missing", "malformed", "wildcard", "concrete"},
            replay : BOOLEAN,
            policy : Policies \cup {"unknown"},
            key : {"none", "valid", "invalid"}]

(* SlowConsumerPolicy::from_query accepts a key with coalesce and nowhere  *)
(* else.                                                                   *)
BadPolicy(q) ==
  \/ q.policy = "unknown"
  \/ q.policy = "coalesce" /\ q.key # "valid"
  \/ q.policy # "coalesce" /\ q.key # "none"

(* The early returns of the handler: no topic, one that does not parse,    *)
(* replay of a pattern that names no single stream, a bad policy.          *)
Refused(q) ==
  \/ q.topic \in {"missing", "malformed"}
  \/ q.replay /\ q.topic # "concrete"
  \/ BadPolicy(q)

(* What the accepted query of s can be. *)
Asks(s, q) ==
  /\ ~Refused(q)
  /\ q.policy = Policy[s]
  /\ q.topic = "concrete" <=> ReplayOf[s] # {}

Refuse(s, q) ==
  /\ body[s] = "request" /\ Refused(q)
  /\ Goto(s, "refused")
  /\ UNCHANGED <<vars, asked, backlog, replayed, written, gap>>

(* subscribe_events, and then events_after(stream, 0) of the replay cache. *)
OpenReplayFirst(s, q) ==   \* faulty: reads the ring before it subscribes
  \/ /\ body[s] = "request" /\ Asks(s, q) /\ q.replay
     /\ \E str \in ReplayOf[s] : backlog' = [backlog EXCEPT ![s] = EventsAfter(str, 0)]
     /\ Goto(s, "subscribed")
     /\ asked' = [asked EXCEPT ![s] = TRUE]
     /\ UNCHANGED <<vars, replayed, written, gap>>
  \/ /\ body[s] = "subscribed"
     /\ Subscribe(s)
     /\ Goto(s, "unpolled")
     /\ UNCHANGED <<asked, backlog, replayed, written, gap>>

Open(s, q) ==
  \/ /\ body[s] = "request" /\ Asks(s, q)
     /\ Subscribe(s)
     /\ Goto(s, IF q.replay THEN "subscribed" ELSE "unpolled")
     /\ asked' = [asked EXCEPT ![s] = q.replay]
     /\ UNCHANGED <<backlog, replayed, written, gap>>
  \/ /\ body[s] = "subscribed"
     /\ \E str \in ReplayOf[s] : backlog' = [backlog EXCEPT ![s] = EventsAfter(str, 0)]
     /\ Goto(s, "unpolled")
     /\ UNCHANGED <<vars, asked, replayed, written, gap>>

-----------------------------------------------------------------------------
(* The body.  The first poll creates the guard; then one line per replayed *)
(* envelope, whose id is remembered.                                       *)
Start(s) ==
  /\ body[s] = "unpolled"
  /\ Goto(s, "replay")
  /\ UNCHANGED <<vars, asked, backlog, replayed, written, gap>>

WriteLine(s, e) == written' = [written EXCEPT ![s] = Append(@, e)]

ReplayForgetful(s) ==   \* faulty: does not remember what it replayed
  /\ body[s] = "replay" /\ backlog[s] # <<>>
  /\ backlog' = [backlog EXCEPT ![s] = Tail(@)]
  /\ WriteLine(s, Head(backlog[s]))
  /\ UNCHANGED <<vars, body, asked, replayed, gap>>

Replay(s) ==
  /\ body[s] = "replay" /\ backlog[s] # <<>>
  /\ backlog' = [backlog EXCEPT ![s] = Tail(@)]
  /\ replayed' = [replayed EXCEPT ![s] = @ \cup {EventId(Head(backlog[s]))}]
  /\ WriteLine(s, Head(backlog[s]))
  /\ UNCHANGED <<vars, body, asked, gap>>

ReplayDone(s) ==
  /\ body[s] = "replay" /\ backlog[s] = <<>>
  /\ Goto(s, "select")
  /\ UNCHANGED <<vars, asked, backlog, replayed, written, gap>>

(* First branch of the select: the oneshot has fired, or its sender went   *)
(* with the entry of the subscription map; either ends the body.           *)
Terminated(s) == notice[s] # <<>> \/ st[s] = "removed"

PollNoticeQuiet(s) ==   \* faulty: an overflow ends the body like any other end
  /\ body[s] = "select"
  /\ Goto(s, IF Terminated(s) THEN "closing" ELSE "polling")
  /\ UNCHANGED <<vars, asked, backlog, replayed, written, gap>>

PollNotice(s) ==
  /\ body[s] = "select"
  /\ Goto(s, IF Terminated(s) THEN "closing" ELSE "polling")
  /\ gap' = [gap EXCEPT ![s] = notice[s] # <<>>]
  /\ UNCHANGED <<vars, asked, backlog, replayed, written>>

(* Second branch: a queued envelope is written unless it was replayed; the *)
(* end of the queue ends the body; otherwise the task sleeps.              *)
HasSender(s) == st[s] = "active" \/ \E p \in Publishers : s \in matches[p]

PollQueue(s) ==
  /\ body[s] = "polling"
  /\ \/ /\ Recv(s)
        /\ Goto(s, "select")
        /\ LET e == Head(queue[s])
           IN IF EventId(e) \in replayed[s]
              THEN /\ replayed' = [replayed EXCEPT ![s] = @ \ {EventId(e)}]
                   /\ UNCHANGED written
              ELSE WriteLine(s, e) /\ UNCHANGED replayed
     \/ /\ RecvNone(s)
        /\ Goto(s, "closing")
        /\ UNCHANGED <<replayed, written>>
     \/ /\ queue[s] = <<>> /\ HasSender(s)
        /\ Goto(s, "select")
        /\ UNCHANGED <<vars, replayed, written>>
  /\ UNCHANGED <<asked, backlog, gap>>

-----------------------------------------------------------------------------
(* The client goes, or the stack drops the response: a body that was       *)
(* polled has a guard to run, one that was not has only its receiver.      *)
ClientGone(s) ==
  /\ body[s] \in {"unpolled", "replay", "select"}
  /\ Goto(s, IF body[s] = "unpolled" THEN "released" ELSE "leaving")
  /\ UNCHANGED <<vars, asked, backlog, replayed, written, gap>>

(* UnsubOnDrop::drop, then the receiver the stream captured. *)
Release(s) ==
  /\ body[s] \in {"closing", "leaving"}
  /\ IF st[s] = "active" THEN Unsubscribe(s) ELSE UNCHANGED vars
  /\ Goto(s, "released")
  /\ UNCHANGED <<asked, backlog, replayed, written, gap>>

DropBody(s) ==
  /\ body[s] = "released"
  /\ IF rx[s] = "open" THEN DropReceiver(s) ELSE UNCHANGED vars
  /\ Goto(s, "closed")
  /\ UNCHANGED <<asked, backlog, replayed, written, gap>>

(* events_unsubscribe answers 202 and changes nothing: a stuttering step.  *)

BodyStep(s) ==
  \/ \E q \in Queries : Refuse(s, q) \/ Open(s, q)
  \/ Start(s) \/ Replay(s) \/ ReplayDone(s) \/ PollNotice(s) \/ PollQueue(s)
  \/ ClientGone(s) \/ Release(s) \/ DropBody(s)

BusStep ==
  \/ \E s \in Subs \ HttpSubs : ConsumerStep(s)
  \/ \E p \in Publishers : \/ \E str \in Streams, k \in Keys \cup {NoKey} : PublishEnvelope(p, str, k)
                           \/ PublisherStep(p)

CancelPublish(p) == Cancel(p) /\ cancelled' = cancelled \cup {event[p]}

StreamNext ==
  \/ (\E s \in HttpSubs : BodyStep(s)) /\ UNCHANGED cancelled
  \/ BusStep /\ UNCHANGED <<bodyVars, cancelled>>
  \/ (\E p \in Publishers : CancelPublish(p)) /\ UNCHANGED bodyVars

StreamSpec == StreamInit /\ [][StreamNext]_allVars
-----------------------------------------------------------------------------
(* Envelopes of the topic of s that the ring retains and whose publication  *)
(* came to its end: no publisher is still working on them, and none was     *)
(* dropped in the wait for a Backpressure queue, which leaves the matches   *)
(* it has not served without the envelope.                                  *)
Settled(s) ==
  (UNION {Range(ring[str]) : str \in Topic[s]}) \ ({event[p] : p \in Publishers} \cup cancelled)

(* What the client has, or will get from the body as it stands. *)
Reached(s) == Range(written[s]) \cup Range(backlog[s]) \cup Range(queue[s])

(* No envelope is written twice, however publications fall around the       *)
(* subscription and the reading of the ring (replayed_event_ids).           *)
NoLineTwice == \A s \in HttpSubs : IsInjective(written[s])

(* No envelope falls between replay and the live stream: while a replaying  *)
(* Disconnect subscription is in the map, every retained envelope whose     *)
(* publication is over has been written, is queued or is still to be        *)
(* replayed, and so is everything the bus ever sent it (the order of        *)
(* subscribe_events and events_after).                                      *)
NothingMissed ==
  \A s \in HttpSubs :
     /\ body[s] \in {"unpolled", "replay", "select", "polling"}
     /\ st[s] = "active" /\ Policy[s] = "disconnect" /\ asked[s]
     => Settled(s) \cup Range(sent[s]) \subseteq Reached(s)

(* A Disconnect response that ends by itself, with no stream-gap line, has  *)
(* written all that the bus accepted into its queue: the body leaves queued *)
(* envelopes behind only on a notice, which it announces (the biased select *)
(* of the body).  The envelope the overflow refused is not among them.      *)
AcceptedIsWritten ==
  \A s \in HttpSubs :
     body[s] = "closing" /\ ~gap[s] /\ Policy[s] = "disconnect"
     => Range(sent[s]) \subseteq Range(written[s])

(* A Disconnect overflow ends the response with a structured stream-gap     *)
(* line, "instead of an unexplained EOF" (http/routes.rs, the notice branch *)
(* of the select).  It does not when the bus fires the notice and drops the *)
(* queue's sender between the poll of the oneshot and the poll of the queue.*)
OverflowAnnounced ==
  \A s \in HttpSubs :
     body[s] = "closing" /\ Policy[s] = "disconnect" /\ notice[s] # <<>> => gap[s]
=============================================================================
