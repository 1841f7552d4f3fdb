---------------------------- MODULE WsConnection ----------------------------
(***************************************************************************)
(* One multiplex WebSocket connection (http/ws.rs): the dispatcher that    *)
(* reads client frames, the writer task with its bounded outbound queue    *)
(* and its out-of-band terminal queue, and one forwarder task per          *)
(* subscription, fed by the event bus (Locals) or by the peer stream hub   *)
(* (Forwards), several of which may share a peer stream.                   *)
(*                                                                         *)
(* Of the bus the connection sees a queue, the oneshot that reports a slow *)
(* consumer and the removal of the subscription.  Publishers are concurrent *)
(* and commit under the bus lock what their send came to after it happened *)
(* (EventBus): between the refusal of an envelope and the removal of the   *)
(* slow subscription, and between the last envelope of a limited one and   *)
(* its removal, others may act.  WS subscriptions use Disconnect.          *)
(* App ids are never reused, so a subscription stands for its app id.      *)
(***************************************************************************)
EXTENDS PeerStreamHub

CONSTANTS Locals,            \* local subscriptions the client may ask for
          Limited,           \* Limited[x]: events after which x is exhausted, 0 for no limit
          OutboundCapacity,  \* WS_OUTBOUND_CAPACITY
          BusCapacity,       \* outbound_capacity of a bus subscription
          MaxSubscriptions,  \* WS_MAX_SUBSCRIPTIONS_PER_CONN
          MaxEvents,         \* bound: envelopes published per subscription
          MaxControls        \* bound: requests without a lasting effect

Subs == Locals \cup Forwards

ASSUME WsAssumption ==
  /\ Locals \cap Forwards = {}
  /\ Limited \in [Locals -> Nat]
  /\ {OutboundCapacity, BusCapacity, MaxSubscriptions} \subseteq Nat \ {0}

VARIABLES
  client,      \* the client's end of the socket
  dispatcher,  \* reading frames, awaiting the writer, or returned
  writer,      \* the writer task
  outq,        \* out_tx / out_rx
  terminal,    \* terminal_tx / terminal_rx, capacity 1
  wire,        \* wire[x]: history of the events of x written
  localSubs,   \* ConnState.local_subs
  fwdSubs,     \* ConnState.fwd_subs
  fwdEvents,   \* fwd_event channel
  task,        \* task[x]: the forwarder of x
  hold,        \* hold[x]: the envelope in the forwarder's hands
  bus,         \* bus[x]: the subscription on the bus
  queue,       \* queue[x]: its queue
  oneshot,     \* oneshot[x]: slow_consumer_rx
  published,   \* published[x]: envelopes published to x so far
  refused,     \* refused[x]: a publisher found the queue full and has yet to disconnect x
  refusals,    \* refusals[x]: history of the envelopes the queue was too full for
  discarded,   \* discarded[x]: history of the envelopes the forwarder let go
  controls     \* requests without a lasting effect sent by the client so far

connVars == <<client, dispatcher, localSubs, fwdSubs, controls>>
outVars == <<outq, terminal>>
busVars == <<bus, queue, published, refused, refusals>>
vars == <<hubVars, client, dispatcher, writer, outq, terminal, wire, localSubs, fwdSubs, fwdEvents,
          task, hold, discarded, bus, queue, oneshot, published, refused, refusals, controls>>

(* Frames: events are numbered per subscription; acknowledgements, pongs   *)
(* and errors are control frames.                                          *)
Frame(kind, x, n) == [kind |-> kind, sub |-> x, n |-> n]
ControlFrame == [kind |-> "control"]
Frames == [kind : {"event", "gap", "closed"}, sub : Subs, n : Nat] \cup {ControlFrame}

TypeOK ==
  /\ HubTypeOK
  /\ client \in {"up", "gone"}
  /\ dispatcher \in {"loop", "joining", "returned"}
  /\ writer \in {"run", "ended"}
  /\ outq \in Seq(Frames) /\ Len(outq) <= OutboundCapacity
  /\ terminal \in Seq(Frames) /\ Len(terminal) <= 1
  /\ wire \in [Locals -> Seq(Nat)]
  /\ localSubs \subseteq Locals /\ fwdSubs \subseteq Forwards
  /\ fwdEvents \in Seq(Subs)
  /\ task \in [Subs -> {"none", "select", "polling", "got", "sending", "blocked", "retrying", "exited"}]
  /\ hold \in [Locals -> Nat]
  /\ bus \in [Locals -> {"none", "active", "exhausted", "removed"}]
  /\ queue \in [Locals -> Seq(Nat)]
  /\ oneshot \in [Locals -> {"open", "fired", "reported", "dropped", "taken"}]
  /\ published \in [Locals -> Nat]
  /\ refused \in [Locals -> BOOLEAN]
  /\ refusals \in [Locals -> SUBSET Nat] /\ discarded \in [Locals -> SUBSET Nat]
  /\ controls \in Nat

Init ==
  /\ HubInit
  /\ client = "up" /\ dispatcher = "loop" /\ writer = "run"
  /\ outq = <<>> /\ terminal = <<>> /\ wire = [x \in Locals |-> <<>>]
  /\ localSubs = {} /\ fwdSubs = {} /\ fwdEvents = <<>>
  /\ task = [x \in Subs |-> "none"]
  /\ hold = [x \in Locals |-> 0]
  /\ bus = [x \in Locals |-> "none"]
  /\ queue = [x \in Locals |-> <<>>]
  /\ oneshot = [x \in Locals |-> "open"]
  /\ published = [x \in Locals |-> 0]
  /\ refused = [x \in Locals |-> FALSE]
  /\ refusals = [x \in Locals |-> {}] /\ discarded = [x \in Locals |-> {}]
  /\ controls = 0

-----------------------------------------------------------------------------
(* The outbound channels.  Forwarders blocked in out_tx.send are in line   *)
(* for the next free slot; try_send on the terminal channel gives up when  *)
(* its one slot is taken.                                                  *)
Alive(x) == task[x] \notin {"none", "exited"}
Blocked == {x \in Locals : task[x] \in {"blocked", "retrying"}}
OutRoom == Len(outq) + Cardinality(Blocked) < OutboundCapacity

(* try_send on either channel. *)
TrySend(f) == IF writer = "run" /\ OutRoom THEN outq' = Append(outq, f) ELSE UNCHANGED outq
TryTerminalAlways(f) ==   \* faulty: ignores the capacity of the terminal channel
  IF writer = "run" THEN terminal' = Append(terminal, f) ELSE UNCHANGED terminal

TryTerminal(f) == IF writer = "run" /\ terminal = <<>> THEN terminal' = <<f>> ELSE UNCHANGED terminal

(* send_or_terminate, for the frames of one request: those that find the   *)
(* outbound queue full compete for the one terminal slot.                  *)
SendOrTerminate(fs) ==
  LET room == OutboundCapacity - Len(outq) - Cardinality(Blocked)
      fit  == IF writer = "ended" \/ room <= 0 THEN 0 ELSE IF room < Len(fs) THEN room ELSE Len(fs)
  IN /\ outq' = outq \o SubSeq(fs, 1, fit)
     /\ IF fit < Len(fs) THEN TryTerminal(fs[fit + 1]) ELSE UNCHANGED terminal

-----------------------------------------------------------------------------
(* The dispatcher.  Requests refused before anything is subscribed (cap,   *)
(* syntax, capability), pings and invalid JSON only produce a frame.       *)
Reading == client = "up" /\ dispatcher = "loop"
AtCap == Cardinality(localSubs) + Cardinality(fwdSubs) >= MaxSubscriptions

Control ==
  /\ Reading /\ controls < MaxControls
  /\ controls' = controls + 1
  /\ SendOrTerminate(<<ControlFrame>>)
  /\ UNCHANGED <<hubVars, client, dispatcher, writer, wire, localSubs, fwdSubs, fwdEvents,
                 task, hold, discarded, busVars, oneshot>>

SubscribeLocal(x) ==
  /\ Reading /\ ~AtCap /\ task[x] = "none" /\ bus[x] = "none"
  /\ SendOrTerminate(<<ControlFrame>>)
  /\ bus' = [bus EXCEPT ![x] = "active"]
  /\ localSubs' = localSubs \cup {x}
  /\ task' = [task EXCEPT ![x] = "select"]
  /\ UNCHANGED <<hubVars, client, dispatcher, writer, wire, fwdSubs, fwdEvents,
                 hold, discarded, queue, published, refused, refusals, oneshot, controls>>

SubscribePeer(x) ==
  /\ Reading /\ ~AtCap /\ task[x] = "none" /\ chan[x] = 0
  /\ \/ /\ HubJoin(x) \/ HubOpen(x)
        /\ SendOrTerminate(<<ControlFrame>>)
        /\ fwdSubs' = fwdSubs \cup {x}
        /\ task' = [task EXCEPT ![x] = "select"]
        /\ UNCHANGED controls
     \/ /\ HubUnknownPeer(x)
        /\ SendOrTerminate(<<ControlFrame, ControlFrame>>)
        /\ controls < MaxControls /\ controls' = controls + 1
        /\ UNCHANGED <<fwdSubs, task>>
  /\ UNCHANGED <<client, dispatcher, writer, wire, localSubs, fwdEvents,
                 hold, discarded, busVars, oneshot>>

(* Removing the entry of x: the bus forgets the subscription, or the       *)
(* forwarder is aborted and the hub loses a reference.                     *)
BusRemove(xs) ==
  /\ bus' = [x \in Locals |-> IF x \in xs THEN "removed" ELSE bus[x]]
  /\ oneshot' = [x \in Locals |-> IF x \in xs /\ oneshot[x] = "open" THEN "dropped" ELSE oneshot[x]]

ForgetLocalOnly(x) ==   \* faulty: the bus keeps the subscription
  /\ x \in localSubs
  /\ localSubs' = localSubs \ {x}
  /\ UNCHANGED <<hubVars, fwdSubs, task, bus, oneshot>>

ForgetLocal(x) ==
  /\ x \in localSubs
  /\ localSubs' = localSubs \ {x}
  /\ BusRemove({x})
  /\ UNCHANGED <<hubVars, fwdSubs, task>>

ForgetPeer(x) ==
  /\ x \in fwdSubs
  /\ fwdSubs' = fwdSubs \ {x}
  /\ task' = [task EXCEPT ![x] = "exited"]
  /\ HubUnsubscribe({x})
  /\ UNCHANGED <<localSubs, bus, oneshot>>

ForgetNothingReleases(x) ==   \* faulty: gives a reference back twice
  /\ x \notin localSubs \cup fwdSubs
  /\ HubUnsubscribe({x} \cap Forwards)
  /\ UNCHANGED <<localSubs, fwdSubs, task, bus, oneshot>>

ForgetNothing(x) ==
  /\ x \notin localSubs \cup fwdSubs
  /\ UNCHANGED <<hubVars, localSubs, fwdSubs, task, bus, oneshot>>

Forget(x) == ForgetLocal(x) \/ ForgetPeer(x) \/ ForgetNothing(x)

Unsubscribe(x) ==
  /\ Reading /\ task[x] # "none" /\ controls < MaxControls
  /\ controls' = controls + 1
  /\ Forget(x)
  /\ SendOrTerminate(<<ControlFrame>>)
  /\ UNCHANGED <<client, dispatcher, writer, wire, fwdEvents, hold, discarded, queue, published,
                 refused, refusals>>

OnForwarderEvent ==
  /\ dispatcher = "loop" /\ fwdEvents # <<>>
  /\ Forget(Head(fwdEvents))
  /\ fwdEvents' = Tail(fwdEvents)
  /\ UNCHANGED <<client, dispatcher, writer, outVars, wire, hold, discarded, queue, published,
                 refused, refusals, controls>>

(* The client closes or the connection breaks; the dispatcher drops its    *)
(* senders and waits for the writer, then cleans up.                       *)
ClientGone ==
  /\ client = "up"
  /\ client' = "gone"
  /\ UNCHANGED <<hubVars, dispatcher, writer, outVars, wire, localSubs, fwdSubs, fwdEvents,
                 task, hold, discarded, busVars, oneshot, controls>>

LeaveLoop ==
  /\ client = "gone" /\ dispatcher = "loop"
  /\ dispatcher' = "joining"
  /\ UNCHANGED <<hubVars, client, writer, outVars, wire, localSubs, fwdSubs, fwdEvents,
                 task, hold, discarded, busVars, oneshot, controls>>

Cleanup ==
  /\ dispatcher = "joining" /\ writer = "ended"
  /\ dispatcher' = "returned"
  /\ BusRemove(localSubs)
  /\ HubUnsubscribe(fwdSubs)
  /\ task' = [x \in Subs |-> IF x \in fwdSubs THEN "exited" ELSE task[x]]
  /\ localSubs' = {} /\ fwdSubs' = {}
  /\ UNCHANGED <<client, writer, outVars, wire, fwdEvents, hold, discarded, queue, published,
                 refused, refusals, controls>>

-----------------------------------------------------------------------------
(* The writer: the terminal queue first; it stops when the socket fails or *)
(* when every sender of the outbound queue is gone.                        *)
Write(f) ==
  \/ /\ client = "up" /\ UNCHANGED writer
     /\ wire' = [x \in Locals |-> IF f.kind = "event" /\ f.sub = x THEN Append(wire[x], f.n) ELSE wire[x]]
  \/ client = "gone" /\ writer' = "ended" /\ UNCHANGED wire

WriteTerminal ==
  /\ writer = "run" /\ terminal # <<>>
  /\ Write(Head(terminal))
  /\ terminal' = Tail(terminal)
  /\ UNCHANGED <<hubVars, connVars, outq, fwdEvents, task, hold, discarded, busVars, oneshot>>

WriteOut ==
  /\ writer = "run" /\ terminal = <<>> /\ outq # <<>>
  /\ Write(Head(outq))
  /\ outq' = Tail(outq)
  /\ UNCHANGED <<hubVars, connVars, terminal, fwdEvents, task, hold, discarded, busVars, oneshot>>

WriterDone ==
  /\ writer = "run" /\ terminal = <<>> /\ outq = <<>>
  /\ dispatcher # "loop" /\ \A x \in Subs : ~Alive(x)
  /\ writer' = "ended"
  /\ UNCHANGED <<hubVars, connVars, outVars, wire, fwdEvents, task, hold, discarded, busVars, oneshot>>

-----------------------------------------------------------------------------
(* local_forwarder.  Both of its selects are biased: they poll the oneshot *)
(* until it has resolved and only then the queue of the bus, or the send   *)
(* of the envelope in hand; between the two polls the bus may act.  A task *)
(* at "select", "got" or "blocked" is about to poll the oneshot, Polled    *)
(* says where it goes on.  Leaving the loop sends LocalTerminated.         *)
Polled == [select |-> "polling", got |-> "sending", blocked |-> "retrying"]
AtNotice(x) == task[x] \in DOMAIN Polled

ExitSilently(x) ==   \* faulty: the dispatcher is not told
  /\ task' = [task EXCEPT ![x] = "exited"]
  /\ UNCHANGED fwdEvents

Exit(x) ==
  /\ task' = [task EXCEPT ![x] = "exited"]
  /\ fwdEvents' = Append(fwdEvents, x)

ReportGap(x) ==
  /\ AtNotice(x) /\ oneshot[x] = "fired"
  /\ oneshot' = [oneshot EXCEPT ![x] = "reported"]
  /\ TryTerminal(Frame("gap", x, 0))
  /\ Exit(x)
  /\ UNCHANGED <<hubVars, connVars, outq, writer, wire, hold, discarded, busVars>>

NoNotice(x) ==
  /\ AtNotice(x) /\ oneshot[x] \in {"open", "taken"}
  /\ task' = [task EXCEPT ![x] = Polled[@]]
  /\ UNCHANGED <<hubVars, connVars, outVars, writer, wire, fwdEvents, hold, discarded, busVars, oneshot>>

SenderDropped(x) ==
  /\ task[x] = "select" /\ oneshot[x] = "dropped"
  /\ oneshot' = [oneshot EXCEPT ![x] = "taken"]
  /\ UNCHANGED <<hubVars, connVars, outVars, writer, wire, fwdEvents, task, hold, discarded, busVars>>

(* The queue of the bus: an envelope, its end, or nothing yet. *)
Take(x) ==
  /\ task[x] = "polling" /\ queue[x] # <<>>
  /\ hold' = [hold EXCEPT ![x] = Head(queue[x])]
  /\ queue' = [queue EXCEPT ![x] = Tail(@)]
  /\ task' = [task EXCEPT ![x] = "got"]
  /\ UNCHANGED <<hubVars, connVars, outVars, writer, wire, fwdEvents, discarded, bus, published, refused,
                 refusals, oneshot>>

EndOfQueue(x) ==
  /\ task[x] = "polling" /\ queue[x] = <<>> /\ bus[x] = "removed"
  /\ Exit(x)
  /\ UNCHANGED <<hubVars, connVars, outVars, writer, wire, hold, discarded, busVars, oneshot>>

NothingQueued(x) ==
  /\ task[x] = "polling" /\ queue[x] = <<>> /\ bus[x] # "removed"
  /\ task' = [task EXCEPT ![x] = "select"]
  /\ UNCHANGED <<hubVars, connVars, outVars, writer, wire, fwdEvents, hold, discarded, busVars, oneshot>>

(* The inner select: the sender side is gone and the envelope in hand is   *)
(* dropped, or it goes out when there is room; a forwarder that found none *)
(* stays in line for a slot.                                               *)
DropInHand(x) ==
  /\ task[x] \in {"got", "blocked"} /\ oneshot[x] = "dropped"
  /\ oneshot' = [oneshot EXCEPT ![x] = "taken"]
  /\ discarded' = [discarded EXCEPT ![x] = @ \cup {hold[x]}]
  /\ task' = [task EXCEPT ![x] = "select"]
  /\ UNCHANGED <<hubVars, connVars, outVars, writer, wire, fwdEvents, hold, busVars>>

Room(x) ==
  \/ task[x] = "sending" /\ OutRoom
  \/ task[x] = "retrying" /\ Len(outq) < OutboundCapacity

SendInHandOrDrop(x) ==   \* faulty: try_send, and the envelope is dropped when the queue is full
  /\ task[x] = "sending"
  /\ TrySend(Frame("event", x, hold[x]))
  /\ task' = [task EXCEPT ![x] = "select"]
  /\ UNCHANGED <<hubVars, connVars, terminal, writer, wire, fwdEvents, hold, discarded, busVars, oneshot>>

SendInHand(x) ==
  /\ task[x] \in {"sending", "retrying"}
  /\ \/ /\ writer = "run" /\ Room(x)
        /\ outq' = Append(outq, Frame("event", x, hold[x]))
        /\ task' = [task EXCEPT ![x] = "select"]
        /\ UNCHANGED fwdEvents
     \/ /\ writer = "run" /\ ~Room(x)
        /\ task' = [task EXCEPT ![x] = "blocked"]
        /\ UNCHANGED <<outq, fwdEvents>>
     \/ /\ writer = "ended"
        /\ Exit(x)
        /\ UNCHANGED outq
  /\ UNCHANGED <<hubVars, connVars, terminal, writer, wire, hold, discarded, busVars, oneshot>>

(* forward_peer_subscription. *)
ForwardLine(x) ==
  /\ task[x] = "select" /\ HubLine(x)
  /\ unread' = [unread EXCEPT ![x] = @ - 1]
  /\ \/ /\ writer = "run" /\ OutRoom
        /\ TrySend(Frame("event", x, 0))
        /\ UNCHANGED <<terminal, task, fwdEvents>>
     \/ /\ writer = "run" /\ ~OutRoom
        /\ TryTerminal(Frame("gap", x, 0))
        /\ Exit(x)
        /\ UNCHANGED outq
     \/ /\ writer = "ended"
        /\ task' = [task EXCEPT ![x] = "exited"]
        /\ UNCHANGED <<outVars, fwdEvents>>
  /\ UNCHANGED <<hubEntry, refcount, upstream, opened, chan, lagged, connVars, writer, wire,
                 hold, discarded, busVars, oneshot>>

ForwardEnds(x) ==
  /\ task[x] = "select" /\ HubEnded(x)
  /\ IF lagged[x] THEN TryTerminal(Frame("gap", x, 0)) /\ UNCHANGED outq
                  ELSE TrySend(Frame("closed", x, 0)) /\ UNCHANGED terminal
  /\ Exit(x)
  /\ UNCHANGED <<hubVars, connVars, writer, wire, hold, discarded, busVars, oneshot>>

-----------------------------------------------------------------------------
(* The bus: a publisher queues an envelope, finds the queue full, or finds *)
(* the receiver gone.  The last envelope of a limited subscription uses it *)
(* up; the commits that follow remove a slow or exhausted subscription.    *)
Claimable(x) == bus[x] = "active" /\ published[x] < MaxEvents /\ (Limited[x] = 0 \/ published[x] < Limited[x])

Publish(x) ==
  /\ Claimable(x) /\ Alive(x)
  /\ published' = [published EXCEPT ![x] = @ + 1]
  /\ \/ /\ Len(queue[x]) < BusCapacity
        /\ queue' = [queue EXCEPT ![x] = Append(@, published[x] + 1)]
        /\ bus' = [bus EXCEPT ![x] = IF published[x] + 1 = Limited[x] /\ ~refused[x] THEN "exhausted" ELSE @]
        /\ UNCHANGED <<refused, refusals>>
     \/ /\ Len(queue[x]) = BusCapacity
        /\ refused' = [refused EXCEPT ![x] = TRUE]
        /\ refusals' = [refusals EXCEPT ![x] = @ \cup {published[x] + 1}]
        /\ UNCHANGED <<queue, bus>>
  /\ UNCHANGED <<hubVars, connVars, outVars, writer, wire, fwdEvents, task, hold, discarded, oneshot>>

CommitDisconnect(x) ==
  /\ refused[x]
  /\ refused' = [refused EXCEPT ![x] = FALSE]
  /\ bus' = [bus EXCEPT ![x] = "removed"]
  /\ oneshot' = [oneshot EXCEPT ![x] = IF bus[x] = "active" THEN "fired" ELSE @]
  /\ UNCHANGED <<hubVars, connVars, outVars, writer, wire, fwdEvents, task, hold, discarded, queue,
                 published,
                 refusals>>

CommitClosed(x) ==
  /\ bus[x] = "active" /\ ~Alive(x)
  /\ BusRemove({x})
  /\ UNCHANGED <<hubVars, connVars, outVars, writer, wire, fwdEvents, task, hold, discarded, queue,
                 published, refused, refusals>>

CommitLast(x) ==
  /\ bus[x] = "exhausted"
  /\ BusRemove({x})
  /\ UNCHANGED <<hubVars, connVars, outVars, writer, wire, fwdEvents, task, hold, discarded, queue,
                 published, refused, refusals>>

(* The hub's upstream streams. *)
wsVars == <<connVars, outVars, writer, wire, fwdEvents, task, hold, discarded, busVars, oneshot>>

HubStep ==
  /\ \E g \in Streams : StreamLine(g) \/ StreamOver(g)
  /\ UNCHANGED <<wsVars>>

-----------------------------------------------------------------------------
Request(x) ==
  \/ Unsubscribe(x)
  \/ x \in Locals /\ SubscribeLocal(x)
  \/ x \in Forwards /\ SubscribePeer(x)

DispatcherStep == OnForwarderEvent \/ LeaveLoop \/ Cleanup
WriterStep == WriteTerminal \/ WriteOut \/ WriterDone

LocalStep(x) ==
  \/ ReportGap(x) \/ NoNotice(x) \/ SenderDropped(x)
  \/ Take(x) \/ EndOfQueue(x) \/ NothingQueued(x)
  \/ DropInHand(x) \/ SendInHand(x)
PeerStep(x) == ForwardLine(x) \/ ForwardEnds(x)

Next ==
  \/ \E x \in Subs : Request(x)
  \/ Control \/ ClientGone \/ DispatcherStep \/ WriterStep
  \/ \E x \in Locals : LocalStep(x) \/ Publish(x) \/ CommitLast(x) \/ CommitDisconnect(x) \/ CommitClosed(x)
  \/ \E x \in Forwards : PeerStep(x)
  \/ HubStep

Spec == Init /\ [][Next]_vars
-----------------------------------------------------------------------------
(* A subscription that is live on the bus is in the connection's table, so  *)
(* the teardown of the connection, whenever it runs, leaves none behind.    *)
SubsTracked ==
  \A x \in Locals : bus[x] \in {"active", "exhausted"} => x \in localSubs

(* The hub's reference count is the number of forwarded subscriptions on    *)
(* the stream, although lag, unsubscription and teardown may each release   *)
(* the same one; a stream is in the map exactly while it is needed. *)
RefcountExact ==
  \A k \in Keys :
     /\ refcount[k] = Cardinality({r \in fwdSubs : KeyOf[r] = k})
     /\ hubEntry[k] # 0 <=> refcount[k] > 0

(* While the connection lives, a subscription whose forwarder has ended     *)
(* either no longer counts against the cap and the hub's reference count,   *)
(* or the dispatcher is still to hear of its end.                           *)
EndedIsReported ==
  \A x \in localSubs \cup fwdSubs :
     task[x] = "exited" /\ writer = "run" => \E i \in DOMAIN fwdEvents : fwdEvents[i] = x

(* Where the events of x wait in the outbound queue, and their numbers. *)
Queued(x) == {i \in DOMAIN outq : outq[i].kind = "event" /\ outq[i].sub = x}
QueuedNumbers(x) == {outq[i].n : i \in Queued(x)}

Written(x) == {wire[x][i] : i \in DOMAIN wire[x]}
Underway(x) == IF writer = "run" THEN QueuedNumbers(x) ELSE {}
Delivered(x) == Written(x) \cup Underway(x)
Missed(x) == refusals[x] \cup discarded[x]

(* What the client gets on a subscription is in the order of publication    *)
(* and never twice, and whatever is missing in between was either refused   *)
(* by the full queue of the bus or let go by the forwarder when the bus     *)
(* dropped its end.  A subscription that has missed something is off the    *)
(* bus, or the publisher that was refused has its removal still to commit,  *)
(* however the polls of the forwarder, the writer and the publishers        *)
(* interleave.                                                              *)
HolesExplained ==
  \A x \in Locals :
     /\ \A i, j \in DOMAIN wire[x] : i < j => wire[x][i] < wire[x][j]
     /\ writer = "run" => \A i, j \in Queued(x) : i < j => outq[i].n < outq[j].n
     /\ \A w \in Written(x), u \in Underway(x) : w < u
     /\ \A n \in Delivered(x) : \A k \in 1 .. n - 1 : k \in Delivered(x) \cup Missed(x)
     /\ Missed(x) # {} => refused[x] \/ bus[x] = "removed"

-----------------------------------------------------------------------------
(* The runtime polls whatever can run, and a connected client reads.       *)
Fairness ==
  /\ WF_vars(DispatcherStep) /\ WF_vars(WriterStep)
  /\ \A x \in Locals : WF_vars(LocalStep(x)) /\ WF_vars(CommitLast(x)) /\ WF_vars(CommitDisconnect(x))
  /\ \A x \in Forwards : WF_vars(PeerStep(x))

FairSpec == Spec /\ Fairness

(* When the upstream of a peer subscription ends, the subscription ends     *)
(* too.                                                                     *)
UpstreamEndReported ==
  \A x \in Forwards :
     (chan[x] # 0 /\ upstream[chan[x]] = "over") ~> (task[x] = "exited" \/ client = "gone")

-----------------------------------------------------------------------------
(* Three statements of http/ws.rs that do not hold.                         *)
(*                                                                          *)
(* The notice of a slow-consumer disconnect can always reach the wire,      *)
(* however full the outbound queue is: the forwarder that reports one finds *)
(* room in the terminal channel.  Another frame may be in its one slot.     *)
GapAlwaysFits ==
  [][\A x \in Locals : oneshot[x] = "fired" /\ oneshot'[x] = "reported" /\ writer = "run"
        => terminal' = <<Frame("gap", x, 0)>>]_vars

(* On a slow-consumer disconnect the forwarder emits a stream-gap: while    *)
(* the writer runs it does not end with the notice unread.  It does when    *)
(* the notice fires between its poll and the poll of an empty queue.        *)
DisconnectReported ==
  [][\A x \in Locals : Alive(x) /\ ~Alive(x)' /\ oneshot[x] = "fired" /\ writer = "run"
        => oneshot'[x] = "reported"]_vars

(* The envelope a forwarder lets go because the bus dropped its end is the  *)
(* last of the subscription: nothing published after it is delivered.  A    *)
(* later one may be queued, which the next turn of the loop delivers.       *)
InFlightIsLast ==
  \A x \in Locals : \A d \in discarded[x], n \in Delivered(x) : n < d
=============================================================================
