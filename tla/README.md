# A TLA+ development for boardwalk

Boardwalk is a hypermedia server framework: actors run inside a node, their
snapshots are served over HTTP, their events over WebSockets and NDJSON
streams, and peers behind a NAT are reached through tunnels that they open
themselves. This directory models the parts where several tasks share state or
where two pieces of code must agree, checks them with TLC on small instances,
and proves with TLAPS, for instances of any size, what the bus, the replay
index, the NDJSON stream, the actor executor, the WebSocket connection, the
peer links, the resource server and the pages owe their users.

Paths below are relative to `src/crates/boardwalk/src/`.

## Inventory

| Component | State it keeps | Operations | What makes it correct |
|---|---|---|---|
| Event bus (`events/bus.rs`, `coalesce.rs`, `policy.rs`) | subscription map: quota, claims in flight, last delivered envelope, slow-consumer oneshot, queue | `subscribe`, `unsubscribe`, `publish` (claim, send, commit), `try_publish`, receive, drop of the receiver | no subscription gets more than its limit; no slot is lost when a publish is cancelled; an exhausted subscription goes away; a notice is truthful |
| Stream registry and replay ring (`events/sequencer.rs`, `replay.rs`) | next sequence per stream, event-id index, a ring per stream | `allocate`, `evict`, `record`, `events_after` | the index is bounded by retention |
| Actor executor and node (`runtime/executor.rs`, `node.rs`, `directory.rs`, `handle.rs`) | directory, one command channel and task per actor, reply slots, join handles | `register`, `transition`, `try_transition`, `snapshot`, `Node::shutdown` | calls are executed once and in order; a caller is told the truth; nothing runs after `on_stop`; shutdown ends and leaves no task running |
| WebSocket multiplexer (`http/ws.rs`) | tables of local and forwarded subscriptions, outbound and terminal queue, forwarder tasks | subscribe, unsubscribe, ping, forwarder events, teardown | table, bus and hub agree; what a slow client misses is accounted for |
| Peer stream hub (`http/peer_streams.rs`) | one entry per (peer, topic): broadcast channel, task, reference count | `subscribe`, `unsubscribe`, `run_stream` | the count is exact; subscribers learn of the end of the upstream |
| NDJSON stream (`http/routes.rs`) | replay list, ids already replayed, live subscription, drop guard | replay, then live | no event twice, none skipped, nothing accepted is lost |
| Peer acceptors and client (`peer.rs`) | senders, contexts, handles and persisted status by route name; the hub's ids awaiting confirmation | dial, upgrade, confirm, clean-up, reconnect | only confirmed tunnels carry requests; the maps describe live connections; a name becomes free again |
| Peer admission (`peer.rs`, `http/routes.rs`) | none | admit, classify a request, resolve its caller, forward headers, derive provenance | a forwarded request is within what both ends allow, and the peer believes only the gateway |
| Resource HTTP core (`http/core.rs`) | stored latest snapshots | register, get, list, transition + refresh + persist | an answer includes its own effect; the store is current |
| Persistence, server start-up (`persistence/`, `server.rs`) | identities, snapshots, node configuration in redb | look up, check, put; resolve the node id | an identity keeps its id and a node its own, over crashes |
| Routes and Siren pages (`http/routes.rs`, `http/render.rs`) | none | render, route, forward | what a page shows is served; what is allowed can be found |
| CaQL, query evaluation (`caql/`, `query/`) and topic patterns (`events/topic.rs`) | none | lex, parse, evaluate, project, match | a query means what the grammar says |
| Tunnel wire format, macros, data types, the example | none | I/O, code generation, serialisation | not modelled |

How they interact: an actor publishes through its context
(`runtime/context.rs`), which allocates a sequence in the registry and calls
the bus; the bus records the envelope in the ring and serves the subscriptions;
WebSocket and NDJSON handlers own subscriptions and turn queues into lines and
frames. For a topic of a peer the WebSocket handler subscribes to the hub
instead, which reads the peer's NDJSON stream through the tunnel held by the
acceptors. HTTP requests reach actors through handles, and the core persists
snapshots. A request for `/servers/{peer}` is checked against the caller's and
the target's admission and sent over the same tunnel; the peer renders its
pages under the capabilities the gateway stamped on it.

What is hard: `publish` releases the bus lock between claiming a slot and
committing the outcome, may wait in between (Backpressure) and may be cancelled
while it waits; commands, Stop, panics and aborts race on an actor's channel; a
WebSocket connection is four kinds of task connected by bounded queues, one of
which holds a single frame, and every party may end first; a connection to a
peer is three tasks and a handler at the gateway that share maps keyed by name,
each behind a lock of its own, while the peer may already be dialling again;
and every table of the store is read and written in separate transactions, with
crashes in between.

## Modules

| Module | Models | State and actions |
|---|---|---|
| `StreamReplay` | registry, index and ring | `nextSequence`, `byEventId`, `ring`; `Allocate`, `Record`, `Evict`, `EventsAfter` |
| `EventBus` (extends it) | the bus and its publishers and consumers | per subscription the fields of `SubscriptionInner`; per publisher a program counter, the envelope, the matches whose sender it holds and its active `ClaimGuard`s. One action per critical section or await |
| `EventBusProofs`, `ReplayIndexProofs` | theorems on `EventBus` | the second one is about the index alone |
| `NdjsonStream` (extends `EventBus`) | `GET /servers/{name}/events` | `body`, `backlog`, `replayed`; one action per check, per read of the ring, per line and per poll of a branch of the select; `cancelled` records publications that were dropped |
| `NdjsonStreamProofs` (extends `ReplayIndexProofs`) | theorems on `NdjsonStream` | |
| `ActorCalls` | what a handle promises | calls and stop requests are accepted into a line, executed one at a time, and told about; no channel, task or lock |
| `ActorExecutor` | actors, callers and shutdowns | per actor its task, channel and line of waiting senders; per caller or shutdown where it is |
| `ActorExecutorProofs` | theorems on `ActorExecutor`, the refinement of `ActorCalls` among them | |
| `PeerStreamHub` | the hub | operators for subscribe and unsubscribe, which the caller's step performs under the hub lock; actions of the upstream task |
| `WsConnection` (extends it) | one connection, its writer and forwarders, over the hub | `localSubs`, `fwdSubs`, `outq`, `terminal`, per subscription a forwarder; the bus reduced to what the connection sees of it |
| `WsConnectionProofs` | theorems on `WsConnection` with its hub | |
| `PeerAdmission` | admission and forwarding decisions | operators: `Admit`, `Required` (ProxyIntent), `ShouldForward`, `Stamped`, `Provenance` |
| `PeerLinks` (extends it) | hubs, the gateway's handler, acceptor and clean-up tasks, forwarded requests | `inner`, `senders`, `contexts`, `status`; one action per lock held or answer awaited |
| `PeerLinksProofs` | theorems on `PeerLinks` | |
| `Repositories` | the tables and the decisions on them | operators: `Identity`, `PutConflicts`, `GetLocal`, `ResolveNodeId` |
| `ResourceServer` (extends it) | start-up, crashes, and the resource requests | the tables, the directory, the actors' change counts, per request where it is; one action per transaction or call of an actor |
| `ResourceServerProofs` | theorems on `ResourceServer` | |
| `SirenPages` (extends `PeerAdmission`) | pages, routes, a crawling client | `contexts`, `page`; `Enter`, `Follow`, `Bookmark`, `Negotiate`, `Leave` |
| `SirenPagesProofs` | theorems on `SirenPages` | |
| `Query`, `Topics` | query evaluation; segments of a topic pattern and their matching | operators |
| `Caql` (extends them) | the topic parser, the lexer and the parser | `raw`, the topic as written, goes through `SplitTopic`, the lexer, `ParseFilter` and `ParseSegments`; the lexer is a state machine over the text, one action per kind of token; the parser is a family of operators |
| `CaqlReference` | the language, defined independently | the spelling of a token, the set of trees a token sequence derives, the truth of a predicate, the topics a pattern text denotes |
| `MC*` | instances for TLC | policies, limits, inputs, symmetry |

Abstractions.

- An envelope is its stream, sequence and coalesce key; in the bus a topic
  pattern is the set of streams it matches; a frame is an event with its
  number, a gap, a close notice, or a control frame. Publishers serve their
  matches in any order, because the code iterates a hash map.
- Tokio's bounded channel is modelled with its line of waiters: a permit freed
  while senders wait is theirs, so `try_send` fails until they are served. In
  `WsConnection` forwarders that wait for the outbound queue are served in any
  order. Panic and abort of an actor are steps that may happen at any await.
  Ids are never reused in the code, so a subscription id stands for one life.
- In `WsConnection` the bus is the view from one subscription: publishers are
  concurrent, and the commit that removes a slow or exhausted subscription is a
  step of its own after the send, as in `EventBus`. So a second publisher can
  get an envelope in after one was refused, and the client sees a hole. The
  forwarder's select polls the slow-consumer oneshot first and the queue
  afterwards, in two steps, and so does the select it waits in for room in the
  outbound queue; publishers act in between. `refusals` and `discarded` record
  which events the bus refused and which the forwarder let go.
- In `PeerLinks` a connection is the n-th attempt of a hub, and its admission
  context a function of the headers it was dialled with. The link may die at
  any moment. A secret is equal to itself or not. A header map is a function
  from names to the values added under them, in order, and a name is the family
  its prefix puts it in with the rest; of the headers the gateway stamps there
  is one for the external bases, one for its own name and one for the caller.
- In `ResourceServer` a snapshot is the boot and the number of changes of the
  actor. Every redb transaction is one step and may fail where the code has an
  error path; the process may end between any two steps and starts again with
  the tables it left.
- In `SirenPages` a page is the set of requests its links and actions stand
  for. Every peer has one resource with one transition and one stream.
- The scheme of a link counts in `SirenPages`: an http url is a request, a ws
  url an upgrade, and only the socket route answers one.
- In `NdjsonStream` `ReplayOf` is the stream a request's pattern names for the
  replay, which the code reads from the last segments and not from the kind, so
  it may be a stream that the live pattern (`Topic`) does not match.
- In `Caql` a text is a sequence of atoms, where a keyword is one atom and one
  letter stands for those outside ASCII, with the two bytes it has; numbers are
  fixed-point integers with `Scale` decimal places. `regex::Regex` is the
  constant `Regexes`: which texts compile, and which segments each matches.

Definitions marked "faulty" are never used by a specification: each is a
plausible bug of the definition after it, and the property it is paired with in
`PROJECT.json` fails when it is put in its place.

## Runs

Passing runs.

- `bus_quota` (two publishers in `publish`; a Backpressure and a DropNewest
  subscription, each with limit 2; three envelopes; queues of one):
  `QuotaRespected`, `QuotaConserved`, `ExhaustedIsReaped`, `InFlightExact`.
  Two publishers are enough for every pair of claim, send, commit and refund;
  with limit 2 and a queue of one the second envelope has to wait (or is
  dropped), so the last slot is claimed, given back and claimed again.
- `bus_liveness` (a limited Backpressure and a Disconnect subscription; one
  publisher in `publish`, one in `try_publish`; two envelopes, queues of one):
  `PublishReturns`, `QuotaEndsStream`, under fairness. The second envelope
  waits on one subscription and disconnects the other.
- `ndjson` (an event-stream request with the Disconnect policy, with or
  without replay, next to a limited Backpressure consumer; one publisher in
  `publish`, one in `try_publish`; ring and queues of one, two envelopes):
  `TypeOK`, `NoLineTwice`, `NothingMissed`, `AcceptedIsWritten` (a body that
  ends without a stream-gap has written everything the bus put into its
  queue), and of the bus `NoticeNamesSent` and `IndexBounded`. A
  ring of one is full after the first envelope, so the second evicts; two
  envelopes are enough for one to be both in the ring and in the queue, and for
  the queue to overflow. The Backpressure consumer makes the publisher wait,
  and a publisher that waits can be cancelled before it serves the request.
- `actors` (one actor, two calls, two shutdowns, queue of one, handlers that
  return but may panic): `KeepsPromise`, the refinement below, `TypeOK`,
  `OutcomeMeansRan`, `ShutdownLeavesNone`, `StopIsFinal`,
  `CallsReturn`, `ShutdownReturns`. With a queue of one the second call waits
  in line, and the Stop of either shutdown is behind it or in front of it.
- `ws_safety` (a local subscription with limit 3 and as many events, two
  forwarded ones on one key, cap of two subscriptions, all queues of one):
  `TypeOK`, `SubsTracked`, `RefcountExact`, `EndedIsReported`,
  `HolesExplained`. With a queue of one on the bus the second event is refused
  while the first is queued, and the third can get in before the commit removes
  the subscription: a hole the client sees. What arrives is in order and never
  twice, and every hole is an event the bus refused or the forwarder let go
  when the bus dropped its end. Two forwarded subscriptions make joining,
  sharing and last release happen, and two streams let a key be opened again.
  Longer outbound queues are the theorem's business.
- `peers` (a hub that dials twice with admissible and inadmissible offers, a
  token that is also good for a route nobody dials, one request): `TypeOK`,
  `SenderConfirmed`, `ContextHasOwner`, `ProvenanceHonest`. The request
  carries forged values under every name the gateway stamps. Two attempts
  are what it takes for the tasks of an old connection to meet those of a new
  one of the same name; the hub is the target of the request and, with its token,
  also the caller.
- `resources` (two identities, three ids of which one is client-chosen, two
  requests per boot, two boots, one failed write, one change per actor):
  `IdentityFirst`, `IdsStable`, `ReadsOwnEffect`, `StoreCurrent`,
  `NodeIdStable`. Two boots are one crash and one recovery, with the
  configuration and the explicit node id free to change between them.
- `pages` (a peer with any set of capabilities):
  `AffordancesHonoured`, `CrawlFindsAllowed`. Nothing is bounded: the state
  space is finite. Three links are the depth of the page graph. The gateway
  serves what a page shows except two kinds of link on forwarded pages, which
  it never serves; the property says so in both directions.
- `caql` (every text of up to three atoms, every literal of up to three
  characters between its quotes, every numeral of up to four, nested sentences
  with one or two `not`s and the same with any one atom left out, overlapping
  projections, every topic pattern of up to three segments, and topics that are
  empty, have no `ql`, several, or an encoded one, a regex that does not
  compile, or a `?` or `/` inside a regex): `TokensSpellSource`,
  `ParseIsGrammar`, `VerdictIsMeaning`, `ProjectionFaithful`. The reference has
  its own definition of a numeral and its value (by positions), of the end and
  the content of a literal, and of the segments of a pattern.

Bounds (`MaxSeq`, `MaxEvents`, `MaxControls`, `MaxStreams`, `Attempts`,
`MaxBoots`, `MaxChanges`, `MaxFaults`, `MaxText`, `MaxQuoted`, `MaxNumeral`,
`MaxSegments`) only limit how
many envelopes, requests, dials, crashes and texts there are. All passing runs
but `pages` disable deadlock checking: when the bounded input is used up and
every party has stopped, the system rests.

Four properties carry a condition that is part of what they say.
`NothingMissed` speaks of envelopes whose publication came to its end,
`IdsStable` speaks of identities that were not registered by two requests at
once, and `StoreCurrent` of resources whose requests did not overlap, whose
writes did not fail and whose transitions completed; the models record in
`cancelled`, `raced` and `lag` when that was not so. `AffordancesHonoured`
speaks of peers whose connection has not changed since the page was rendered,
and names the two kinds of link that are dead. The next section says what
happens outside these conditions.

Refinement. `ActorCalls` states what an actor's handle promises: accepted
calls are executed in the order of their acceptance, one at a time and at most
once, none after `on_stop`; "answered" is told only of a call that completed,
"lost" only of one that did not and never will, "refused" only of one that was
never accepted. `KeepsPromise` is that specification under a mapping that hides
the tasks, the mutexes, the joins and the waiting for capacity of
`ActorExecutor`: the line of an actor is its queue of commands, calls and stops
alike, and a caller waiting for a permit is still asking.

## Promises that do not hold

Three runs check one statement of the repository each that the code does not
keep; the counterexample is short and is the finding.

- `node_stuck`: `ActorHandle::shutdown` awaits room in the queue outside its
  timeout (`runtime/executor.rs:208`), so a hanging handler behind a full queue
  blocks `Node::shutdown`, which promises a bound (`runtime/node.rs:285`).
- `hub_dead_stream`: the map entry keeps a broadcast sender
  (`http/peer_streams.rs:123`), so subscribers never see the upstream end, and
  later ones join the dead stream.
- `peers_reconnect`: the handle of an acceptor task is stored after the task
  was spawned (`peer.rs:1049`). A task that fails at once has removed it
  before, and from then on the name is taken and every dial is a 409.

More statements of the repository do not hold. Each is written down next to the
properties of its module under the name given here; put in the place of the
properties of the run's cfg, TLC refutes it.

- `GapAlwaysFits` (`ws_safety`): the terminal channel of a connection holds one
  frame (`http/ws.rs:384`), which a control frame or another subscription's gap
  may be. The stream-gap is then dropped, although "a slow-consumer / gap notice
  can always reach the wire" (`http/ws.rs:65`; `docs/event-envelope.md:79`).
- `DisconnectReported` (`ws_safety`): the forwarder polls the notice, then the
  queue (`http/ws.rs:398`). A subscription disconnected in between with an empty
  queue ends without the stream-gap that `http/ws.rs:362` promises.
- `InFlightIsLast` (`ws_safety`): when the limit of a subscription is used up
  its forwarder can drop the envelope it holds and then deliver a later one;
  the comment takes the loop to be about to end (`http/ws.rs:422`).
- `OverflowAnnounced` (`ndjson`): the same two polls in the NDJSON body
  (`http/routes.rs:1541`, `1559`). The publisher's envelope was refused, the
  body empties its queue and finds the notice quiet, the commit fires the notice
  and drops the sender, and the poll of the queue ends the response: the
  "unexplained EOF" that `http/routes.rs:1540` rules out. So on neither
  transport does a stream-gap follow every overflow.
- `ForwardWithinCeilings` (`peers`): a request is checked against the context of
  one connection and sent over the next one of that name
  (`http/routes.rs:307`). An invoke checked against read and invoke is served
  over a tunnel that negotiated read, although the negotiated set is "the
  ceiling for both gateway forwarding and rendered hypermedia"
  (`docs/peers.md:171`, `259`; `peer.rs:790`).
- `StreamLinksOpen` (`pages`): the stream and monitor links of a forwarded page
  are ws urls below `/servers/{peer}` (`http/render.rs:58`), where the router
  has the NDJSON route only (`http/routes.rs:216`); `docs/peers.md:179` says
  that `stream.subscribe` permits stream links.
- `NumbersAreJson` (`caql`): the lexer leaves digits and dots to
  `str::parse::<f64>`, which takes `1.`, `+1` and `01` (`caql/lex.rs:223`;
  `docs/caql.md:55`: "Numbers are JSON numbers").
- `StringsDenoteText` (`caql`): every byte of a literal is pushed as a character
  (`caql/lex.rs:188`), so one outside ASCII equals no payload (`docs/caql.md:54`
  knows backslash escapes only).
- `IdentifiersAreUnicode` (`caql`): a letter outside ASCII is an unexpected
  character (`caql/lex.rs:233`; `docs/caql.md:52`: "unquoted Unicode XID").
- `InTakesAnArray` (`caql`): `in` takes any value (`caql/parse.rs:161`) and
  matches nothing unless it is an array (`caql/mod.rs:26`: "`in` requires an
  array value").

The models reach further states that a reader of the code may not expect. No
property claims the contrary:

- Teardown of a WebSocket connection awaits the writer before it unsubscribes
  (`http/ws.rs:350`); the writer ends when the forwarders drop their senders,
  idle forwarders end when they are unsubscribed. With no further event nothing
  moves.
- Sequences are allocated outside the ring's lock, so the ring can hold a
  stream's envelopes out of order (`events/replay.rs:61`).
- `last_delivered` is committed after the send, so a slow-consumer notice can
  name an envelope that was delivered but was not the last (`events/bus.rs:594`).
- `try_publish` charges the quota after the send and does not look at slots
  claimed by others; next to `publish` it can exceed a limit
  (`events/bus.rs:283`). A coalescing subscription with limit 0 gets one
  envelope (`events/bus.rs:478`). The theorems state both as assumptions.
- A publication that is cancelled while it waits for a Backpressure queue
  (`events/bus.rs:547`) has put the envelope into the ring and reached some of
  its matches. The others never get it and get no notice, though a later replay
  shows it.
- A response body that is dropped before its first poll has no guard: its
  subscription stays in the bus until a publication finds the receiver closed
  (`http/routes.rs:1526`; `docs/events.md:159` promises an immediate
  unsubscribe).
- The clean-up task of an old connection removes by name, so it can take out
  the sender and context of a reconnect: the maps stay sound, but a live tunnel
  is no longer reachable (`peer.rs:1103`).
- The persisted status of a peer can stay `connected` after the tunnel is gone:
  whoever comes second of the acceptor task and the clean-up task decides, and
  the clean-up task records nothing (`peer.rs:1042`).
- Two registrations of one identity at the same time can both write a record
  (`persistence/redb.rs:116`).
- Two requests on one resource at the same time can leave the older snapshot in
  the store (`http/core.rs:178`), and so can a listing, which reads every actor
  before it stores anything (`http/core.rs:68`).
- The self link of a forwarded server page is joined to the peer's base, and no
  route answers it (`http/render.rs:23`).
- A topic is cut at its first `?` and its path at every `/`, also inside a
  `{regex}` segment (`events/topic.rs:71`): such a regex becomes literals, or
  its rest a parameter list without `ql`.

## Fairness

The tokio runtime polls whatever can run: publishers, forwarders, the writer,
the dispatcher, actor tasks and callers have weak fairness. Timers fire, so
the steps of a shutdown do too. Consumers of the bus are assumed to keep
receiving (`bus_liveness` only: a Backpressure publisher waits for them by
design). Handlers return only in `LiveSpec` of the executor; `node_stuck` drops
that assumption, since `shutdown` promises a bound without it. Subscribing,
publishing, cancelling, leaving, and the upstream's lines and end are never
fair. A connected client reads, which is weak fairness of the writer. The
specifications of peers, resources, NDJSON bodies, pages and queries state no
fairness and are checked for safety only: a peer may stay away, and a client
may stop reading or asking.

## Proofs

Every theorem holds for all values of the constants that satisfy the named
assumptions of the modules, and those only say what the constants are: sets,
functions on them, positive capacities, distinct kinds of parties, an absent
value that is not one of the present ones. TLC evaluates them on every run.
Bounds such as `MaxSeq`, `MaxEvents`, `MaxBoots` or `Attempts` are arbitrary in
the theorems. All proofs have the same frame: an inductive invariant, one lemma
per action or group of actions that it survives, and the property from it.

`EventBusProofs` (`BusAssumption`; there are finitely many publishers):

- `TypeCorrect`: `TypeOK`. Needs two facts besides: a publisher outside `idle`
  has an envelope, and one that is serving a match holds a guard on it (`TInv`).
- `InFlightCorrect` and `ExhaustionCorrect`: `in_flight` is the number of
  active guards of a live subscription, and one without quota is kept only by a
  claim. Neither is inductive alone. `CInv` adds where guards can be (only in
  the loop of `publish`, never on coalescing subscriptions), that an unused
  subscription is untouched, and that being unlimited does not change. The step
  is one lemma per action; the counting is done by lemmas on adding and
  removing one publisher from the set of claimants.
- `QuotaConservation` and `QuotaCorrect`: sent, remaining and claimed slots add
  up to the limit, hence the limit holds. `QuotaConserved` is about live
  subscriptions only, and a removed one may still be sent to by publishers that
  claimed before: `QuotaBound` carries the inequality over the removal (`QInv`).
  The theorems assume `ClaimsOnly`: all publishers use `publish`, and no
  coalescing subscription has limit 0. Both are needed, as the section on
  promises says.
- `NoticeCorrect`: `NoticeNamesSent`. The notice copies `last_delivered`, which
  is committed after the send: `NInv` adds that `last_delivered`, and an
  envelope sent but not committed, are in the history of the subscription.

`ReplayIndexProofs`: `IndexCorrect`, that is `IndexBounded`. Evicting and
pruning are separate steps, so the equation alone does not survive a prune that
hits an id somebody else answers for. `XInv` says that an id has one holder, a
ring or one publisher, and rests on the sequencer: an id just allocated is
above every id in the index.

`ActorExecutorProofs` (`ExecutorAssumption`; any numbers of actors, callers and
shutdowns):

- `TypeCorrect`, `OutcomeCorrect`, `ShutdownCorrect`, `StopFinal`: `TypeOK`,
  `OutcomeMeansRan`, `ShutdownLeavesNone`, `StopIsFinal`. `IInv` follows a
  command: in one place of one queue and untouched, or in hand and begun, or
  settled, with a reply slot that says which; a shutdown has dealt with every
  entry before the one it is at, and whoever took a join handle and released
  its mutex saw the task over.
- `PromiseKept`: the executor implements `ActorCalls`. Every action is mapped,
  under `IInv`, to an action of the promise or to a stutter. The initial states
  map to initial states.

`WsConnectionProofs` (`WsAssumption`, `HubAssumption`):

- `TypeCorrect` and `RefcountCorrect`: `TypeOK`, `RefcountExact`. They need
  each other: the hub decrements without a check, and only exact counts keep it
  from going below zero. `BInv` adds that finitely many subscriptions were ever
  started, so that what is counted is finite.
- `TrackingCorrect` and `ReportingCorrect`: `SubsTracked`, `EndedIsReported`,
  inductive with `BInv`.
- `HolesAccountedFor`: `HolesExplained`. `HInv` follows the events of a
  subscription from the publisher to the wire: what is written comes before
  what waits in the outbound queue, then comes the one in the forwarder's hand,
  then those in the queue of the bus, and every number up to the last published
  one is in one of these places, refused or let go, while the subscription is
  on the bus or its forwarder runs. It holds for any number of events, limits
  and queue sizes. That a stream-gap follows is not claimed: `GapAlwaysFits`
  and `DisconnectReported` do not hold. Frames left in the queue of a writer
  that has ended are never written, so the property speaks of the queue while
  the writer runs.

`NdjsonStreamProofs` (`BusAssumption`, `HttpAssumption`; any requests,
subscriptions, publishers, policies and capacities, and a ring of any size):

- `WrittenOnce`, `ReplayMeetsLive`, `AcceptedWritten`: `NoLineTwice`,
  `NothingMissed`, `AcceptedIsWritten`. A step of the response body is a step
  of a consumer of the bus or none (`StreamIsBus`), so the invariants of the
  bus and of the index carry over (`BInv`).
- `LineInv` is what `NoLineTwice` needs: an id names one envelope, whoever holds
  it; an envelope goes through a queue once, so what a publisher may still send
  is not queued; and what was replayed before it comes through the queue is
  remembered in `replayed_event_ids`. The sequencer is what makes it true: a
  new envelope is above all that are known.
- `ReachInv` is what the other two need: a retained envelope the body has not
  reached is still in the hands of a publisher that will offer it to the
  subscription, or was cancelled (`RetainedReached`); what was sent is written
  or on its way (`SentReached`); a running body lost its subscription only to
  an overflow that left a notice (`EndExplained`). The order of subscribing and
  reading the ring is used in one place: when the ring is read, the publishers
  that are past the snapshot have seen the subscription.
- The proof changed what was claimed. `NothingMissed` used to hold on the run
  because no publisher could be cancelled there while a request waited to be
  served; it is false of cancelled publications, and the run now has them.

`PeerLinksProofs` (`LinksAssumption`, `AdmissionAssumption`; any offers and
requests): `TypeCorrect`, `ConfirmedSender`, `OwnedContext`,
`ProvenanceEstablished` for `TypeOK`, `SenderConfirmed`, `ContextHasOwner`,
`ProvenanceHonest`. The invariant has three parts. A connection is untouched
until it is dialled, runs a task only when admitted, and has a sender only when
confirmed (`LinkInv`). At most one task holds each of the two locks that are
kept over a step (`LockInv`). A request in flight that shows a token has a
caller with the admission of a connection that was dialled once and for all,
under that token and the secret of its route (`ReqInv`); the connection it is
served over may be another than the one it was checked against, and nothing is
claimed of that one's capabilities (`ForwardWithinCeilings` does not
hold). For provenance a lemma on `ForwardHeaders` says that none of the stamped names survives the
filter, so the appended value is the only one under its name; that the first
value of the gateway's header is taken for its name needs `Gateway # None`. A
stamped name may itself be listed in `Connection`, and the property allows for
it: the filter removes the inbound value, and the stamp is put on afterwards.

`ResourceServerProofs` (`ServerAssumption`, `RepositoriesAssumption`): `RecordedFirst`, `StableIds`,
`StableNodeId`, `OwnEffectRead`, `CurrentStore` for `IdentityFirst`,
`IdsStable`, `NodeIdStable`, `ReadsOwnEffect`, `StoreCurrent`. Each has a part
of `IInv` of its own: what the tables give a start without an explicit node id
is the id last served, before and after each of the two rows (`NodeInv`);
whoever is about to enter the directory has a record (`DirInv`); the snapshot
read after a transition is at least as new as the change (`OwnInv`); what a
registration found before its put still holds when it writes, unless two were
deciding at once (`RecordInv`); a change is in the store or one request is
bringing it there (`StoreInv`).

`SirenPagesProofs` (`PagesAssumption`): `LinksWork` and `CrawlComplete`, that is
`AffordancesHonoured` and `CrawlFindsAllowed`. The first says that the gateway
serves what is on the page and never serves the two kinds of dead link
(`Dead`). It is inductive once capabilities are known to be capabilities,
because the pages are: whatever request the gateway answers with a page, all
that is on the page but the dead links passes the gates of the gateway under
the contexts of that moment (`AnswersHonoured`, by cases on the route, the
socket one included), and a peer that changes its context changes the answers
to its own links only. The crawl has two halves, both about the contexts of one moment: following links leads
from what readable peers allow to what they allow (`FollowAllowed`), and the
way to each capability is on the pages, at most two rounds from the root page
(`CrawlReaches`).

Only model-checked:

- the liveness properties: reasoning with fairness is out of the prover's
  reach;
- `TokensSpellSource`, `ParseIsGrammar`, `VerdictIsMeaning`,
  `ProjectionFaithful`: they are about what recursive operators of `Caql`,
  `Query` and `Topics` compute; what a recursive definition computes for every
  input needs an induction the provers do not have.

## Not modelled

- The tunnel's wire format, TLS and the CONNECT proxy (`tunnel.rs`): pure I/O
  without state between attempts; their success or failure is a step of
  `PeerLinks`.
- Record encoding and the listing of peers in `persistence/`, the builder
  methods and listeners of `server.rs`, request metadata in
  `runtime/context.rs`: data that is passed on.
- Layout, titles, media types and percent-encoding in `http/render.rs`,
  `siren.rs` and `links.rs`: formatting.
- Floating-point rounding and overflow in CaQL, and more than one letter outside
  ASCII.
- Data types and serialisation (`runtime/resource.rs`, `transition.rs`,
  `events/wire.rs`), the macros, the job-runner example: no shared state.

## Plan

1. The bus, the executor, the connection and the hub, the peers, the resources,
   the NDJSON body, the pages and the query language: done.
2. Proofs on the bus and the index, the NDJSON body, the executor and its
   refinement, the connection and the hub, the peers, the resources and the
   pages: done. Every safety invariant a run checks is a theorem, but for the
   four on the query language.
3. Left: the hazards without a property (`PROJECT.json`), most of which the
   section on promises describes as states the code does reach.
