----------------------------- MODULE PeerLinks -----------------------------
(***************************************************************************)
(* Peering between hubs and one gateway (peer.rs, tunnel.rs, and the peer  *)
(* routes of http/routes.rs).  A hub dials, upgrades and serves requests   *)
(* over the tunnel until it breaks, then backs off and dials again.  For   *)
(* every upgrade the gateway runs the HTTP handler, the spawner            *)
(* (on_upgraded), the acceptor task (drive_acceptor) and the connection's  *)
(* clean-up task, which share three maps keyed by route name: `inner`      *)
(* (running acceptor tasks), `senders` and `contexts`, each behind a lock  *)
(* of its own.  Requests for /servers/{route} read `contexts` and          *)
(* `senders` one after the other and are sent over the tunnel.             *)
(*                                                                         *)
(* A connection is <<hub, n>>, the hub's n-th attempt; its admission       *)
(* context is a function of the headers it was dialled with.               *)
(***************************************************************************)
EXTENDS PeerAdmission

CONSTANTS Hubs,
          RouteOf,      \* RouteOf[hub]: the route name it dials
          Offers,       \* Offers[conn]: the headers a hub may dial with at its n-th attempt
          Attempts,     \* bound: Attempts[hub], how often it dials
          Requests,     \* request tasks at the gateway
          Queries,      \* what they may ask: see NoQuery
          Gateway       \* the gateway's own name

Conns == UNION {{<<h, n>> : n \in 1..Attempts[h]} : h \in Hubs}
Routes == {RouteOf[h] : h \in Hubs}
Route(c) == RouteOf[c[1]]

ASSUME LinksAssumption ==
  /\ Attempts \in [Hubs -> Nat]
  /\ DOMAIN RouteOf = Hubs /\ DOMAIN Offers = Conns
  /\ None \notin Hubs /\ None \notin Conns /\ Gateway # None

VARIABLES
  hub,        \* hub[h]: where the PeerClient loop is
  tries,      \* tries[h]: attempts so far; the current one is <<h, tries[h]>>
  peerInit,   \* the hubs' PeerInitState: connection ids awaiting confirmation
  offer,      \* offer[c]: the headers of the upgrade request
  link,       \* link[c]: the transport
  up,         \* up[c]: the peers_upgrade handler and then on_upgraded
  task,       \* task[c]: the acceptor task
  cleanup,    \* cleanup[c]: the task that awaits the h2 connection
  inner,      \* the routes with an acceptor task handle
  senders,    \* senders[route]: the connection requests are sent over, or None
  contexts,   \* contexts[route]: the admitted connection, or None
  status,     \* status[route]: the persisted PeerConnectionStatus
  confirmed,  \* history: connections whose hub answered the confirmation
  req         \* req[r]: a request and how far it got

hubVars == <<hub, tries, peerInit, offer>>
gatewayVars == <<up, task, cleanup, inner, senders, contexts, status, confirmed>>
vars == <<hub, tries, peerInit, offer, link, up, task, cleanup, inner, senders, contexts, status,
          confirmed, req>>

NoQuery == [target |-> None, method |-> "GET", rest |-> <<>>, params |-> {}, token |-> None,
            bearer |-> None, headers |-> <<>>, listed |-> {}]
NewRequest == [pc |-> "new", q |-> NoQuery, todo |-> {}, live |-> {}, caller |-> None,
               ctx |-> None, via |-> None, status |-> 0, seen |-> <<>>, prov |-> Local]

UpStates == {"none", "sent", "unclaimed", "switching", "spawned", "stored", "refused"}
TaskStates == {"none", "new", "drive", "asked", "answered", "registered", "broken", "forgotten",
               "recordedOk", "recordedErr", "innerOk", "innerErr", "ended"}

TypeOK ==
  /\ hub \in [Hubs -> {"idle", "dialing", "serving"}]
  /\ \A h \in Hubs : tries[h] \in 0..Attempts[h]
  /\ peerInit \subseteq Conns /\ confirmed \subseteq Conns
  /\ link \in [Conns -> {"none", "open", "dead"}]
  /\ up \in [Conns -> UpStates]
  /\ task \in [Conns -> TaskStates]
  /\ cleanup \in [Conns -> {"none", "watch", "cleared", "done"}]
  /\ inner \subseteq Routes
  /\ senders \in [Routes -> Conns \cup {None}]
  /\ contexts \in [Routes -> Conns \cup {None}]
  /\ Cardinality({c \in Conns : cleanup[c] = "cleared"}) <= 1              \* one holds `senders`
  /\ Cardinality({c \in Conns : task[c] \in {"innerOk", "innerErr"}}) <= 1   \* one holds `inner`
  /\ \A r \in Requests : req[r].status \in {0, 200, 401, 403, 404, 502}

Init ==
  /\ hub = [h \in Hubs |-> "idle"]
  /\ tries = [h \in Hubs |-> 0]
  /\ peerInit = {} /\ confirmed = {}
  /\ offer = [c \in Conns |-> None]
  /\ link = [c \in Conns |-> "none"]
  /\ up = [c \in Conns |-> "none"]
  /\ task = [c \in Conns |-> "none"]
  /\ cleanup = [c \in Conns |-> "none"]
  /\ inner = {}
  /\ senders = [n \in Routes |-> None]
  /\ contexts = [n \in Routes |-> None]
  /\ status = [n \in Routes |-> "none"]
  /\ req = [r \in Requests |-> NewRequest]

-----------------------------------------------------------------------------
(* The hub: PeerClient::spawn and attempt_once.  The connection id is      *)
(* registered before the dial and consumed when the attempt is over.       *)
Current(h) == <<h, tries[h]>>

Dial(h) ==
  /\ hub[h] = "idle" /\ tries[h] < Attempts[h]
  /\ LET c == <<h, tries[h] + 1>>
     IN /\ \E o \in Offers[c] : offer' = [offer EXCEPT ![c] = o]
        /\ peerInit' = peerInit \cup {c}
        /\ link' = [link EXCEPT ![c] = "open"]
        /\ up' = [up EXCEPT ![c] = "sent"]
  /\ tries' = [tries EXCEPT ![h] = @ + 1]
  /\ hub' = [hub EXCEPT ![h] = "dialing"]
  /\ UNCHANGED <<task, cleanup, inner, senders, contexts, status, confirmed, req>>

(* dial_initiator has its 101. *)
DialUpgraded(h) ==
  /\ hub[h] = "dialing"
  /\ up[Current(h)] \in {"switching", "spawned", "stored"} /\ link[Current(h)] = "open"
  /\ hub' = [hub EXCEPT ![h] = "serving"]
  /\ UNCHANGED <<tries, peerInit, offer, link, gatewayVars, req>>

(* The attempt is over: refused, or the transport broke; then the backoff. *)
AttemptEnds(h) ==
  /\ hub[h] \in {"dialing", "serving"}
  /\ up[Current(h)] = "refused" \/ link[Current(h)] = "dead"
  /\ peerInit' = peerInit \ {Current(h)}
  /\ link' = [link EXCEPT ![Current(h)] = "dead"]
  /\ hub' = [hub EXCEPT ![h] = "idle"]
  /\ UNCHANGED <<tries, offer, gatewayVars, req>>

(* The network, or either process, drops the connection. *)
LinkFails(c) ==
  /\ link[c] = "open"
  /\ link' = [link EXCEPT ![c] = "dead"]
  /\ UNCHANGED <<hubVars, gatewayVars, req>>

-----------------------------------------------------------------------------
(* The gateway's locks: a clean-up task holds `senders` until it has       *)
(* removed the context, a finishing acceptor task holds `inner` until it   *)
(* has recorded the outcome.                                               *)
SendersFree == \A c \in Conns : cleanup[c] # "cleared"
InnerFree == \A c \in Conns : task[c] \notin {"innerOk", "innerErr"}

(* peers_upgrade, has_active_peer: first the senders, then the tasks. *)
CheckSenders(c) ==
  /\ up[c] = "sent" /\ SendersFree
  /\ up' = [up EXCEPT ![c] = IF Admit(Route(c), offer[c]).ok /\ senders[Route(c)] = None
                             THEN "unclaimed" ELSE "refused"]
  /\ UNCHANGED <<hubVars, link, task, cleanup, inner, senders, contexts, status, confirmed, req>>

CheckInner(c) ==
  /\ up[c] = "unclaimed" /\ InnerFree
  /\ up' = [up EXCEPT ![c] = IF Route(c) \notin inner /\ UpgradeOk(offer[c])
                             THEN "switching" ELSE "refused"]
  /\ UNCHANGED <<hubVars, link, task, cleanup, inner, senders, contexts, status, confirmed, req>>

(* on_upgraded: spawn the acceptor task, then store its handle. *)
SpawnTask(c) ==
  /\ up[c] = "switching"
  /\ up' = [up EXCEPT ![c] = "spawned"]
  /\ task' = [task EXCEPT ![c] = "new"]
  /\ UNCHANGED <<hubVars, link, cleanup, inner, senders, contexts, status, confirmed, req>>

(* The transport is gone before hyper hands the upgraded stream over. *)
UpgradeLost(c) ==
  /\ up[c] = "switching" /\ link[c] = "dead"
  /\ up' = [up EXCEPT ![c] = "refused"]
  /\ UNCHANGED <<hubVars, link, task, cleanup, inner, senders, contexts, status, confirmed, req>>

StoreHandle(c) ==
  /\ up[c] = "spawned" /\ InnerFree
  /\ up' = [up EXCEPT ![c] = "stored"]
  /\ inner' = inner \cup {Route(c)}
  /\ UNCHANGED <<hubVars, link, task, cleanup, senders, contexts, status, confirmed, req>>

-----------------------------------------------------------------------------
(* The acceptor task. *)
Goto(c, s) == task' = [task EXCEPT ![c] = s]

InsertContext(c) ==
  /\ task[c] = "new"
  /\ contexts' = [contexts EXCEPT ![Route(c)] = c]
  /\ Goto(c, "drive")
  /\ UNCHANGED <<hubVars, link, up, cleanup, inner, senders, status, confirmed, req>>

(* drive_acceptor: the h2 handshake and the clean-up task. *)
HandshakeTrusting(c) ==   \* faulty: does not wait for the hub's confirmation
  /\ task[c] = "drive"
  /\ Goto(c, "answered") /\ cleanup' = [cleanup EXCEPT ![c] = "watch"]
  /\ UNCHANGED <<hubVars, link, up, inner, senders, contexts, status, confirmed, req>>
Handshake(c) ==
  /\ task[c] = "drive"
  /\ \/ Goto(c, "asked") /\ cleanup' = [cleanup EXCEPT ![c] = "watch"]
     \/ link[c] = "dead" /\ Goto(c, "broken") /\ UNCHANGED cleanup
  /\ UNCHANGED <<hubVars, link, up, inner, senders, contexts, status, confirmed, req>>

(* The hub's initiate_peer consumes the id and answers. *)
Confirm(c) ==
  /\ task[c] = "asked" /\ link[c] = "open" /\ hub[c[1]] = "serving" /\ Current(c[1]) = c
  /\ Goto(c, IF c \in peerInit THEN "answered" ELSE "broken")
  /\ confirmed' = IF c \in peerInit THEN confirmed \cup {c} ELSE confirmed
  /\ peerInit' = peerInit \ {c}
  /\ UNCHANGED <<hub, tries, offer, link, up, cleanup, inner, senders, contexts, status, req>>

(* The request, or collecting the answer's body, fails. *)
ConfirmBroken(c) ==
  /\ task[c] \in {"asked", "answered"} /\ link[c] = "dead"
  /\ Goto(c, "broken")
  /\ UNCHANGED <<hubVars, link, up, cleanup, inner, senders, contexts, status, confirmed, req>>

InsertSender(c) ==
  /\ task[c] = "answered" /\ SendersFree
  /\ senders' = [senders EXCEPT ![Route(c)] = c]
  /\ Goto(c, "registered")
  /\ UNCHANGED <<hubVars, link, up, cleanup, inner, contexts, status, confirmed, req>>

(* write_peer *)
WritePeer(c, s) == status' = [status EXCEPT ![Route(c)] = s]

RecordConnected(c) ==
  /\ task[c] = "registered"
  /\ WritePeer(c, "connected")
  /\ Goto(c, "recordedOk")
  /\ UNCHANGED <<hubVars, link, up, cleanup, inner, senders, contexts, confirmed, req>>

(* drive_acceptor failed: its sender is dropped, which closes the          *)
(* connection, and the context is taken out by name.                       *)
ForgetContextKeep(c) ==   \* faulty: a failed upgrade leaves its context behind
  /\ task[c] = "broken"
  /\ link' = [link EXCEPT ![c] = "dead"]
  /\ Goto(c, "forgotten")
  /\ UNCHANGED <<hubVars, up, cleanup, inner, senders, contexts, status, confirmed, req>>
ForgetContext(c) ==
  /\ task[c] = "broken"
  /\ contexts' = [contexts EXCEPT ![Route(c)] = None]
  /\ link' = [link EXCEPT ![c] = "dead"]
  /\ Goto(c, "forgotten")
  /\ UNCHANGED <<hubVars, up, cleanup, inner, senders, status, confirmed, req>>

RecordFailed(c) ==
  /\ task[c] = "forgotten"
  /\ WritePeer(c, "failed")
  /\ Goto(c, "recordedErr")
  /\ UNCHANGED <<hubVars, link, up, cleanup, inner, senders, contexts, confirmed, req>>

RemoveHandle(c) ==
  /\ task[c] \in {"recordedOk", "recordedErr"} /\ InnerFree
  /\ inner' = inner \ {Route(c)}
  /\ Goto(c, IF task[c] = "recordedOk" THEN "innerOk" ELSE "innerErr")
  /\ UNCHANGED <<hubVars, link, up, cleanup, senders, contexts, status, confirmed, req>>

(* should_record_disconnected *)
FinishTask(c) ==
  /\ task[c] \in {"innerOk", "innerErr"} /\ SendersFree
  /\ IF task[c] = "innerOk" /\ senders[Route(c)] = None THEN WritePeer(c, "disconnected")
     ELSE UNCHANGED status
  /\ Goto(c, "ended")
  /\ UNCHANGED <<hubVars, link, up, cleanup, inner, senders, contexts, confirmed, req>>

(* The clean-up task: the connection ended; remove what is under its name. *)
ClearSenderUnlocked(c) ==   \* faulty: does not hold the lock across the removal of both
  /\ cleanup[c] = "watch" /\ link[c] = "dead"
  /\ senders' = [senders EXCEPT ![Route(c)] = None]
  /\ cleanup' = [cleanup EXCEPT ![c] = "cleared"]
  /\ UNCHANGED <<hubVars, link, up, task, inner, contexts, status, confirmed, req>>
ClearSender(c) ==
  /\ cleanup[c] = "watch" /\ link[c] = "dead" /\ SendersFree
  /\ senders' = [senders EXCEPT ![Route(c)] = None]
  /\ cleanup' = [cleanup EXCEPT ![c] = "cleared"]
  /\ UNCHANGED <<hubVars, link, up, task, inner, contexts, status, confirmed, req>>

ClearContext(c) ==
  /\ cleanup[c] = "cleared"
  /\ contexts' = [contexts EXCEPT ![Route(c)] = None]
  /\ cleanup' = [cleanup EXCEPT ![c] = "done"]
  /\ UNCHANGED <<hubVars, link, up, task, inner, senders, status, confirmed, req>>

-----------------------------------------------------------------------------
(* A request at the gateway. *)
Answered(q, s) == [NewRequest EXCEPT !.pc = "done", !.q = q, !.status = s]
Reply(r, s) == req' = [req EXCEPT ![r] = Answered(@.q, s)]
Ctx(c) == Admit(Route(c), offer[c])
Wants(q) == Required(q.method, q.rest, q.params)
RequestStep(r, s) == req[r].pc = s /\ UNCHANGED <<hubVars, link, gatewayVars>>

(* maybe_forward_or_404 up to the first lock.  A request for the gateway   *)
(* itself is served there, without a tunnel leg.                           *)
VerifiedRoutes(q) == {a.route : a \in Verified(q.token, q.bearer)} \cap Routes
Arrive(r) ==
  /\ RequestStep(r, "new")
  /\ \E q \in Queries :
       IF q.target = Gateway
       THEN req' = [req EXCEPT ![r] = [Answered(q, 200) EXCEPT !.prov = Provenance(FALSE, q.headers)]]
       ELSE LET answer(s) == req' = [req EXCEPT ![r] = Answered(q, s)]
            IN CASE Wants(q) = None -> answer(404)
                 [] Wants(q) # None /\ q.token # None /\ Admissions = {} -> answer(403)
                 [] Wants(q) # None /\ q.token # None /\ Admissions # {} /\ Verified(q.token, q.bearer) = {} -> answer(401)
                 [] OTHER -> req' = [req EXCEPT ![r].pc = IF q.token = None THEN "caller" ELSE "ingress",
                                                ![r].q = q,
                                                ![r].todo = IF q.token = None THEN {} ELSE VerifiedRoutes(q)]

(* resolve_caller_ingress, one verified route at a time: the context must  *)
(* be under the caller's token and the sender registered.                  *)
IngressContext(r) ==
  /\ RequestStep(r, "ingress")
  /\ \E n \in req[r].todo :
       LET c == contexts[n]
           mine == c # None /\ Ctx(c).token = req[r].q.token
       IN req' = [req EXCEPT ![r].todo = @ \ {n},
                             ![r].pc = IF mine THEN "half" ELSE "ingress",
                             ![r].ctx = IF mine THEN c ELSE None]

IngressSender(r) ==
  /\ RequestStep(r, "half") /\ SendersFree
  /\ req' = [req EXCEPT ![r].pc = "ingress",
                        ![r].live = IF senders[Route(req[r].ctx)] # None THEN @ \cup {req[r].ctx} ELSE @,
                        ![r].ctx = None]

IngressDone(r) ==
  /\ RequestStep(r, "ingress") /\ req[r].todo = {}
  /\ IF Cardinality(req[r].live) = 1
     THEN req' = [req EXCEPT ![r].pc = "caller", ![r].caller = CHOOSE c \in req[r].live : TRUE]
     ELSE Reply(r, 403)

(* The caller's ceiling, then the target's context and its ceiling. *)
Within(c, q) == Wants(q) \in Ctx(c).negotiated
Gate(r) ==
  /\ RequestStep(r, "caller")
  /\ LET q == req[r].q
         c == IF q.target \in Routes THEN contexts[q.target] ELSE None
     IN IF req[r].caller # None /\ ~Within(req[r].caller, q) THEN Reply(r, 403)
        ELSE IF c = None THEN Reply(r, 404)
        ELSE IF ~Within(c, q) THEN Reply(r, 403)
        ELSE req' = [req EXCEPT ![r].pc = "gated", ![r].ctx = c]

TakeSender(r) ==
  /\ RequestStep(r, "gated") /\ SendersFree
  /\ LET c == senders[req[r].q.target]
     IN IF c = None THEN Reply(r, 404) ELSE req' = [req EXCEPT ![r].pc = "sending", ![r].via = c]

(* send_request: the hub's router answers on the tunnel leg, or the        *)
(* connection is gone.                                                     *)
Forward(r) ==
  /\ RequestStep(r, "sending")
  /\ LET c == req[r].via
         q == req[r].q
         headers == ForwardHeaders(q.headers, q.listed, Gateway, req[r].caller)
     IN \/ /\ link[c] = "open" /\ hub[c[1]] = "serving" /\ Current(c[1]) = c
           /\ req' = [req EXCEPT ![r].pc = "done", ![r].status = 200, ![r].seen = headers,
                                 ![r].prov = Provenance(TRUE, headers)]
        \/ link[c] = "dead" /\ Reply(r, 502)

-----------------------------------------------------------------------------
Upgrade(c) == CheckSenders(c) \/ CheckInner(c) \/ SpawnTask(c) \/ UpgradeLost(c) \/ StoreHandle(c)
Accept(c) == \/ InsertContext(c) \/ Handshake(c) \/ Confirm(c) \/ ConfirmBroken(c)
             \/ InsertSender(c) \/ RecordConnected(c) \/ ForgetContext(c) \/ RecordFailed(c)
             \/ RemoveHandle(c) \/ FinishTask(c)
CleanUp(c) == ClearSender(c) \/ ClearContext(c)
Serve(r) == \/ Arrive(r) \/ IngressContext(r) \/ IngressSender(r) \/ IngressDone(r)
            \/ Gate(r) \/ TakeSender(r) \/ Forward(r)

Next ==
  \/ \E h \in Hubs : Dial(h) \/ DialUpgraded(h) \/ AttemptEnds(h)
  \/ \E c \in Conns : LinkFails(c) \/ Upgrade(c) \/ Accept(c) \/ CleanUp(c)
  \/ \E r \in Requests : Serve(r)

Spec == Init /\ [][Next]_vars

-----------------------------------------------------------------------------
(* Requests are sent only over a connection whose hub answered the         *)
(* confirmation and whose upgrade was admitted for this very route, in     *)
(* whatever order upgrades, failures and clean-ups of one name interleave  *)
(* (drive_acceptor registers the sender last).                             *)
SenderConfirmed ==
  \A n \in Routes : senders[n] # None =>
    senders[n] \in confirmed /\ Route(senders[n]) = n /\ Ctx(senders[n]).ok

(* An admission context never outlives its connection: while it is under   *)
(* its route name, the acceptor task that will forget it or the clean-up   *)
(* task that will remove it has not finished.                              *)
ContextHasOwner ==
  \A n \in Routes : contexts[n] # None =>
    LET c == contexts[n]
    IN \/ cleanup[c] \in {"watch", "cleared"}
       \/ task[c] \in {"drive", "broken"}

Delivered(r) == req[r].pc = "done" /\ req[r].status = 200 /\ req[r].q.target # Gateway

(* A forwarded request passes two ceilings, "the caller's negotiated set    *)
(* and the target link's negotiated set" (docs/peers.md): the connection    *)
(* that served it negotiated what the request needs, and so did its         *)
(* caller's.  It does not hold of the target: Gate reads `contexts` and     *)
(* TakeSender reads `senders` later, and a reconnect in between puts the    *)
(* request that one admission allows on the tunnel of another.              *)
ForwardWithinCeilings ==
  \A r \in Requests : Delivered(r) =>
    /\ Within(req[r].via, req[r].q)
    /\ req[r].caller # None => Within(req[r].caller, req[r].q)

(* What the serving side believes about the caller is what the gateway     *)
(* established.  There is a caller exactly if the request came with a      *)
(* token, and it is a connection admitted under that token, for a route of *)
(* it whose secret the request showed, and allowed to ask this, whatever   *)
(* happened to the links meanwhile.  A header that crosses the hop is      *)
(* harmless, or the gateway put it there and it has no other value,        *)
(* whatever headers the request came with; a request served by the gateway *)
(* itself is local.                                                        *)
Established(q, c) ==
  /\ (q.token = None) <=> (c = None)
  /\ c # None => /\ Ctx(c).token = q.token /\ Within(c, q)
                 /\ \E a \in Verified(q.token, q.bearer) : a.route = Route(c)

ProvenanceHonest ==
  \A r \in Requests : req[r].pc = "done" /\ req[r].status = 200 =>
    IF req[r].q.target = Gateway THEN req[r].prov = Local
    ELSE /\ req[r].prov = [gateway |-> Gateway, caller |-> req[r].caller]
         /\ Established(req[r].q, req[r].caller)
         /\ \A n \in DOMAIN req[r].seen :
              \/ n \notin HopByHop \cup req[r].q.listed /\ n.family \notin Owned
              \/ n = ForwardedHost /\ req[r].seen[n] = <<ExternalHost(req[r].q.headers)>>
              \/ n = ForwardedBy /\ req[r].seen[n] = <<Gateway>>
              \/ n = Caller /\ req[r].seen[n] = <<req[r].caller>>

(* The upgrade and every task of the connection are over. *)
Settled(c) == /\ up[c] \in {"none", "refused", "stored"} /\ task[c] \in {"none", "ended"}
              /\ cleanup[c] \in {"none", "done"}

(* A name is free again once its connections are over: when every tunnel   *)
(* is down and every task of the gateway has returned, the next dial of    *)
(* the reconnect loop is not answered 409.                                 *)
NameIsFreed ==
  (\A c \in Conns : Settled(c) /\ link[c] # "open") =>
    \A n \in Routes : n \notin inner /\ senders[n] = None
=============================================================================
