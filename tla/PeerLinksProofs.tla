-------------------------- MODULE PeerLinksProofs --------------------------
(***************************************************************************)
(* Proofs about PeerLinks for every number of hubs, dials, requests and    *)
(* admissions, whatever headers hubs and clients send.                     *)
(***************************************************************************)
EXTENDS PeerLinks, FiniteSetTheorems, TLAPS

(* The variables that are functions are functions on the right sets. *)
RecordOf(S) == [pc : S, q : S, todo : S, live : S, caller : S, ctx : S, via : S, status : S, seen : S, prov : S]
Shape(t) == \E S : t \in RecordOf(S)
FormInv ==
  /\ tries \in [Hubs -> Nat]
  /\ offer = [c \in Conns |-> offer[c]]
  /\ req = [r \in Requests |-> req[r]] /\ \A r \in Requests : Shape(req[r])

-----------------------------------------------------------------------------
(* One connection at the gateway: it is untouched until it is dialled, its  *)
(* acceptor task runs only after its admission, and that task registers the *)
(* sender only after the hub's answer.                                      *)
ConnAt(c) ==
  /\ c[2] > tries[c[1]] => up[c] = "none"
  /\ up[c] \in {"unclaimed", "switching", "spawned", "stored"} => Ctx(c).ok
  /\ task[c] # "none" => up[c] \in {"spawned", "stored"}
  /\ task[c] = "answered" => c \in confirmed

(* One route name: what is under it belongs to a connection of that name.   *)
RouteAt(n) ==
  /\ senders[n] # None =>
       senders[n] \in confirmed /\ Route(senders[n]) = n /\ task[senders[n]] # "none"
  /\ contexts[n] # None =>
       /\ Route(contexts[n]) = n /\ task[contexts[n]] # "none"
       /\ cleanup[contexts[n]] \in {"watch", "cleared"} \/ task[contexts[n]] \in {"drive", "broken"}

LinkInv == (\A c \in Conns : ConnAt(c)) /\ (\A n \in Routes : RouteAt(n))

-----------------------------------------------------------------------------
(* One request: whoever it takes for its caller was admitted under the      *)
(* token the request proved, and the context it was checked against is that *)
(* of a dialled connection, whose admission no later dial changes.          *)
Known(c) == c \in Conns /\ up[c] # "none"
Attested(c, q) ==
  /\ Known(c) /\ Ctx(c).token = q.token
  /\ \E a \in Verified(q.token, q.bearer) : a.route = Route(c)

HasCaller(t) ==
  /\ (t.q.token = None) <=> (t.caller = None)
  /\ t.caller # None => Attested(t.caller, t.q)
IsGated(t) == /\ Known(t.ctx) /\ Within(t.ctx, t.q)
              /\ t.caller # None => Within(t.caller, t.q)
Served(t) == t.pc = "done" /\ t.status = 200 /\ t.q.target # Gateway

(* A request in transit is not for the gateway itself, and what the serving *)
(* side of an answered one saw and believed is what the gateway established.*)
InTransit == {"ingress", "half", "caller", "gated", "sending"}
Harmless(seen, q, caller) ==
  \A n \in DOMAIN seen : \/ n \notin HopByHop \cup q.listed /\ n.family \notin Owned
                         \/ n = ForwardedHost /\ seen[n] = <<ExternalHost(q.headers)>>
                         \/ n = ForwardedBy /\ seen[n] = <<Gateway>>
                         \/ n = Caller /\ seen[n] = <<caller>>
Honest(t) ==
  /\ t.pc \in InTransit => t.q.target # Gateway
  /\ t.pc = "done" /\ t.status = 200 =>
       IF t.q.target = Gateway THEN t.prov = Local
       ELSE /\ t.prov = [gateway |-> Gateway, caller |-> t.caller]
            /\ Harmless(t.seen, t.q, t.caller)

ReqOk(t) ==
  /\ Honest(t)
  /\ t.status \in {0, 200, 401, 403, 404, 502}
  /\ t.pc = "new" => t.caller = None /\ t.live = {}
  /\ t.pc \in {"ingress", "half"} =>
       t.q.token # None /\ t.todo \subseteq VerifiedRoutes(t.q) /\ \A c \in t.live : Attested(c, t.q)
  /\ t.pc = "half" => Attested(t.ctx, t.q)
  /\ t.pc \in {"caller", "gated", "sending"} \/ Served(t) => HasCaller(t)
  /\ t.pc \in {"gated", "sending"} \/ Served(t) => IsGated(t)

ReqInv == \A r \in Requests : ReqOk(req[r])

-----------------------------------------------------------------------------
LEMMA ConnIs ==
  /\ \A c \in Conns : c[1] \in Hubs /\ c[2] \in 1..Attempts[c[1]] /\ c = <<c[1], c[2]>> /\ Route(c) \in Routes
  /\ \A h \in Hubs : \A n \in 1..Attempts[h] : <<h, n>> \in Conns
<1>1. ASSUME NEW c \in Conns
      PROVE  c[1] \in Hubs /\ c[2] \in 1..Attempts[c[1]] /\ c = <<c[1], c[2]>> /\ Route(c) \in Routes
  <2>1. PICK h \in Hubs : c \in {<<h, n>> : n \in 1..Attempts[h]}
    BY DEF Conns
  <2>2. PICK n \in 1..Attempts[h] : c = <<h, n>>
    BY <2>1
  <2> QED
    BY <2>2 DEF Route, Routes
<1>2. ASSUME NEW h \in Hubs, NEW n \in 1..Attempts[h]
      PROVE  <<h, n>> \in Conns
  BY DEF Conns
<1> QED
  BY <1>1, <1>2

(* The types that every step below uses. *)
Types ==
  /\ hub \in [Hubs -> {"idle", "dialing", "serving"}] /\ tries \in [Hubs -> Nat]
  /\ peerInit \subseteq Conns /\ confirmed \subseteq Conns
  /\ offer = [c \in Conns |-> offer[c]]
  /\ link \in [Conns -> {"none", "open", "dead"}]
  /\ up \in [Conns -> UpStates] /\ task \in [Conns -> TaskStates]
  /\ cleanup \in [Conns -> {"none", "watch", "cleared", "done"}]
  /\ inner \subseteq Routes
  /\ senders \in [Routes -> Conns \cup {None}] /\ contexts \in [Routes -> Conns \cup {None}]

LEMMA TypesHold == TypeOK /\ FormInv => Types
  BY DEF TypeOK, FormInv, Types


(* A dial uses a connection that nothing was done with before. *)
LEMMA DialIsNew ==
  ASSUME Types, \A c \in Conns : ConnAt(c), NEW h \in Hubs, Dial(h)
  PROVE  LET c == <<h, tries[h] + 1>>
         IN c \in Conns /\ c[1] = h /\ c[2] = tries[h] + 1 /\ up[c] = "none" /\ task[c] = "none"
<1> DEFINE c == <<h, tries[h] + 1>>
<1>1. tries[h] \in Nat /\ Attempts[h] \in Nat /\ tries[h] < Attempts[h]
  BY LinksAssumption DEF Types, Dial
<1>2. tries[h] + 1 \in 1..Attempts[h]
  BY <1>1
<1>3. c \in Conns
  BY <1>2, ConnIs
<1>4. c[1] = h /\ c[2] = tries[h] + 1
  OBVIOUS
<1>5. ConnAt(c)
  BY <1>3
<1>6. c[2] > tries[c[1]]
  BY <1>1, <1>4
<1>7. up[c] = "none" /\ task[c] = "none"
  BY <1>5, <1>6 DEF ConnAt
<1> QED
  BY <1>3, <1>4, <1>7

(* What was dialled stays so, with the headers it was dialled with. *)
LEMMA KnownStays ==
  ASSUME Types, \A c \in Conns : ConnAt(c), [Next]_vars, NEW c \in Conns, up[c] # "none"
  PROVE  up'[c] # "none" /\ offer'[c] = offer[c]
<1>1. ASSUME NEW h \in Hubs, Dial(h)
      PROVE  up'[c] # "none" /\ offer'[c] = offer[c]
  <2> DEFINE d == <<h, tries[h] + 1>>
  <2>1. d \in Conns /\ up[d] = "none"
    BY <1>1, DialIsNew
  <2>2. up' = [up EXCEPT ![d] = "sent"] /\ \E o \in Offers[d] : offer' = [offer EXCEPT ![d] = o]
    BY <1>1 DEF Dial
  <2>3. d # c /\ up \in [Conns -> UpStates] /\ offer = [x \in Conns |-> offer[x]]
    BY <2>1 DEF Types
  <2> HIDE DEF d
  <2> QED
    BY <2>1, <2>2, <2>3
<1>2. ASSUME NEW h \in Hubs, DialUpgraded(h) \/ AttemptEnds(h)
      PROVE  UNCHANGED <<up, offer>>
  BY <1>2 DEF DialUpgraded, AttemptEnds, gatewayVars
<1>3. ASSUME NEW d \in Conns, Upgrade(d)
      PROVE  /\ UNCHANGED offer
             /\ \E s \in {"unclaimed", "switching", "spawned", "stored", "refused"} : up' = [up EXCEPT ![d] = s]
  BY <1>3 DEF Upgrade, CheckSenders, CheckInner, SpawnTask, UpgradeLost, StoreHandle, hubVars
<1>4. ASSUME NEW d \in Conns, LinkFails(d) \/ Accept(d) \/ CleanUp(d)
      PROVE  UNCHANGED <<up, offer>>
  BY <1>4 DEF LinkFails, Accept, CleanUp, InsertContext, Handshake, Confirm, ConfirmBroken, InsertSender,
              RecordConnected, ForgetContext, RecordFailed, RemoveHandle, FinishTask, ClearSender, ClearContext,
              hubVars, gatewayVars
<1>5. ASSUME NEW r \in Requests, Serve(r)
      PROVE  UNCHANGED <<up, offer>>
  BY <1>5 DEF Serve, Arrive, IngressContext, IngressSender, IngressDone, Gate, TakeSender, Forward,
              RequestStep, hubVars, gatewayVars
<1>6. CASE UNCHANGED vars
  BY <1>6 DEF vars
<1>7. up \in [Conns -> UpStates]
  BY DEF Types
<1>8. ASSUME NEW d \in Conns, Upgrade(d)
      PROVE  up'[c] # "none" /\ offer'[c] = offer[c]
  BY <1>3, <1>7, <1>8
<1> QED
  BY <1>1, <1>2, <1>4, <1>5, <1>6, <1>8 DEF Next

-----------------------------------------------------------------------------
LEMMA InitLink == Init => LinkInv
<1> SUFFICES ASSUME Init PROVE LinkInv
  OBVIOUS
<1>1. \A c \in Conns : ConnAt(c)
  BY DEF Init, ConnAt
<1>2. \A n \in Routes : RouteAt(n)
  BY DEF Init, RouteAt
<1> QED
  BY <1>1, <1>2 DEF LinkInv

(* The upgrade handler: the admission comes first, the task last. *)
LEMMA UpgradeLink ==
  ASSUME Types, LinkInv, NEW c \in Conns, Upgrade(c)
  PROVE  LinkInv'
<1>1. /\ up \in [Conns -> UpStates] /\ task \in [Conns -> TaskStates]
      /\ senders \in [Routes -> Conns \cup {None}] /\ contexts \in [Routes -> Conns \cup {None}]
  BY DEF Types
<1>2. UNCHANGED <<tries, offer, cleanup, senders, contexts, confirmed>>
  BY DEF Upgrade, CheckSenders, CheckInner, SpawnTask, UpgradeLost, StoreHandle, hubVars
<1>3. ConnAt(c) /\ up[c] # "none"
  BY DEF LinkInv, Upgrade, CheckSenders, CheckInner, SpawnTask, UpgradeLost, StoreHandle
<1>4. \/ UNCHANGED task
      \/ /\ task' = [task EXCEPT ![c] = "new"] /\ up[c] = "switching"
         /\ up' = [up EXCEPT ![c] = "spawned"]
  BY DEF Upgrade, CheckSenders, CheckInner, SpawnTask, UpgradeLost, StoreHandle
<1>5. PICK s \in UpStates :
        /\ up' = [up EXCEPT ![c] = s]
        /\ s \in {"unclaimed", "switching", "spawned", "stored"} => Ctx(c).ok
        /\ task[c] # "none" => s \in {"spawned", "stored"}
  <2>1. CASE CheckSenders(c)
    <3>1. up[c] = "sent" /\ up' = [up EXCEPT ![c] = IF Ctx(c).ok /\ senders[Route(c)] = None THEN "unclaimed" ELSE "refused"]
      BY <2>1 DEF CheckSenders, Ctx
    <3> QED
      BY <1>3, <3>1 DEF ConnAt, UpStates
  <2>2. CASE CheckInner(c)
    <3>1. up[c] = "unclaimed" /\ \E s \in {"switching", "refused"} : up' = [up EXCEPT ![c] = s]
      BY <2>2 DEF CheckInner
    <3> QED
      BY <1>3, <3>1 DEF ConnAt, UpStates
  <2>3. CASE SpawnTask(c) \/ UpgradeLost(c)
    <3>1. up[c] = "switching" /\ \E s \in {"spawned", "refused"} : up' = [up EXCEPT ![c] = s]
      BY <2>3 DEF SpawnTask, UpgradeLost
    <3> QED
      BY <1>3, <3>1 DEF ConnAt, UpStates
  <2>4. CASE StoreHandle(c)
    <3>1. up[c] = "spawned" /\ up' = [up EXCEPT ![c] = "stored"]
      BY <2>4 DEF StoreHandle
    <3> QED
      BY <1>3, <3>1 DEF ConnAt, UpStates
  <2> QED
    BY <2>1, <2>2, <2>3, <2>4 DEF Upgrade
<1>6. ASSUME NEW d \in Conns PROVE ConnAt(d)'
  <2>1. ConnAt(d)
    BY DEF LinkInv
  <2>2. CASE d # c
    <3>1. up'[d] = up[d] /\ task'[d] = task[d]
      BY <1>1, <1>4, <1>5, <2>2
    <3> QED
      BY <1>2, <2>1, <3>1 DEF ConnAt, Ctx
  <2>3. CASE d = c
    <3>1. up'[c] = s
      BY <1>1, <1>5
    <3>2. task'[c] = task[c] \/ (task'[c] = "new" /\ s = "spawned")
      BY <1>1, <1>4, <3>1
    <3>3. c[2] > tries[c[1]] => FALSE
      BY <1>3 DEF ConnAt
    <3> QED
      BY <1>2, <1>3, <1>5, <2>3, <3>1, <3>2, <3>3 DEF ConnAt, Ctx
  <2> QED
    BY <2>2, <2>3
<1>7. ASSUME NEW n \in Routes PROVE RouteAt(n)'
  <2>1. RouteAt(n) /\ senders[n] \in Conns \cup {None} /\ contexts[n] \in Conns \cup {None}
    BY <1>1 DEF LinkInv
  <2>2. \A d \in Conns : task[d] # "none" => task'[d] = task[d]
    <3>1. up[c] = "switching" => task[c] = "none"
      BY <1>3 DEF ConnAt
    <3> QED
      BY <1>1, <1>4, <3>1
  <2> QED
    BY <1>2, <2>1, <2>2 DEF RouteAt
<1> QED
  BY <1>6, <1>7 DEF LinkInv

(* The acceptor and clean-up tasks only run on what they were spawned for. *)
LEMMA AcceptLink ==
  ASSUME Types, LinkInv, NEW c \in Conns, Accept(c)
  PROVE  LinkInv'
<1>1. /\ up \in [Conns -> UpStates] /\ task \in [Conns -> TaskStates] /\ confirmed \subseteq Conns
      /\ cleanup \in [Conns -> {"none", "watch", "cleared", "done"}]
      /\ senders \in [Routes -> Conns \cup {None}] /\ contexts \in [Routes -> Conns \cup {None}]
      /\ Route(c) \in Routes
  BY ConnIs DEF Types
<1>2. UNCHANGED <<tries, offer, up>>
  BY DEF Accept, InsertContext, Handshake, Confirm, ConfirmBroken, InsertSender, RecordConnected, ForgetContext,
         RecordFailed, RemoveHandle, FinishTask, hubVars
<1>3. ConnAt(c) /\ task[c] # "none" /\ \A n \in Routes : RouteAt(n)
  BY DEF LinkInv, Accept, InsertContext, Handshake, Confirm, ConfirmBroken, InsertSender, RecordConnected,
         ForgetContext, RecordFailed, RemoveHandle, FinishTask
<1>4. \A x \in confirmed : x \in confirmed'
  BY DEF Accept, InsertContext, Handshake, Confirm, ConfirmBroken, InsertSender, RecordConnected, ForgetContext,
         RecordFailed, RemoveHandle, FinishTask
<1>5. PICK s \in TaskStates \ {"none"} :
        /\ task' = [task EXCEPT ![c] = s]
        /\ s = "answered" => c \in confirmed'
  <2>1. CASE Confirm(c)
    <3>1. \/ task' = [task EXCEPT ![c] = "answered"] /\ confirmed' = confirmed \cup {c}
          \/ task' = [task EXCEPT ![c] = "broken"]
      BY <2>1 DEF Confirm, Goto
    <3> QED
      BY <3>1 DEF TaskStates
  <2>2. CASE InsertContext(c) \/ Handshake(c) \/ ConfirmBroken(c)
    BY <2>2 DEF InsertContext, Handshake, ConfirmBroken, Goto, TaskStates
  <2>3. CASE InsertSender(c) \/ RecordConnected(c) \/ ForgetContext(c) \/ RecordFailed(c)
    BY <2>3 DEF InsertSender, RecordConnected, ForgetContext, RecordFailed, Goto, TaskStates
  <2>4. CASE RemoveHandle(c) \/ FinishTask(c)
    <3>1. \/ task' = [task EXCEPT ![c] = "innerOk"] \/ task' = [task EXCEPT ![c] = "innerErr"]
          \/ task' = [task EXCEPT ![c] = "ended"]
      BY <2>4 DEF RemoveHandle, FinishTask, Goto
    <3> QED
      BY <3>1 DEF TaskStates
  <2> QED
    BY <2>1, <2>2, <2>3, <2>4 DEF Accept
<1>6. ASSUME NEW d \in Conns PROVE ConnAt(d)'
  <2>1. ConnAt(d)
    BY DEF LinkInv
  <2>2. task'[d] = (IF d = c THEN s ELSE task[d])
    BY <1>1, <1>5
  <2> QED
    BY <1>2, <1>3, <1>4, <1>5, <2>1, <2>2 DEF ConnAt, Ctx
<1>7. \A d \in Conns : task[d] # "none" => task'[d] # "none"
  BY <1>1, <1>5
<1>8. ASSUME NEW n \in Routes
      PROVE  senders'[n] # None =>
               senders'[n] \in confirmed' /\ Route(senders'[n]) = n /\ task'[senders'[n]] # "none"
  <2>1. RouteAt(n) /\ senders[n] \in Conns \cup {None}
    BY <1>1, <1>3
  <2>2. CASE UNCHANGED senders
    BY <1>4, <1>7, <2>1, <2>2 DEF RouteAt
  <2>3. CASE InsertSender(c)
    <3>1. senders' = [senders EXCEPT ![Route(c)] = c] /\ c \in confirmed
      BY <1>3, <2>3 DEF InsertSender, ConnAt
    <3>2. CASE n = Route(c)
      <4>1. senders'[n] = c
        BY <1>1, <3>1, <3>2
      <4> QED
        BY <1>3, <1>4, <1>7, <3>1, <3>2, <4>1
    <3>3. CASE n # Route(c)
      <4>1. senders'[n] = senders[n]
        BY <1>1, <3>1, <3>3
      <4> QED
        BY <1>4, <1>7, <2>1, <4>1 DEF RouteAt
    <3> QED
      BY <3>2, <3>3
  <2> QED
    BY <2>2, <2>3 DEF Accept, InsertContext, Handshake, Confirm, ConfirmBroken, RecordConnected, ForgetContext,
                      RecordFailed, RemoveHandle, FinishTask
<1>9. ASSUME NEW n \in Routes
      PROVE  contexts'[n] # None =>
               /\ Route(contexts'[n]) = n /\ task'[contexts'[n]] # "none"
               /\ \/ cleanup'[contexts'[n]] \in {"watch", "cleared"}
                  \/ task'[contexts'[n]] \in {"drive", "broken"}
  <2>1. RouteAt(n) /\ contexts[n] \in Conns \cup {None}
    BY <1>1, <1>3
  <2>2. CASE InsertContext(c)
    <3>1. contexts' = [contexts EXCEPT ![Route(c)] = c] /\ task' = [task EXCEPT ![c] = "drive"] /\ UNCHANGED cleanup
      BY <2>2 DEF InsertContext, Goto
    <3>2. \A d \in Conns : task'[d] = IF d = c THEN "drive" ELSE task[d]
      BY <1>1, <3>1
    <3>3. contexts'[n] = IF n = Route(c) THEN c ELSE contexts[n]
      BY <1>1, <3>1
    <3> QED
      BY <1>7, <2>1, <3>1, <3>2, <3>3 DEF RouteAt
  <2>3. CASE ForgetContext(c)
    <3>1. contexts' = [contexts EXCEPT ![Route(c)] = None] /\ UNCHANGED cleanup
      BY <2>3 DEF ForgetContext
    <3>2. contexts'[n] = IF n = Route(c) THEN None ELSE contexts[n]
      BY <1>1, <3>1
    <3>3. \A d \in Conns : d # c => task'[d] = task[d]
      BY <1>1, <1>5
    <3> QED
      BY <1>7, <2>1, <3>1, <3>2, <3>3 DEF RouteAt
  <2>4. CASE ~InsertContext(c) /\ ~ForgetContext(c)
    <3>1. UNCHANGED contexts
      BY <2>4 DEF Accept, Handshake, Confirm, ConfirmBroken, InsertSender, RecordConnected,
                  RecordFailed, RemoveHandle, FinishTask
    <3>2. \A d \in Conns : \/ task'[d] = task[d] /\ cleanup'[d] = cleanup[d]
                           \/ task'[d] \in {"drive", "broken"}
                           \/ cleanup'[d] = "watch"
                           \/ cleanup'[d] = cleanup[d] /\ task[d] \notin {"drive", "broken"}
      <4>1. CASE Handshake(c)
        <5>1. \/ cleanup' = [cleanup EXCEPT ![c] = "watch"]
              \/ task' = [task EXCEPT ![c] = "broken"] /\ UNCHANGED cleanup
          BY <4>1 DEF Handshake, Goto
        <5> QED
          BY <1>1, <1>5, <5>1
      <4>2. CASE ~Handshake(c)
        <5>1. UNCHANGED cleanup /\ task[c] \notin {"drive", "broken"}
          BY <2>4, <4>2 DEF Accept, Confirm, ConfirmBroken, InsertSender, RecordConnected, RecordFailed,
                            RemoveHandle, FinishTask
        <5> QED
          BY <1>1, <1>5, <5>1
      <4> QED
        BY <4>1, <4>2
    <3> QED
      BY <1>7, <2>1, <3>1, <3>2 DEF RouteAt
  <2> QED
    BY <2>2, <2>3, <2>4
<1>10. \A n \in Routes : RouteAt(n)'
  BY <1>8, <1>9 DEF RouteAt
<1> QED
  BY <1>6, <1>10 DEF LinkInv

LEMMA CleanUpLink ==
  ASSUME Types, LinkInv, NEW c \in Conns, CleanUp(c)
  PROVE  LinkInv'
<1>1. /\ cleanup \in [Conns -> {"none", "watch", "cleared", "done"}]
      /\ senders \in [Routes -> Conns \cup {None}] /\ contexts \in [Routes -> Conns \cup {None}]
      /\ Route(c) \in Routes
  BY ConnIs DEF Types
<1>2. UNCHANGED <<tries, offer, up, task, confirmed>>
  BY DEF CleanUp, ClearSender, ClearContext, hubVars
<1>3. \A d \in Conns : ConnAt(d)'
  BY <1>2 DEF LinkInv, ConnAt, Ctx
<1>4. ASSUME NEW n \in Routes PROVE RouteAt(n)'
  <2>1. RouteAt(n) /\ contexts[n] \in Conns \cup {None}
    BY <1>1 DEF LinkInv
  <2>2. CASE ClearSender(c)
    <3>1. /\ senders' = [senders EXCEPT ![Route(c)] = None] /\ UNCHANGED contexts
          /\ cleanup' = [cleanup EXCEPT ![c] = "cleared"]
      BY <2>2 DEF ClearSender
    <3>2. senders'[n] \in {senders[n], None} /\ \A d \in Conns : cleanup'[d] \in {cleanup[d], "cleared"}
      BY <1>1, <3>1
    <3> QED
      BY <1>2, <2>1, <3>1, <3>2 DEF RouteAt
  <2>3. CASE ClearContext(c)
    <3>1. /\ contexts' = [contexts EXCEPT ![Route(c)] = None] /\ UNCHANGED senders
          /\ cleanup' = [cleanup EXCEPT ![c] = "done"]
      BY <2>3 DEF ClearContext
    <3>2. /\ contexts'[n] = IF n = Route(c) THEN None ELSE contexts[n]
          /\ \A d \in Conns : d # c => cleanup'[d] = cleanup[d]
      BY <1>1, <3>1
    <3> QED
      BY <1>2, <2>1, <3>1, <3>2 DEF RouteAt
  <2> QED
    BY <2>2, <2>3 DEF CleanUp
<1> QED
  BY <1>3, <1>4 DEF LinkInv

LEMMA LinkStep ==
  ASSUME Types, LinkInv, [Next]_vars
  PROVE  LinkInv'
<1>1. ASSUME UNCHANGED <<tries, offer, up, task, cleanup, senders, contexts, confirmed>>
      PROVE  LinkInv'
  BY <1>1 DEF LinkInv, ConnAt, RouteAt, Ctx
<1>2. ASSUME NEW h \in Hubs, Dial(h)
      PROVE  LinkInv'
  <2> DEFINE c == <<h, tries[h] + 1>>
  <2>1. c \in Conns /\ c[1] = h /\ c[2] = tries[h] + 1 /\ task[c] = "none" /\ up[c] = "none"
    BY <1>2, DialIsNew DEF LinkInv
  <2>2. /\ up' = [up EXCEPT ![c] = "sent"] /\ \E o \in Offers[c] : offer' = [offer EXCEPT ![c] = o]
        /\ tries' = [tries EXCEPT ![h] = @ + 1] /\ UNCHANGED <<task, cleanup, senders, contexts, confirmed>>
    BY <1>2 DEF Dial
  <2>3. tries \in [Hubs -> Nat] /\ up \in [Conns -> UpStates] /\ offer = [x \in Conns |-> offer[x]]
    BY DEF Types
  <2> HIDE DEF c
  <2>4. \A n \in Routes : RouteAt(n)'
    BY <2>2 DEF LinkInv, RouteAt
  <2>5. ASSUME NEW d \in Conns PROVE ConnAt(d)'
    <3>1. ConnAt(d) /\ d[1] \in Hubs /\ d[2] \in 1..Attempts[d[1]]
      BY ConnIs DEF LinkInv
    <3>2. CASE d = c
      <4>1. up'[c] = "sent" /\ tries'[h] = tries[h] + 1 /\ tries[h] \in Nat
        BY <2>1, <2>2, <2>3
      <4> QED
        BY <2>1, <2>2, <3>2, <4>1 DEF ConnAt
    <3>3. CASE d # c
      <4>1. up'[d] = up[d] /\ offer'[d] = offer[d]
        BY <2>1, <2>2, <2>3, <3>3
      <4>2. tries'[d[1]] >= tries[d[1]] /\ tries[d[1]] \in Nat /\ tries'[d[1]] \in Nat
        BY <2>2, <2>3, <3>1
      <4>3. d[2] \in Int
        BY <3>1
      <4>4. d[2] > tries'[d[1]] => d[2] > tries[d[1]]
        BY <4>2, <4>3
      <4> QED
        BY <2>2, <3>1, <4>1, <4>4 DEF ConnAt, Ctx
    <3> QED
      BY <3>2, <3>3
  <2> QED
    BY <2>4, <2>5 DEF LinkInv
<1>3. ASSUME NEW h \in Hubs, DialUpgraded(h) \/ AttemptEnds(h)
      PROVE  UNCHANGED <<tries, offer, up, task, cleanup, senders, contexts, confirmed>>
  BY <1>3 DEF DialUpgraded, AttemptEnds, gatewayVars
<1>4. ASSUME NEW c \in Conns, LinkFails(c)
      PROVE  UNCHANGED <<tries, offer, up, task, cleanup, senders, contexts, confirmed>>
  BY <1>4 DEF LinkFails, hubVars, gatewayVars
<1>5. ASSUME NEW r \in Requests, Serve(r)
      PROVE  UNCHANGED <<tries, offer, up, task, cleanup, senders, contexts, confirmed>>
  BY <1>5 DEF Serve, Arrive, IngressContext, IngressSender, IngressDone, Gate, TakeSender, Forward,
              RequestStep, hubVars, gatewayVars
<1>6. CASE UNCHANGED vars
  BY <1>1, <1>6 DEF vars
<1> QED
  BY <1>1, <1>2, <1>3, <1>4, <1>5, <1>6, UpgradeLink, AcceptLink, CleanUpLink DEF Next

-----------------------------------------------------------------------------
(* A step of a request writes one record and nothing of the links. *)
LEMMA ServeFrame ==
  ASSUME NEW r \in Requests, Serve(r)
  PROVE  UNCHANGED <<hub, tries, peerInit, offer, link, up, task, cleanup, inner, senders, contexts, status, confirmed>>
  BY DEF Serve, Arrive, IngressContext, IngressSender, IngressDone, Gate, TakeSender, Forward,
         RequestStep, hubVars, gatewayVars

Writes(r, t) == req' = [req EXCEPT ![r] = t] /\ Shape(t)

LEMMA AnsweredIs ==
  ASSUME NEW q, NEW s
  PROVE  /\ Shape(Answered(q, s)) /\ Answered(q, s).pc = "done" /\ Answered(q, s).status = s
         /\ Answered(q, s).q = q
<1> DEFINE S == {"new", NoQuery, {}, None, 0, <<>>, Local}
           done == "done"
           t == [NewRequest EXCEPT !.pc = done, !.q = q, !.status = s]
<1>1. NewRequest \in RecordOf(S)
  BY DEF NewRequest, RecordOf
<1> HIDE DEF S, done
<1>2. t \in RecordOf(S \cup {done, q, s})
  BY <1>1 DEF RecordOf
<1>3. t.pc = done /\ t.status = s /\ t.q = q
  BY <1>1 DEF RecordOf
<1> HIDE DEF t
<1>4. Shape(t)
  BY <1>2 DEF Shape
<1>5. t = Answered(q, s)
  BY DEF Answered, t, done
<1> QED
  BY <1>3, <1>4, <1>5 DEF done

(* build_peer_forward_request and caller_provenance: whatever headers came  *)
(* in, the gateway's own are the only values under their names.             *)
LEMMA ForwardedHonest ==
  ASSUME NEW q, NEW caller
  PROVE  LET h == ForwardHeaders(q.headers, q.listed, Gateway, caller)
         IN /\ Provenance(TRUE, h) = [gateway |-> Gateway, caller |-> caller]
            /\ Harmless(h, q, caller)
<1> DEFINE S == {n \in DOMAIN q.headers : ShouldForward(n, q.listed)}
           host == ExternalHost(q.headers)
           f == Restrict(q.headers, S)
           g == With(f, ForwardedHost, host)
           k == With(g, ForwardedBy, Gateway)
           l == With(k, Caller, caller)
           h == ForwardHeaders(q.headers, q.listed, Gateway, caller)
<1>1. h = IF caller = None THEN k ELSE l
  BY DEF ForwardHeaders, Stamped
<1>2. /\ ForwardedHost.family \in Owned /\ ForwardedBy.family \in Owned /\ Caller.family \in Owned
      /\ ForwardedHost # ForwardedBy /\ ForwardedHost # Caller /\ ForwardedBy # Caller
  BY DEF ForwardedHost, ForwardedBy, Caller, HeaderName, Owned
<1>3. /\ DOMAIN f = S
      /\ \A n \in S : n \notin HopByHop \cup q.listed /\ n.family \notin Owned
  BY DEF Restrict, ShouldForward
<1>4. ForwardedHost \notin S /\ ForwardedBy \notin S /\ Caller \notin S
  BY <1>2, <1>3
<1> HIDE DEF f, h, host
<1>6. DOMAIN g = S \cup {ForwardedHost} /\ g[ForwardedHost] = <<host>>
  <2>0. ForwardedHost \notin DOMAIN f
    BY <1>3, <1>4
  <2>1. g = [n \in DOMAIN f \cup {ForwardedHost} |-> IF n = ForwardedHost THEN <<host>> ELSE f[n]]
    BY <2>0 DEF With, GetAll
  <2> HIDE DEF g
  <2> QED
    BY <1>3, <2>1
<1> HIDE DEF g
<1>7. /\ DOMAIN k = S \cup {ForwardedHost, ForwardedBy}
      /\ k[ForwardedHost] = <<host>> /\ k[ForwardedBy] = <<Gateway>>
  <2>1. ForwardedBy \notin DOMAIN g
    BY <1>2, <1>4, <1>6
  <2>2. k = [n \in DOMAIN g \cup {ForwardedBy} |-> IF n = ForwardedBy THEN <<Gateway>> ELSE g[n]]
    BY <2>1 DEF With, GetAll
  <2> HIDE DEF k
  <2> QED
    BY <1>2, <1>6, <2>2
<1> HIDE DEF k
<1>8. /\ DOMAIN l = S \cup {ForwardedHost, ForwardedBy, Caller}
      /\ l[ForwardedHost] = <<host>> /\ l[ForwardedBy] = <<Gateway>> /\ l[Caller] = <<caller>>
  <2>1. Caller \notin DOMAIN k
    BY <1>2, <1>4, <1>7
  <2>2. l = [n \in DOMAIN k \cup {Caller} |-> IF n = Caller THEN <<caller>> ELSE k[n]]
    BY <2>1 DEF With, GetAll
  <2> HIDE DEF l
  <2> QED
    BY <1>2, <1>7, <2>2
<1> HIDE DEF l
<1>9. Harmless(h, q, caller)
  <2>1. CASE caller = None
    BY <1>1, <1>3, <1>7, <2>1 DEF Harmless, host
  <2>2. CASE caller # None
    BY <1>1, <1>3, <1>8, <2>2 DEF Harmless, host
  <2> QED
    BY <2>1, <2>2
<1>10. Get(h, ForwardedBy) = Gateway
  <2>1. ForwardedBy \in DOMAIN h /\ h[ForwardedBy] = <<Gateway>>
    BY <1>1, <1>7, <1>8
  <2> QED
    BY <2>1 DEF Get, GetAll
<1>11. Get(h, Caller) = caller
  <2>1. CASE caller = None
    <3>1. Caller \notin DOMAIN h
      BY <1>1, <1>2, <1>4, <1>7, <2>1
    <3> QED
      BY <2>1, <3>1 DEF Get, GetAll
  <2>2. CASE caller # None
    <3>1. Caller \in DOMAIN h /\ h[Caller] = <<caller>>
      BY <1>1, <1>8, <2>2
    <3> QED
      BY <3>1 DEF Get, GetAll
  <2> QED
    BY <2>1, <2>2
<1>12. Provenance(TRUE, h) = [gateway |-> Gateway, caller |-> caller]
  BY <1>10, <1>11, LinksAssumption DEF Provenance
<1> QED
  BY <1>9, <1>12 DEF h

(* An answer that is not 200 says nothing about a caller. *)
LEMMA AnsweredOk ==
  ASSUME NEW q, NEW s \in {401, 403, 404, 502}
  PROVE  Shape(Answered(q, s)) /\ ReqOk(Answered(q, s))
<1>1. /\ Shape(Answered(q, s)) /\ Answered(q, s).pc = "done" /\ Answered(q, s).status = s
  BY AnsweredIs
<1> QED
  BY <1>1 DEF ReqOk, Served, Honest, InTransit

LEMMA ReplyWrites ==
  ASSUME FormInv, NEW r \in Requests, NEW s \in {401, 403, 404, 502}, Reply(r, s)
  PROVE  \E t : Writes(r, t) /\ ReqOk(t)
<1>1. req' = [req EXCEPT ![r] = Answered(req[r].q, s)]
  BY DEF Reply, FormInv
<1> DEFINE t == Answered(req[r].q, s)
<1>2. Shape(t) /\ ReqOk(t)
  BY AnsweredOk
<1> HIDE DEF t
<1>3. Writes(r, t)
  BY <1>1, <1>2 DEF Writes, t
<1> QED
  BY <1>2, <1>3

(* The checks of one request, in their order. *)
LEMMA ArriveOk ==
  ASSUME FormInv, ReqInv, NEW r \in Requests, Arrive(r)
  PROVE  \E t : Writes(r, t) /\ ReqOk(t)
<1>1. req = [x \in Requests |-> req[x]] /\ Shape(req[r]) /\ ReqOk(req[r]) /\ req[r].pc = "new"
  BY DEF FormInv, ReqInv, Arrive, RequestStep
<1>2. PICK q \in Queries :
       IF q.target = Gateway
       THEN req' = [req EXCEPT ![r] = [Answered(q, 200) EXCEPT !.prov = Provenance(FALSE, q.headers)]]
       ELSE LET answer(s) == req' = [req EXCEPT ![r] = Answered(q, s)]
            IN CASE Wants(q) = None -> answer(404)
                 [] Wants(q) # None /\ q.token # None /\ Admissions = {} -> answer(403)
                 [] Wants(q) # None /\ q.token # None /\ Admissions # {} /\ Verified(q.token, q.bearer) = {} -> answer(401)
                 [] OTHER -> req' = [req EXCEPT ![r].pc = IF q.token = None THEN "caller" ELSE "ingress",
                                                ![r].q = q,
                                                ![r].todo = IF q.token = None THEN {} ELSE VerifiedRoutes(q)]
  BY DEF Arrive
<1>3. CASE q.target = Gateway
  <2> DEFINE p == Provenance(FALSE, q.headers)
             t == [Answered(q, 200) EXCEPT !.prov = p]
  <2> HIDE DEF p
  <2>1. Shape(t) /\ t.pc = "done" /\ t.status = 200 /\ t.q = q /\ t.prov = p
    <3> DEFINE u == Answered(q, 200)
    <3>1. PICK S : u \in RecordOf(S)
      BY AnsweredIs DEF Shape
    <3>2. u.pc = "done" /\ u.status = 200 /\ u.q = q
      BY AnsweredIs
    <3> HIDE DEF u
    <3>3. [u EXCEPT !.prov = p] \in RecordOf(S \cup {p})
      BY <3>1 DEF RecordOf
    <3>4. /\ [u EXCEPT !.prov = p].pc = u.pc /\ [u EXCEPT !.prov = p].status = u.status
          /\ [u EXCEPT !.prov = p].q = u.q /\ [u EXCEPT !.prov = p].prov = p
      BY <3>1 DEF RecordOf
    <3> QED
      BY <3>2, <3>3, <3>4 DEF Shape, u
  <2>2. req' = [req EXCEPT ![r] = t]
    BY <1>2, <1>3 DEF p
  <2>3. p = Local
    BY DEF p, Provenance
  <2> HIDE DEF t
  <2>4. Honest(t)
    BY <1>3, <2>1, <2>3 DEF Honest, InTransit
  <2> QED
    BY <1>3, <2>1, <2>2, <2>4 DEF Writes, ReqOk, Served
<1>4. CASE q.target # Gateway
  <2> DEFINE pc == IF q.token = None THEN "caller" ELSE "ingress"
             todo == IF q.token = None THEN {} ELSE VerifiedRoutes(q)
             t == [req[r] EXCEPT !.pc = pc, !.q = q, !.todo = todo]
  <2>1. \/ req' = [req EXCEPT ![r] = Answered(q, 404)]
        \/ req' = [req EXCEPT ![r] = Answered(q, 403)]
        \/ req' = [req EXCEPT ![r] = Answered(q, 401)]
        \/ req' = [req EXCEPT ![r].pc = pc, ![r].q = q, ![r].todo = todo]
    BY <1>2, <1>4
  <2>2. ASSUME req' = [req EXCEPT ![r].pc = pc, ![r].q = q, ![r].todo = todo]
        PROVE  \E u : Writes(r, u) /\ ReqOk(u)
    <3> HIDE DEF pc, todo
    <3>1. req' = [req EXCEPT ![r] = t]
      BY <1>1, <2>2
    <3>2. /\ Shape(t)
          /\ t.pc = pc /\ t.q = q /\ t.todo = todo /\ t.status = req[r].status
          /\ t.caller = req[r].caller /\ t.live = req[r].live
      <4>1. PICK S : req[r] \in RecordOf(S)
        BY <1>1 DEF Shape
      <4>2. t \in RecordOf(S \cup {pc, q, todo})
        BY <4>1 DEF RecordOf
      <4>3. /\ t.pc = pc /\ t.q = q /\ t.todo = todo /\ t.status = req[r].status
            /\ t.caller = req[r].caller /\ t.live = req[r].live
        BY <4>1 DEF RecordOf
      <4> HIDE DEF t
      <4> QED
        BY <4>2, <4>3 DEF Shape
    <3> HIDE DEF t
    <3>3. /\ req[r].caller = None /\ req[r].live = {} /\ req[r].status \in {0, 200, 401, 403, 404, 502}
      BY <1>1 DEF ReqOk
    <3>4. Honest(t)
      BY <1>4, <3>2 DEF Honest, pc
    <3>5. ReqOk(t)
      BY <3>2, <3>3, <3>4 DEF ReqOk, Served, HasCaller, pc, todo
    <3> QED
      BY <3>1, <3>2, <3>5 DEF Writes
  <2>3. ASSUME NEW s \in {401, 403, 404}, req' = [req EXCEPT ![r] = Answered(q, s)]
        PROVE  \E u : Writes(r, u) /\ ReqOk(u)
    <3> DEFINE u == Answered(q, s)
    <3>1. Shape(u) /\ ReqOk(u)
      BY AnsweredOk
    <3> HIDE DEF u
    <3>2. Writes(r, u)
      BY <2>3, <3>1 DEF Writes, u
    <3> QED
      BY <3>1, <3>2
  <2> QED
    BY <2>1, <2>2, <2>3
<1> QED
  BY <1>3, <1>4

(* resolve_caller_ingress: a context under a verified route and the token   *)
(* of the request attests its connection.                                   *)
LEMMA IngressOk ==
  ASSUME Types, FormInv, LinkInv, ReqInv, NEW r \in Requests,
         IngressContext(r) \/ IngressSender(r) \/ IngressDone(r)
  PROVE  \E t : Writes(r, t) /\ ReqOk(t)
<1>1. req = [x \in Requests |-> req[x]] /\ Shape(req[r]) /\ ReqOk(req[r])
  BY DEF FormInv, ReqInv
<1>2. CASE IngressContext(r)
  <2>1. PICK n \in req[r].todo :
          LET c == contexts[n]
              mine == c # None /\ Ctx(c).token = req[r].q.token
          IN req' = [req EXCEPT ![r].todo = @ \ {n},
                                ![r].pc = IF mine THEN "half" ELSE "ingress",
                                ![r].ctx = IF mine THEN c ELSE None]
    BY <1>2 DEF IngressContext
  <2> DEFINE c == contexts[n]
             mine == c # None /\ Ctx(c).token = req[r].q.token
             todo == req[r].todo \ {n}
             pc == IF mine THEN "half" ELSE "ingress"
             cx == IF mine THEN c ELSE None
             t == [req[r] EXCEPT !.todo = todo, !.pc = pc, !.ctx = cx]
  <2>2. req[r].pc = "ingress"
    BY <1>2 DEF IngressContext, RequestStep
  <2>3. req[r].q.token # None /\ req[r].todo \subseteq VerifiedRoutes(req[r].q) /\ (\A d \in req[r].live : Attested(d, req[r].q))
    BY <1>1, <2>2 DEF ReqOk
  <2>4. mine => Attested(c, req[r].q)
    <3>1. n \in Routes /\ \E a \in Verified(req[r].q.token, req[r].q.bearer) : a.route = n
      BY <2>3 DEF VerifiedRoutes
    <3>2. c \in Conns \cup {None} /\ RouteAt(n)
      BY <3>1 DEF Types, LinkInv
    <3>3. ASSUME c # None PROVE c \in Conns /\ up[c] # "none" /\ Route(c) = n
      <4>1. c \in Conns /\ Route(c) = n /\ task[c] # "none"
        BY <3>2, <3>3 DEF RouteAt
      <4>2. ConnAt(c)
        BY <4>1 DEF LinkInv
      <4> QED
        BY <4>1, <4>2 DEF ConnAt
    <3> QED
      BY <3>1, <3>3 DEF Attested, Known
  <2>5. req' = [req EXCEPT ![r] = t]
    <3>1. req' = [req EXCEPT ![r].todo = todo, ![r].pc = pc, ![r].ctx = cx]
      BY <2>1
    <3> HIDE DEF todo, pc, cx
    <3> QED
      BY <1>1, <3>1
  <2>6. (pc = "half" /\ cx = c /\ mine) \/ pc = "ingress"
    OBVIOUS
  <2>7. todo \subseteq VerifiedRoutes(req[r].q)
    BY <2>3
  <2> HIDE DEF todo, pc, cx, mine, c
  <2>8. /\ Shape(t)
        /\ t.pc = pc /\ t.q = req[r].q /\ t.todo = todo /\ t.status = req[r].status /\ t.ctx = cx
        /\ t.live = req[r].live
    <3>1. PICK S : req[r] \in RecordOf(S)
      BY <1>1 DEF Shape
    <3>2. t \in RecordOf(S \cup {todo, pc, cx})
      BY <3>1 DEF RecordOf
    <3>3. /\ t.pc = pc /\ t.q = req[r].q /\ t.todo = todo /\ t.status = req[r].status /\ t.ctx = cx
          /\ t.live = req[r].live
      BY <3>1 DEF RecordOf
    <3> HIDE DEF t
    <3> QED
      BY <3>2, <3>3 DEF Shape
  <2> HIDE DEF t
  <2>9. req[r].status \in {0, 200, 401, 403, 404, 502} /\ Honest(t)
    BY <1>1, <2>2, <2>6, <2>8 DEF ReqOk, Honest, InTransit
  <2>10. ReqOk(t)
    BY <2>3, <2>4, <2>6, <2>7, <2>8, <2>9 DEF ReqOk, Served
  <2> QED
    BY <2>5, <2>8, <2>10 DEF Writes
<1>3. CASE IngressSender(r)
  <2> DEFINE live == IF senders[Route(req[r].ctx)] # None THEN req[r].live \cup {req[r].ctx} ELSE req[r].live
             t == [req[r] EXCEPT !.pc = "ingress", !.live = live, !.ctx = None]
  <2>1. req[r].pc = "half" /\ req' = [req EXCEPT ![r].pc = "ingress", ![r].live = live, ![r].ctx = None]
    BY <1>1, <1>3 DEF IngressSender, RequestStep
  <2>2. /\ req[r].q.token # None /\ req[r].todo \subseteq VerifiedRoutes(req[r].q)
        /\ \A d \in live : Attested(d, req[r].q)
        /\ req[r].status \in {0, 200, 401, 403, 404, 502}
    BY <1>1, <2>1 DEF ReqOk
  <2> HIDE DEF live
  <2>3. req' = [req EXCEPT ![r] = t]
    BY <1>1, <2>1
  <2>4. /\ Shape(t)
        /\ t.pc = "ingress" /\ t.q = req[r].q /\ t.todo = req[r].todo /\ t.status = req[r].status
        /\ t.live = live
    <3>1. PICK S : req[r] \in RecordOf(S)
      BY <1>1 DEF Shape
    <3>2. t \in RecordOf(S \cup {"ingress", live, None})
      BY <3>1 DEF RecordOf
    <3>3. /\ t.pc = "ingress" /\ t.q = req[r].q /\ t.todo = req[r].todo /\ t.status = req[r].status
          /\ t.live = live
      BY <3>1 DEF RecordOf
    <3> HIDE DEF t
    <3> QED
      BY <3>2, <3>3 DEF Shape
  <2> HIDE DEF t
  <2>5. Honest(t)
    BY <1>1, <2>1, <2>4 DEF ReqOk, Honest, InTransit
  <2>6. ReqOk(t)
    BY <2>2, <2>4, <2>5 DEF ReqOk, Served
  <2> QED
    BY <2>3, <2>4, <2>6 DEF Writes
<1>4. CASE IngressDone(r)
  <2>1. req[r].pc = "ingress"
    BY <1>4 DEF IngressDone, RequestStep
  <2>2. CASE Cardinality(req[r].live) # 1
    BY <1>4, <2>2, ReplyWrites DEF IngressDone
  <2>3. CASE Cardinality(req[r].live) = 1
    <3> DEFINE c == CHOOSE x \in req[r].live : TRUE
               t == [req[r] EXCEPT !.pc = "caller", !.caller = c]
    <3>1. req[r].live # {}
      BY <2>3, FS_EmptySet
    <3>2. c \in req[r].live
      BY <3>1
    <3>3. req' = [req EXCEPT ![r].pc = "caller", ![r].caller = c]
      BY <1>4, <2>3 DEF IngressDone
    <3> HIDE DEF c
    <3>4. req' = [req EXCEPT ![r] = t]
      BY <1>1, <3>3
    <3>5. /\ Shape(t)
          /\ t.pc = "caller" /\ t.q = req[r].q /\ t.caller = c /\ t.status = req[r].status
      <4>1. PICK S : req[r] \in RecordOf(S)
        BY <1>1 DEF Shape
      <4>2. t \in RecordOf(S \cup {"caller", c})
        BY <4>1 DEF RecordOf
      <4>3. /\ t.pc = "caller" /\ t.q = req[r].q /\ t.caller = c /\ t.status = req[r].status
        BY <4>1 DEF RecordOf
      <4> HIDE DEF t
      <4> QED
        BY <4>2, <4>3 DEF Shape
    <3> HIDE DEF t
    <3>6. /\ req[r].q.token # None /\ Attested(c, req[r].q) /\ req[r].status \in {0, 200, 401, 403, 404, 502}
      BY <1>1, <2>1, <3>2 DEF ReqOk
    <3>7. c # None
      BY <3>6, LinksAssumption DEF Attested, Known
    <3>8. Honest(t)
      BY <1>1, <2>1, <3>5 DEF ReqOk, Honest, InTransit
    <3>9. ReqOk(t)
      BY <3>5, <3>6, <3>7, <3>8 DEF ReqOk, Served, HasCaller
    <3> QED
      BY <3>4, <3>5, <3>9 DEF Writes
  <2> QED
    BY <2>2, <2>3
<1> QED
  BY <1>2, <1>3, <1>4

(* Gate: both ceilings, before the sender is looked up. *)
LEMMA GateOk ==
  ASSUME Types, FormInv, LinkInv, ReqInv, NEW r \in Requests, Gate(r)
  PROVE  \E t : Writes(r, t) /\ ReqOk(t)
<1> DEFINE c == IF req[r].q.target \in Routes THEN contexts[req[r].q.target] ELSE None
           t == [req[r] EXCEPT !.pc = "gated", !.ctx = c]
<1>1. /\ req = [x \in Requests |-> req[x]] /\ Shape(req[r]) /\ ReqOk(req[r]) /\ req[r].pc = "caller"
  BY DEF FormInv, ReqInv, Gate, RequestStep
<1>2. \/ Reply(r, 403) \/ Reply(r, 404)
      \/ /\ c # None /\ Within(c, req[r].q) /\ (req[r].caller # None => Within(req[r].caller, req[r].q))
         /\ req' = [req EXCEPT ![r].pc = "gated", ![r].ctx = c]
  BY DEF Gate
<1>3. c # None => Known(c)
  <2>1. ASSUME c # None PROVE Known(c)
    <3>1. req[r].q.target \in Routes
      BY <2>1
    <3>2. c \in Conns /\ RouteAt(req[r].q.target)
      BY <2>1, <3>1 DEF Types, LinkInv
    <3>3. task[c] # "none" /\ ConnAt(c)
      BY <2>1, <3>1, <3>2 DEF RouteAt, LinkInv
    <3> QED
      BY <3>2, <3>3 DEF Known, ConnAt
  <2> QED
    BY <2>1
<1> HIDE DEF c
<1>4. ASSUME c # None, Within(c, req[r].q), req[r].caller # None => Within(req[r].caller, req[r].q),
             req' = [req EXCEPT ![r].pc = "gated", ![r].ctx = c]
      PROVE  \E u : Writes(r, u) /\ ReqOk(u)
  <2>1. req' = [req EXCEPT ![r] = t]
    BY <1>1, <1>4
  <2>2. /\ Shape(t)
        /\ t.pc = "gated" /\ t.q = req[r].q /\ t.caller = req[r].caller /\ t.status = req[r].status
        /\ t.ctx = c
    <3>1. PICK S : req[r] \in RecordOf(S)
      BY <1>1 DEF Shape
    <3>2. t \in RecordOf(S \cup {"gated", c})
      BY <3>1 DEF RecordOf
    <3>3. /\ t.pc = "gated" /\ t.q = req[r].q /\ t.caller = req[r].caller /\ t.status = req[r].status
          /\ t.ctx = c
      BY <3>1 DEF RecordOf
    <3> HIDE DEF t
    <3> QED
      BY <3>2, <3>3 DEF Shape
  <2> HIDE DEF t
  <2>3. HasCaller(req[r]) /\ req[r].status \in {0, 200, 401, 403, 404, 502}
    BY <1>1 DEF ReqOk
  <2>4. HasCaller(t) /\ IsGated(t)
    BY <1>3, <1>4, <2>2, <2>3 DEF HasCaller, IsGated
  <2>5. Honest(t)
    BY <1>1, <2>2 DEF ReqOk, Honest, InTransit
  <2>6. ReqOk(t)
    BY <2>2, <2>3, <2>4, <2>5 DEF ReqOk, Served
  <2> QED
    BY <2>1, <2>2, <2>6 DEF Writes
<1> QED
  BY <1>2, <1>4, ReplyWrites

LEMMA SendOk ==
  ASSUME FormInv, ReqInv, NEW r \in Requests, TakeSender(r) \/ Forward(r)
  PROVE  \E t : Writes(r, t) /\ ReqOk(t)
<1>1. /\ req = [x \in Requests |-> req[x]] /\ Shape(req[r]) /\ ReqOk(req[r]) /\ req[r].pc \in {"gated", "sending"}
  BY DEF FormInv, ReqInv, TakeSender, Forward, RequestStep
<1>2. /\ HasCaller(req[r]) /\ IsGated(req[r]) /\ req[r].status \in {0, 200, 401, 403, 404, 502}
  BY <1>1 DEF ReqOk
<1>3. ASSUME NEW t, req' = [req EXCEPT ![r] = t], Shape(t), t.pc \in {"sending", "done"},
             t.status \in {req[r].status, 200},
             t.q = req[r].q, t.caller = req[r].caller, t.ctx = req[r].ctx,
             t.pc = "done" => /\ t.prov = [gateway |-> Gateway, caller |-> t.caller]
                              /\ Harmless(t.seen, t.q, t.caller)
      PROVE  \E u : Writes(r, u) /\ ReqOk(u)
  <2>1. HasCaller(t) /\ IsGated(t)
    BY <1>2, <1>3 DEF HasCaller, IsGated
  <2>2. Honest(t)
    <3>1. req[r].q.target # Gateway
      BY <1>1 DEF ReqOk, Honest, InTransit
    <3> QED
      BY <1>3, <3>1 DEF Honest
  <2>3. ReqOk(t)
    BY <1>2, <1>3, <2>1, <2>2 DEF ReqOk, Served
  <2> QED
    BY <1>3, <2>3 DEF Writes
<1>4. CASE TakeSender(r)
  <2> DEFINE c == senders[req[r].q.target]
             t == [req[r] EXCEPT !.pc = "sending", !.via = c]
  <2>1. Reply(r, 404) \/ req' = [req EXCEPT ![r].pc = "sending", ![r].via = c]
    BY <1>4 DEF TakeSender
  <2> HIDE DEF c
  <2>2. /\ Shape(t)
        /\ t.pc = "sending" /\ t.q = req[r].q /\ t.caller = req[r].caller
        /\ t.status = req[r].status /\ t.ctx = req[r].ctx
    <3>1. PICK S : req[r] \in RecordOf(S)
      BY <1>1 DEF Shape
    <3>2. t \in RecordOf(S \cup {"sending", c})
      BY <3>1 DEF RecordOf
    <3>3. /\ t.pc = "sending" /\ t.q = req[r].q /\ t.caller = req[r].caller
          /\ t.status = req[r].status /\ t.ctx = req[r].ctx
      BY <3>1 DEF RecordOf
    <3> HIDE DEF t
    <3> QED
      BY <3>2, <3>3 DEF Shape
  <2>3. req' = [req EXCEPT ![r].pc = "sending", ![r].via = c] => req' = [req EXCEPT ![r] = t]
    BY <1>1
  <2> HIDE DEF t
  <2>4. t.pc # "done" /\ t.pc \in {"sending", "done"}
    BY <2>2
  <2>5. CASE Reply(r, 404)
    BY <2>5, ReplyWrites
  <2>6. CASE req' = [req EXCEPT ![r] = t]
    BY <1>3, <2>2, <2>4, <2>6
  <2> QED
    BY <2>1, <2>3, <2>5, <2>6
<1>5. CASE Forward(r)
  <2> DEFINE headers == ForwardHeaders(req[r].q.headers, req[r].q.listed, Gateway, req[r].caller)
             p == Provenance(TRUE, headers)
             ok == 200
             t == [req[r] EXCEPT !.pc = "done", !.status = ok, !.seen = headers, !.prov = p]
  <2>1. \/ Reply(r, 502)
        \/ req' = [req EXCEPT ![r].pc = "done", ![r].status = ok, ![r].seen = headers, ![r].prov = p]
    BY <1>5 DEF Forward
  <2> HIDE DEF headers, p, ok
  <2>2. /\ Shape(t)
        /\ t.pc = "done" /\ t.q = req[r].q /\ t.caller = req[r].caller /\ t.status = ok
        /\ t.ctx = req[r].ctx /\ t.seen = headers /\ t.prov = p
    <3>1. PICK S : req[r] \in RecordOf(S)
      BY <1>1 DEF Shape
    <3>2. t \in RecordOf(S \cup {"done", ok, headers, p})
      BY <3>1 DEF RecordOf
    <3>3. /\ t.pc = "done" /\ t.q = req[r].q /\ t.caller = req[r].caller /\ t.status = ok
          /\ t.ctx = req[r].ctx /\ t.seen = headers /\ t.prov = p
      BY <3>1 DEF RecordOf
    <3> HIDE DEF t
    <3> QED
      BY <3>2, <3>3 DEF Shape
  <2>3. req' = [req EXCEPT ![r].pc = "done", ![r].status = ok, ![r].seen = headers, ![r].prov = p]
        => req' = [req EXCEPT ![r] = t]
    BY <1>1 DEF Shape, RecordOf
  <2>4. /\ p = [gateway |-> Gateway, caller |-> req[r].caller]
        /\ Harmless(headers, req[r].q, req[r].caller)
    BY ForwardedHonest DEF headers, p
  <2> HIDE DEF t
  <2> QED
    BY <1>3, <2>1, <2>2, <2>3, <2>4, ReplyWrites DEF ok
<1> QED
  BY <1>4, <1>5
LEMMA ServeOk ==
  ASSUME Types, FormInv, LinkInv, ReqInv, NEW r \in Requests, Serve(r)
  PROVE  \E t : Writes(r, t) /\ ReqOk(t)
  BY ArriveOk, IngressOk, GateOk, SendOk DEF Serve

-----------------------------------------------------------------------------
(* What a request was told of a connection stays true whatever the links    *)
(* do: the admission of a dialled connection is a function of its headers.  *)
LEMMA OkStays ==
  ASSUME Types, \A c \in Conns : ConnAt(c), [Next]_vars, NEW t, ReqOk(t)
  PROVE  ReqOk(t)'
<1>1. ASSUME NEW c, Known(c)
      PROVE  Known(c)' /\ Ctx(c)' = Ctx(c)
  BY <1>1, KnownStays DEF Known, Ctx
<1>2. ASSUME NEW c, NEW q, Attested(c, q)
      PROVE  Attested(c, q)'
  BY <1>1, <1>2 DEF Attested
<1>3. ASSUME NEW c, NEW q, Known(c), Within(c, q)
      PROVE  Within(c, q)'
  BY <1>1, <1>3 DEF Within
<1>4. HasCaller(t) => HasCaller(t)'
  BY <1>2 DEF HasCaller
<1>5. HasCaller(t) /\ IsGated(t) => IsGated(t)'
  BY <1>1, <1>3 DEF IsGated, HasCaller, Attested
<1>6. \A c \in t.live : Attested(c, t.q) => Attested(c, t.q)'
  BY <1>2
<1>7. Attested(t.ctx, t.q) => Attested(t.ctx, t.q)'
  BY <1>2
<1> QED
  BY <1>4, <1>5, <1>6, <1>7 DEF ReqOk, Served, Honest, Harmless

(* A step of the hubs, the network or the gateway's tasks leaves requests. *)
LEMMA LinksFrame ==
  ASSUME [Next]_vars, ~ \E r \in Requests : Serve(r)
  PROVE  UNCHANGED req
<1>1. ASSUME NEW h \in Hubs, Dial(h) \/ DialUpgraded(h) \/ AttemptEnds(h)
      PROVE  UNCHANGED req
  BY <1>1 DEF Dial, DialUpgraded, AttemptEnds
<1>2. ASSUME NEW c \in Conns, LinkFails(c) \/ Upgrade(c) \/ Accept(c) \/ CleanUp(c)
      PROVE  UNCHANGED req
  BY <1>2 DEF LinkFails, Upgrade, CheckSenders, CheckInner, SpawnTask, UpgradeLost, StoreHandle, Accept, CleanUp,
              InsertContext, Handshake, Confirm, ConfirmBroken, InsertSender, RecordConnected, ForgetContext,
              RecordFailed, RemoveHandle, FinishTask, ClearSender, ClearContext
<1> QED
  BY <1>1, <1>2 DEF Next, vars

LEMMA ReqStep ==
  ASSUME Types, FormInv, LinkInv, ReqInv, [Next]_vars
  PROVE  /\ ReqInv'
         /\ req' = [r \in Requests |-> req'[r]] /\ \A r \in Requests : Shape(req'[r])
<1>1. req = [r \in Requests |-> req[r]] /\ \A r \in Requests : Shape(req[r]) /\ ReqOk(req[r])
  BY DEF FormInv, ReqInv
<1>2. ASSUME NEW r \in Requests PROVE Shape(req'[r]) /\ ReqOk(req'[r])
  <2>1. ASSUME NEW x \in Requests, Serve(x)
        PROVE  Shape(req'[r]) /\ ReqOk(req'[r])
    <3>1. PICK t : Writes(x, t) /\ ReqOk(t)
      BY <2>1, ServeOk
    <3>2. req' = [req EXCEPT ![x] = t] /\ Shape(t)
      BY <3>1 DEF Writes
    <3>3. req'[r] = IF r = x THEN t ELSE req[r]
      BY <1>1, <3>2
    <3> QED
      BY <1>1, <3>1, <3>2, <3>3
  <2> QED
    BY <1>1, <2>1, LinksFrame
<1>3. ASSUME NEW r \in Requests PROVE ReqOk(req[r])'
  <2>1. PICK t : t = req'[r]
    OBVIOUS
  <2>2. ReqOk(t)'
    BY <1>2, <2>1, OkStays DEF LinkInv
  <2> QED
    BY <2>1, <2>2 DEF ReqOk, Served, HasCaller, IsGated, Attested, Honest, Harmless
<1>4. req' = [r \in Requests |-> req'[r]]
  <2>1. ASSUME NEW x \in Requests, Serve(x) PROVE req' = [r \in Requests |-> req'[r]]
    <3>1. PICK t : req' = [req EXCEPT ![x] = t]
      BY <2>1, ServeOk DEF Writes
    <3> QED
      BY <1>1, <3>1
  <2> QED
    BY <1>1, <2>1, LinksFrame
<1> QED
  BY <1>2, <1>3, <1>4 DEF ReqInv

-----------------------------------------------------------------------------
(* The two locks a task holds from one step to the next. *)
LockInv ==
  /\ \A c, d \in Conns : cleanup[c] = "cleared" /\ cleanup[d] = "cleared" => c = d
  /\ \A c, d \in Conns : task[c] \in {"innerOk", "innerErr"} /\ task[d] \in {"innerOk", "innerErr"} => c = d

LEMMA LockStep ==
  ASSUME Types, LockInv, [Next]_vars
  PROVE  LockInv'
<1>1. task \in [Conns -> TaskStates] /\ cleanup \in [Conns -> {"none", "watch", "cleared", "done"}]
  BY DEF Types
<1>2. CASE UNCHANGED <<task, cleanup>>
  BY <1>2 DEF LockInv
<1>3. ASSUME NEW h \in Hubs, Dial(h) \/ DialUpgraded(h) \/ AttemptEnds(h)
      PROVE  UNCHANGED <<task, cleanup>>
  BY <1>3 DEF Dial, DialUpgraded, AttemptEnds, gatewayVars
<1>4. ASSUME NEW r \in Requests, Serve(r)
      PROVE  UNCHANGED <<task, cleanup>>
  BY <1>4, ServeFrame
<1>5. ASSUME NEW c \in Conns, LinkFails(c) \/ Upgrade(c) \/ Accept(c) \/ CleanUp(c)
      PROVE  /\ \/ UNCHANGED task
                \/ \E s \in TaskStates \ {"innerOk", "innerErr"} : task' = [task EXCEPT ![c] = s]
                \/ InnerFree /\ \E s : task' = [task EXCEPT ![c] = s]
             /\ \/ UNCHANGED cleanup
                \/ \E s \in {"watch", "done"} : cleanup' = [cleanup EXCEPT ![c] = s]
                \/ SendersFree /\ cleanup' = [cleanup EXCEPT ![c] = "cleared"]
  <2>1. CASE LinkFails(c) \/ Upgrade(c) \/ CleanUp(c)
    BY <2>1 DEF LinkFails, Upgrade, CheckSenders, CheckInner, SpawnTask, UpgradeLost, StoreHandle, CleanUp,
                ClearSender, ClearContext, gatewayVars, TaskStates
  <2>2. CASE InsertContext(c) \/ Handshake(c) \/ ConfirmBroken(c) \/ InsertSender(c) \/ RecordConnected(c)
    BY <2>2 DEF InsertContext, Handshake, ConfirmBroken, InsertSender, RecordConnected, Goto, TaskStates
  <2>3. CASE Confirm(c) \/ ForgetContext(c) \/ RecordFailed(c) \/ FinishTask(c)
    BY <2>3 DEF Confirm, ForgetContext, RecordFailed, FinishTask, Goto, TaskStates
  <2>4. CASE RemoveHandle(c)
    BY <2>4 DEF RemoveHandle, Goto
  <2> QED
    BY <1>5, <2>1, <2>2, <2>3, <2>4 DEF Accept
<1>6. ASSUME NEW c \in Conns, LinkFails(c) \/ Upgrade(c) \/ Accept(c) \/ CleanUp(c)
      PROVE  LockInv'
  <2>1. \A d, e \in Conns : cleanup'[d] = "cleared" /\ cleanup'[e] = "cleared" => d = e
    BY <1>1, <1>5, <1>6 DEF LockInv, SendersFree
  <2>2. \A d, e \in Conns : task'[d] \in {"innerOk", "innerErr"} /\ task'[e] \in {"innerOk", "innerErr"} => d = e
    BY <1>1, <1>5, <1>6 DEF LockInv, InnerFree
  <2> QED
    BY <2>1, <2>2 DEF LockInv
<1> QED
  BY <1>2, <1>3, <1>4, <1>6 DEF Next, vars

(* At most one connection holds each lock. *)
LEMMA AtMostOne ==
  ASSUME NEW P, \A c, d \in P : c = d
  PROVE  Cardinality(P) <= 1
<1>1. CASE P = {}
  BY <1>1, FS_EmptySet
<1>2. CASE P # {}
  <2>1. PICK c : c \in P
    BY <1>2
  <2>2. P = {c}
    BY <2>1
  <2>3. Cardinality({c}) = 1
    BY FS_Singleton
  <2> QED
    BY <2>2, <2>3
<1> QED
  BY <1>1, <1>2

-----------------------------------------------------------------------------
(* The types of the variables of hubs, links and gateway. *)
LEMMA TypesStep ==
  ASSUME Types, LinkInv, [Next]_vars, \A h \in Hubs : tries[h] \in 0..Attempts[h]
  PROVE  Types' /\ \A h \in Hubs : tries'[h] \in 0..Attempts[h]
<1> USE DEF Types
<1>1. CASE UNCHANGED <<hub, tries, peerInit, offer, link, up, task, cleanup, inner, senders, contexts, status, confirmed>>
  BY <1>1
<1>2. ASSUME NEW r \in Requests, Serve(r)
      PROVE  Types' /\ \A h \in Hubs : tries'[h] \in 0..Attempts[h]
  BY <1>1, <1>2, ServeFrame
<1>3. ASSUME NEW h \in Hubs, Dial(h)
      PROVE  Types' /\ \A g \in Hubs : tries'[g] \in 0..Attempts[g]
  <2> DEFINE c == <<h, tries[h] + 1>>
  <2>1. c \in Conns
    BY <1>3, DialIsNew DEF LinkInv
  <2>2. /\ \E o : offer' = [offer EXCEPT ![c] = o]
        /\ peerInit' = peerInit \cup {c} /\ link' = [link EXCEPT ![c] = "open"]
        /\ up' = [up EXCEPT ![c] = "sent"] /\ tries' = [tries EXCEPT ![h] = @ + 1]
        /\ hub' = [hub EXCEPT ![h] = "dialing"]
        /\ UNCHANGED <<task, cleanup, inner, senders, contexts, status, confirmed>>
        /\ tries[h] < Attempts[h]
    BY <1>3 DEF Dial
  <2>3. tries' \in [Hubs -> Nat] /\ \A g \in Hubs : tries'[g] \in 0..Attempts[g]
    <3>1. tries \in [Hubs -> Nat] /\ tries[h] \in Nat /\ Attempts[h] \in Nat
      BY LinksAssumption
    <3>2. tries[h] + 1 \in Nat /\ tries[h] + 1 \in 0..Attempts[h]
      BY <2>2, <3>1
    <3>3. \A g \in Hubs : tries'[g] = IF g = h THEN tries[h] + 1 ELSE tries[g]
      BY <2>2, <3>1
    <3>4. tries' \in [Hubs -> Nat]
      BY <2>2, <3>1, <3>2
    <3> QED
      BY <3>2, <3>3, <3>4
  <2> HIDE DEF c
  <2>4. link' \in [Conns -> {"none", "open", "dead"}] /\ up' \in [Conns -> UpStates] /\ peerInit' \subseteq Conns
    BY <2>1, <2>2 DEF UpStates
  <2>5. offer' = [d \in Conns |-> offer'[d]]
    BY <2>1, <2>2
  <2>6. hub' \in [Hubs -> {"idle", "dialing", "serving"}]
    BY <2>2
  <2> QED
    BY <2>2, <2>3, <2>4, <2>5, <2>6
<1>4. ASSUME NEW h \in Hubs, DialUpgraded(h) \/ AttemptEnds(h)
      PROVE  Types' /\ UNCHANGED tries
  BY <1>4 DEF DialUpgraded, AttemptEnds, gatewayVars
<1>5. ASSUME NEW c \in Conns, LinkFails(c)
      PROVE  Types' /\ UNCHANGED tries
  BY <1>5 DEF LinkFails, hubVars, gatewayVars
<1>6. ASSUME NEW c \in Conns, Upgrade(c)
      PROVE  Types' /\ UNCHANGED tries
  <2>1. Route(c) \in Routes
    BY ConnIs
  <2>2. CASE CheckSenders(c) \/ CheckInner(c)
    BY <2>2 DEF CheckSenders, CheckInner, hubVars, UpStates
  <2>3. CASE SpawnTask(c) \/ UpgradeLost(c) \/ StoreHandle(c)
    BY <2>1, <2>3 DEF SpawnTask, UpgradeLost, StoreHandle, hubVars, UpStates, TaskStates
  <2> QED
    BY <1>6, <2>2, <2>3 DEF Upgrade
<1>7. ASSUME NEW c \in Conns, Accept(c)
      PROVE  Types' /\ UNCHANGED tries
  <2>1. Route(c) \in Routes
    BY ConnIs
  <2>2. CASE InsertContext(c) \/ Handshake(c)
    BY <2>1, <2>2 DEF InsertContext, Handshake, Goto, hubVars, TaskStates
  <2>3. CASE Confirm(c)
    BY <2>3 DEF Confirm, Goto, TaskStates
  <2>4. CASE ConfirmBroken(c) \/ InsertSender(c) \/ RecordConnected(c)
    BY <2>1, <2>4 DEF ConfirmBroken, InsertSender, RecordConnected, Goto, hubVars, TaskStates
  <2>5. CASE ForgetContext(c) \/ RecordFailed(c)
    BY <2>1, <2>5 DEF ForgetContext, RecordFailed, Goto, hubVars, TaskStates
  <2>6. CASE RemoveHandle(c) \/ FinishTask(c)
    BY <2>6 DEF RemoveHandle, FinishTask, Goto, hubVars, TaskStates
  <2> QED
    BY <1>7, <2>2, <2>3, <2>4, <2>5, <2>6 DEF Accept
<1>8. ASSUME NEW c \in Conns, CleanUp(c)
      PROVE  Types' /\ UNCHANGED tries
  <2>1. Route(c) \in Routes
    BY ConnIs
  <2> QED
    BY <1>8, <2>1 DEF CleanUp, ClearSender, ClearContext, hubVars
<1> HIDE DEF Types
<1> QED
  BY <1>1, <1>2, <1>3, <1>4, <1>5, <1>6, <1>7, <1>8 DEF Next, vars

-----------------------------------------------------------------------------
IInv == TypeOK /\ FormInv /\ LockInv /\ LinkInv /\ ReqInv

LEMMA InitInv == Init => IInv
<1> SUFFICES ASSUME Init PROVE IInv
  OBVIOUS
<1>1. NewRequest \in RecordOf({"new", NoQuery, {}, None, 0, <<>>, Local})
  BY DEF NewRequest, RecordOf
<1>2. ReqOk(NewRequest)
  BY DEF NewRequest, ReqOk, Served, Honest, InTransit
<1>3. \A r \in Requests : req[r] = NewRequest
  BY DEF Init
<1>4. Shape(NewRequest)
  BY <1>1 DEF Shape
<1>5. ReqInv
  BY <1>2, <1>3 DEF ReqInv
<1>6. FormInv
  BY <1>3, <1>4 DEF FormInv, Init
<1>7. LockInv
  BY DEF LockInv, Init
<1>8. {c \in Conns : cleanup[c] = "cleared"} = {} /\ {c \in Conns : task[c] \in {"innerOk", "innerErr"}} = {}
  BY DEF Init
<1>9. TypeOK
  <2>1. /\ Cardinality({c \in Conns : cleanup[c] = "cleared"}) <= 1
        /\ Cardinality({c \in Conns : task[c] \in {"innerOk", "innerErr"}}) <= 1
    BY <1>8, FS_EmptySet
  <2>2. \A r \in Requests : req[r].status \in {0, 200, 401, 403, 404, 502}
    BY <1>5 DEF ReqInv, ReqOk
  <2>3. \A h \in Hubs : tries[h] \in 0..Attempts[h]
    BY LinksAssumption DEF Init
  <2> QED
    BY <2>1, <2>2, <2>3 DEF TypeOK, Init, UpStates, TaskStates
<1> QED
  BY <1>5, <1>6, <1>7, <1>9, InitLink DEF IInv

LEMMA StepInv == IInv /\ [Next]_vars => IInv'
<1> SUFFICES ASSUME IInv, [Next]_vars PROVE IInv'
  OBVIOUS
<1>1. TypeOK /\ FormInv /\ LockInv /\ LinkInv /\ ReqInv /\ Types /\ \A h \in Hubs : tries[h] \in 0..Attempts[h]
  BY TypesHold DEF IInv, TypeOK
<1>2. LinkInv'
  BY <1>1, LinkStep
<1>3. ReqInv' /\ req' = [r \in Requests |-> req'[r]] /\ \A r \in Requests : Shape(req'[r])
  BY <1>1, ReqStep
<1>4. Types' /\ \A h \in Hubs : tries'[h] \in 0..Attempts[h]
  BY <1>1, TypesStep
<1>5. FormInv'
  BY <1>3, <1>4 DEF FormInv, Types
<1>6. LockInv'
  BY <1>1, LockStep
<1>7. TypeOK'
  <2>1. \A r \in Requests : req'[r].status \in {0, 200, 401, 403, 404, 502}
    BY <1>3 DEF ReqInv, ReqOk
  <2>2. /\ Cardinality({c \in Conns : cleanup'[c] = "cleared"}) <= 1
        /\ Cardinality({c \in Conns : task'[c] \in {"innerOk", "innerErr"}}) <= 1
    BY <1>6, AtMostOne DEF LockInv
  <2> QED
    BY <1>4, <2>1, <2>2 DEF TypeOK, Types
<1> QED
  BY <1>2, <1>3, <1>5, <1>6, <1>7 DEF IInv

LEMMA InvHolds == Spec => []IInv
  BY InitInv, StepInv, PTL DEF Spec

(* Every variable keeps its type, one clean-up task at most holds `senders` *)
(* across its two removals and one acceptor task at most holds `inner`.     *)
THEOREM TypeCorrect == Spec => []TypeOK
<1>1. IInv => TypeOK
  BY DEF IInv
<1> QED
  BY <1>1, InvHolds, PTL

(* drive_acceptor: what is registered under a route name is a connection    *)
(* admitted for that name whose hub answered the confirmation, for any      *)
(* number of hubs that dial the same name in any interleaving.              *)
THEOREM ConfirmedSender == Spec => []SenderConfirmed
<1>1. IInv => SenderConfirmed
  <2> SUFFICES ASSUME IInv, NEW n \in Routes, senders[n] # None
               PROVE  senders[n] \in confirmed /\ Route(senders[n]) = n /\ Ctx(senders[n]).ok
    BY DEF SenderConfirmed
  <2>1. senders[n] \in Conns
    BY DEF IInv, TypeOK
  <2>2. RouteAt(n) /\ ConnAt(senders[n])
    BY <2>1 DEF IInv, LinkInv
  <2> QED
    BY <2>2 DEF RouteAt, ConnAt
<1> QED
  BY <1>1, InvHolds, PTL

(* spawn's tasks: an admission context under a route name still has the     *)
(* task that will take it out, however upgrades of that name interleave.    *)
THEOREM OwnedContext == Spec => []ContextHasOwner
<1>1. IInv => ContextHasOwner
  BY DEF IInv, LinkInv, RouteAt, ContextHasOwner
<1> QED
  BY <1>1, InvHolds, PTL

(* maybe_forward_or_404, resolve_caller_ingress, build_peer_forward_request *)
(* and caller_provenance: whatever happens to the links on the way, a       *)
(* request that shows a token is served only on behalf of a connection      *)
(* admitted under that token, for a route whose secret the request showed,  *)
(* and allowed to ask it.  Whatever headers a client sends and however its  *)
(* `Connection` header lists them, the peer that serves the request sees no *)
(* credential, no hop-by-hop header and no value of a gateway-owned family  *)
(* but the gateway's, and takes that connection for the caller; a request   *)
(* the gateway serves itself is local.                                      *)
THEOREM ProvenanceEstablished == Spec => []ProvenanceHonest
<1>1. IInv => ProvenanceHonest
  <2> SUFFICES ASSUME IInv PROVE ProvenanceHonest
    OBVIOUS
  <2>1. ASSUME NEW r \in Requests, Served(req[r]) PROVE Established(req[r].q, req[r].caller)
    <3>1. HasCaller(req[r]) /\ IsGated(req[r])
      BY <2>1 DEF IInv, ReqInv, ReqOk
    <3> QED
      BY <3>1 DEF HasCaller, IsGated, Attested, Established
  <2>2. \A r \in Requests : Honest(req[r])
    BY DEF IInv, ReqInv, ReqOk
  <2> QED
    BY <2>1, <2>2 DEF Honest, Harmless, Served, ProvenanceHonest
<1> QED
  BY <1>1, InvHolds, PTL
=============================================================================
