----------------------------- MODULE SirenPages -----------------------------
(***************************************************************************)
(* The hypermedia a gateway and its peers serve (http/render.rs and the    *)
(* GET routes of http/routes.rs), and a client that crawls it.  A page is  *)
(* rendered under a policy, the capabilities the gateway stamped on the    *)
(* forwarded request; the affordances it shows (links and actions) are     *)
(* requests the gateway will check against the capabilities of the peer.   *)
(* Peers connect, renegotiate and leave while the client reads a page.     *)
(*                                                                         *)
(* A page is reduced to its kind, the base its hrefs are joined to, and    *)
(* the affordances; properties, titles and class names are left out.       *)
(* Every peer has one resource, with one transition and one stream.        *)
(***************************************************************************)
EXTENDS PeerAdmission

CONSTANTS Peers,      \* route names of the peers
          Gateway     \* the gateway's own name

ASSUME PagesAssumption == Gateway \notin Peers /\ None \notin Peers \cup {Gateway} \cup Capability

VARIABLES
  contexts,   \* contexts[p]: the negotiated capabilities of a connected peer, or None
  page,       \* the page the client has
  changed     \* peers whose context changed since the page was rendered

vars == <<contexts, page, changed>>

-----------------------------------------------------------------------------
(* A request, and an affordance: a scheme, a path under "/" when the       *)
(* target is None and under "/servers/{target}/" otherwise.                *)
Url(scheme, target, method, rest, params) ==
  [scheme |-> scheme, target |-> target, method |-> method, rest |-> rest, params |-> params]
Ask(target, method, rest, params) == Url("http", target, method, rest, params)

(* Hrefs: the base is "/" at the node a client talks to and                *)
(* "/servers/{peer}/" on a forwarded request (build_hrefs,                 *)
(* forwarded_external_bases); everything is joined to it, the server's own *)
(* url too.  Event and stream urls are joined to the ws base.              *)
Link(base, rest) == Ask(base, "GET", rest, {})
ServerUrl(base) == IF base = None THEN Link(Gateway, <<>>) ELSE Link(base, <<"servers", "name">>)
ResourcesUrl(base) == Link(base, <<"resources">>)
ResourceUrl(base) == Link(base, <<"resources", "id">>)
TransitionUrl(base) == Ask(base, "POST", <<"resources", "id", "transitions", "t">>, {})
MetaTypeUrl(base) == Link(base, <<"meta", "id">>)
EventsUrl(base) == Url("ws", base, "GET", <<"events">>, {})
StreamUrl(base) == Url("ws", base, "GET", <<"events">>, {"topic"})
QueryUrl(base) == Ask(base, "GET", <<"resources">>, {"ql"})

(* render_policy_from_headers: no header is local, a bad one allows        *)
(* nothing.                                                                *)
RenderPolicy(header) ==
  IF header = None THEN Capability ELSE IF Parses(header) THEN header ELSE {}

When(allowed, affordances) == IF allowed THEN affordances ELSE {}
WithQueryAction(base, policy) == When("query" \in policy, {QueryUrl(base)})

-----------------------------------------------------------------------------
(* The pages, by what they show. *)
ResourceSubEntityOpen(base, policy) ==   \* faulty: links what may not be read
  {ResourceUrl(base), ResourcesUrl(base)}
ResourceSubEntity(base, policy) ==
  When("read" \in policy, {ResourceUrl(base), ResourcesUrl(base)})

RenderRootAll(base, peers, policy) ==   \* faulty: links peers nobody may read
  {Link(base, <<>>), ResourcesUrl(base), ServerUrl(base)}
  \cup {Link(p, <<>>) : p \in DOMAIN peers}
  \cup When("subscribe" \in policy, {EventsUrl(base)})
  \cup WithQueryAction(base, policy)
RenderRoot(base, peers, policy) ==
  {Link(base, <<>>), ResourcesUrl(base), ServerUrl(base)}
  \cup {Link(p, <<>>) : p \in {q \in DOMAIN peers : "read" \in peers[q]}}
  \cup When("subscribe" \in policy, {EventsUrl(base)})
  \cup WithQueryAction(base, policy)

RenderServer(base, policy) ==
  {ServerUrl(base), ResourcesUrl(base)}
  \cup WithQueryAction(base, policy) \cup ResourceSubEntity(base, policy)

RenderResources(base, policy) ==
  {ResourcesUrl(base)} \cup WithQueryAction(base, policy) \cup ResourceSubEntity(base, policy)

RenderSearchResults(base, policy) ==
  {QueryUrl(base)} \cup WithQueryAction(base, policy) \cup ResourceSubEntity(base, policy)

RenderResource(base, policy) ==
  {ResourceUrl(base), ResourcesUrl(base), MetaTypeUrl(base)}
  \cup When("invoke" \in policy, {TransitionUrl(base)})
  \cup When("subscribe" \in policy, {StreamUrl(base)})

RenderMetaType(base) == {MetaTypeUrl(base)}

RenderMeta(base, policy) ==
  {Link(base, <<"meta">>), ResourcesUrl(base)} \cup RenderMetaType(base)
  \cup When("subscribe" \in policy, {StreamUrl(base)})

Page(kind, base, shows) == [kind |-> kind, base |-> base, shows |-> shows]
NoPage == Page("none", None, {})

(* The router of a node: the page it renders for a request to itself, none *)
(* when no route matches.  A transition's outcome and an event stream show *)
(* nothing; /events is the WebSocket, the events of a server are NDJSON    *)
(* lines; a search is the answer to any list or server request with ql.    *)
(* peers: the connected peers and their capabilities, at the root.         *)
Serve(a, base, peers, policy) ==
  LET path == Rest(a.method, a.rest)
  IN CASE path = Rest("GET", <<>>) /\ "ql" \notin a.params ->
            IF a.target = None THEN Page("root", base, RenderRoot(base, peers, policy))
            ELSE Page("server", base, RenderServer(base, policy))
       [] path = Rest("GET", <<"resources">>) /\ "ql" \notin a.params ->
            Page("resources", base, RenderResources(base, policy))
       [] path \in {Rest("GET", <<>>), Rest("GET", <<"resources">>)} /\ "ql" \in a.params ->
            Page("search", base, RenderSearchResults(base, policy))
       [] path = Rest("GET", <<"resources", "id">>) -> Page("resource", base, RenderResource(base, policy))
       [] path = Rest("GET", <<"meta">>) -> Page("meta", base, RenderMeta(base, policy))
       [] path = Rest("GET", <<"meta", "id">>) -> Page("type", base, RenderMetaType(base))
       [] path = Rest("POST", <<"resources", "id", "transitions", "t">>) -> Page("outcome", base, {})
       [] path = Rest("GET", <<"events">>) -> Page(IF a.target = None THEN "socket" ELSE "lines", base, {})
       [] OTHER -> NoPage

-----------------------------------------------------------------------------
(* What the gateway answers (maybe_forward_or_404 and the local routes).   *)
Ok(rendered) == [status |-> 200, page |-> rendered]
Fail(status) == [status |-> status, page |-> NoPage]
Connected == [p \in {q \in Peers : contexts[q] # None} |-> contexts[p]]

Forwarded(a) ==
  LET needs == Required(a.method, a.rest, a.params)
      caps == contexts[a.target]
  IN IF needs = None \/ caps = None THEN Fail(404)
     ELSE IF needs \notin caps THEN Fail(403)
     ELSE Ok(Serve(a, a.target, <<>>, RenderPolicy(caps)))

Here(a) ==
  LET rendered == Serve(a, None, Connected, RenderPolicy(None))
  IN IF rendered = NoPage THEN Fail(404) ELSE Ok(rendered)

(* The client of a ws url wants a socket and the handshake fails without   *)
(* one (a forwarded request has lost its upgrade headers, and no route of  *)
(* a server upgrades); events_ws refuses a request that is no handshake.   *)
Answer(a) ==
  LET reply == IF a.target \in Peers THEN Forwarded(a) ELSE Here(a)
  IN IF reply.status = 200 /\ ~(a.scheme = "ws" <=> reply.page.kind = "socket")
     THEN Fail(400) ELSE reply

(* GET / with ?server=: the root handler's QueryScope.  "*" is refused,    *)
(* a peer is asked under its own path, and the gateway's own name is       *)
(* answered here: a search, or the root page itself.                       *)
Scoped(scope, params) ==
  IF scope = "*" THEN Fail(400)
  ELSE IF scope \in Peers THEN Answer(Ask(scope, "GET", <<>>, params))
  ELSE Answer(Ask(None, "GET", <<>>, params))

-----------------------------------------------------------------------------
Home == Page("root", None, RenderRoot(None, Connected, RenderPolicy(None)))

Init ==
  /\ contexts = [p \in Peers |-> None]
  /\ page = Home
  /\ changed = {}

(* The client gets a page, or keeps the one it has. *)
Show(answer) ==
  /\ page' = IF answer.status = 200 THEN answer.page ELSE page
  /\ changed' = IF answer.status = 200 THEN {} ELSE changed
  /\ UNCHANGED contexts

Enter ==
  \E scope \in Peers \cup {None, Gateway, "*"}, params \in {{}, {"ql"}} : Show(Scoped(scope, params))

(* /meta is a route no page links to. *)
Bookmark == \E target \in Peers \cup {None} : Show(Answer(Link(target, <<"meta">>)))

Follow == \E a \in page.shows : Show(Answer(a))

(* A peer is admitted with the capabilities it negotiated, never with      *)
(* none, or goes away.                                                     *)
Negotiate(p) ==
  /\ contexts[p] = None
  /\ \E caps \in SUBSET Capability \ {{}} : contexts' = [contexts EXCEPT ![p] = caps]
  /\ changed' = changed \cup {p}
  /\ UNCHANGED page

Leave(p) ==
  /\ contexts[p] # None
  /\ contexts' = [contexts EXCEPT ![p] = None]
  /\ changed' = changed \cup {p}
  /\ UNCHANGED page

Next == Enter \/ Bookmark \/ Follow \/ \E p \in Peers : Negotiate(p) \/ Leave(p)

Spec == Init /\ [][Next]_vars

-----------------------------------------------------------------------------
(* Two affordances of forwarded pages lead nowhere: the self link of a     *)
(* server page, which is joined to the peer's base and matches no route of *)
(* the gateway, and every stream or monitor link, a ws url under the       *)
(* peer's path, where the gateway has no WebSocket.                        *)
Dead(a) == a.target \in Peers /\ (a.scheme = "ws" \/ a.rest = <<"servers", "name">>)

(* What a page offers works, but for the dead affordances: unless the      *)
(* peer's connection changed since the page was rendered, the gateway      *)
(* serves all other links and actions on it, and those two kinds never     *)
(* (the renderer's gates against maybe_forward_or_404 and the router).     *)
AffordancesHonoured ==
  \A a \in page.shows : a.target \notin changed => (Answer(a).status = 200 <=> ~Dead(a))

(* A stream link a page shows opens the stream: `stream.subscribe` permits *)
(* "peer event streams and stream links" (docs/peers.md).  On forwarded    *)
(* pages none does: they are ws urls below /servers/{peer}, where the      *)
(* router has the NDJSON route only.                                       *)
StreamLinksOpen ==
  \A a \in page.shows : a.scheme = "ws" /\ a.target \notin changed => Answer(a).status = 200

(* What a client knows after it has followed all it knew, and after three  *)
(* rounds from the root page.                                              *)
FollowAll(known) ==
  known \cup UNION {Answer(a).page.shows : a \in {b \in known : Answer(b).status = 200}}
Found == FollowAll(FollowAll(FollowAll(Home.shows)))

(* A client that crawls from the root is shown, for every peer it may      *)
(* read, an affordance for all the peer lets it do and nothing else, and   *)
(* of a peer it may not read it is shown nothing (render_root's filter and *)
(* the gates of the pages).  The one for `subscribe` is a dead link.       *)
CrawlFindsAllowed ==
  \A p \in Peers :
    {Required(a.method, a.rest, a.params) : a \in {b \in Found : b.target = p}} \ {None}
      = IF contexts[p] # None /\ "read" \in contexts[p]
        THEN contexts[p] \cap {"read", "query", "subscribe", "invoke"} ELSE {}
=============================================================================
