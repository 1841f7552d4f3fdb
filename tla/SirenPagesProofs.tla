-------------------------- MODULE SirenPagesProofs --------------------------
(***************************************************************************)
(* Proofs about SirenPages for any set of peers.                           *)
(***************************************************************************)
EXTENDS SirenPages, TLAPS

(* The paths of the routes are different. *)
LEMMA PathsDiffer ==
  /\ <<>> \notin {<<"resources">>, <<"resources", "id">>, <<"meta">>, <<"meta", "id">>,
                  <<"events">>, <<"resources", "id", "transitions", "t">>, <<"servers", "name">>}
  /\ <<"resources">> \notin {<<"resources", "id">>, <<"meta">>, <<"meta", "id">>,
                  <<"events">>, <<"resources", "id", "transitions", "t">>, <<"servers", "name">>}
  /\ <<"resources", "id">> \notin {<<"meta">>, <<"meta", "id">>,
                  <<"events">>, <<"resources", "id", "transitions", "t">>, <<"servers", "name">>}
  /\ <<"meta">> \notin {<<"meta", "id">>,
                  <<"events">>, <<"resources", "id", "transitions", "t">>, <<"servers", "name">>}
  /\ <<"meta", "id">> \notin {
                  <<"events">>, <<"resources", "id", "transitions", "t">>, <<"servers", "name">>}
  /\ <<"events">> \notin {<<"resources", "id", "transitions", "t">>, <<"servers", "name">>}
  /\ <<"resources", "id", "transitions", "t">> # <<"servers", "name">>
  OBVIOUS

LEMMA RestPairs ==
  ASSUME NEW m1, NEW m2, NEW r1, NEW r2
  PROVE  (Rest(m1, r1) = Rest(m2, r2)) <=> (m1 = m2 /\ r1 = r2)
  BY DEF Rest

(* What a request needs, by its path. *)
LEMMA RequiredOf ==
  ASSUME NEW params
  PROVE  /\ Required("GET", <<>>, params) = IF "ql" \in params THEN "query" ELSE "read"
         /\ Required("GET", <<"resources">>, params) = IF "ql" \in params THEN "query" ELSE "read"
         /\ Required("GET", <<"resources", "id">>, params) = "read"
         /\ Required("GET", <<"meta">>, params) = "read"
         /\ Required("GET", <<"meta", "id">>, params) = "read"
         /\ Required("GET", <<"events">>, params) = IF "topic" \in params THEN "subscribe" ELSE None
         /\ Required("POST", <<"resources", "id", "transitions", "t">>, params) = "invoke"
<1> USE PathsDiffer, RestPairs DEF Required
<1>1. Required("GET", <<>>, params) = IF "ql" \in params THEN "query" ELSE "read"
  OBVIOUS
<1>2. Required("GET", <<"resources">>, params) = IF "ql" \in params THEN "query" ELSE "read"
  OBVIOUS
<1>3. Required("GET", <<"resources", "id">>, params) = "read"
  OBVIOUS
<1>4. Required("GET", <<"meta">>, params) = "read" /\ Required("GET", <<"meta", "id">>, params) = "read"
  OBVIOUS
<1>5. Required("GET", <<"events">>, params) = IF "topic" \in params THEN "subscribe" ELSE None
  OBVIOUS
<1>6. Required("POST", <<"resources", "id", "transitions", "t">>, params) = "invoke"
  OBVIOUS
<1> QED
  BY <1>1, <1>2, <1>3, <1>4, <1>5, <1>6

Needs(a) == Required(a.method, a.rest, a.params)

(* What the affordances need. *)
LEMMA NeedsOf ==
  ASSUME NEW b
  PROVE  /\ Needs(Link(b, <<>>)) = "read" /\ Needs(ResourcesUrl(b)) = "read"
         /\ Needs(ResourceUrl(b)) = "read" /\ Needs(MetaTypeUrl(b)) = "read"
         /\ Needs(Link(b, <<"meta">>)) = "read"
         /\ Needs(Link(b, <<"servers", "name">>)) = None
         /\ Needs(QueryUrl(b)) = "query" /\ Needs(TransitionUrl(b)) = "invoke"
         /\ Needs(StreamUrl(b)) = "subscribe"
<1>1. Required("GET", <<"servers", "name">>, {}) = None
  <2>1. <<"servers", "name">> \notin {<<>>, <<"resources">>, <<"resources", "id">>, <<"meta">>, <<"meta", "id">>,
            <<"resources", "id", "transitions", "t">>, <<"events">>, <<"events", "unsubscribe">>, <<"peer-management">>}
    OBVIOUS
  <2> QED
    BY <2>1, RestPairs DEF Required
<1>2. /\ Needs(Link(b, <<>>)) = "read" /\ Needs(ResourcesUrl(b)) = "read"
      /\ Needs(ResourceUrl(b)) = "read" /\ Needs(MetaTypeUrl(b)) = "read"
      /\ Needs(Link(b, <<"meta">>)) = "read"
  BY RequiredOf DEF Needs, Link, Ask, Url, ResourcesUrl, ResourceUrl, MetaTypeUrl
<1>3. Needs(Link(b, <<"servers", "name">>)) = None
  BY <1>1 DEF Needs, Link, Ask, Url
<1>4. Needs(QueryUrl(b)) = "query" /\ Needs(TransitionUrl(b)) = "invoke" /\ Needs(StreamUrl(b)) = "subscribe"
  BY RequiredOf DEF Needs, QueryUrl, TransitionUrl, StreamUrl, Ask, Url
<1> QED
  BY <1>2, <1>3, <1>4

(* The pages of the router, each with the requests it answers. *)
At(a, method, rest) == a.method = method /\ a.rest = rest
IsSearch(a) == "ql" \in a.params

LEMMA ServeCases ==
  ASSUME NEW a, NEW base, NEW peers, NEW policy
  PROVE  LET served == Serve(a, base, peers, policy)
         IN \/ /\ At(a, "GET", <<>>) /\ ~IsSearch(a) /\ a.target = None
               /\ served = Page("root", base, RenderRoot(base, peers, policy))
            \/ /\ At(a, "GET", <<>>) /\ ~IsSearch(a) /\ a.target # None
               /\ served = Page("server", base, RenderServer(base, policy))
            \/ /\ At(a, "GET", <<"resources">>) /\ ~IsSearch(a)
               /\ served = Page("resources", base, RenderResources(base, policy))
            \/ /\ At(a, "GET", <<>>) \/ At(a, "GET", <<"resources">>)
               /\ IsSearch(a)
               /\ served = Page("search", base, RenderSearchResults(base, policy))
            \/ /\ At(a, "GET", <<"resources", "id">>)
               /\ served = Page("resource", base, RenderResource(base, policy))
            \/ /\ At(a, "GET", <<"meta">>)
               /\ served = Page("meta", base, RenderMeta(base, policy))
            \/ /\ At(a, "GET", <<"meta", "id">>)
               /\ served = Page("type", base, RenderMetaType(base))
            \/ served \in {Page("outcome", base, {}), Page("socket", base, {}), Page("lines", base, {}), NoPage}
  BY RestPairs DEF Serve, At, IsSearch

(* Whether there is a route does not depend on what a page would show. *)
LEMMA RouteExists ==
  ASSUME NEW a, NEW base, NEW peers, NEW policy
  PROVE  Serve(a, base, peers, policy) = NoPage <=>
           ~ \/ At(a, "GET", <<>>) \/ At(a, "GET", <<"resources">>)
             \/ At(a, "GET", <<"resources", "id">>)
             \/ At(a, "GET", <<"meta">>) \/ At(a, "GET", <<"meta", "id">>)
             \/ At(a, "POST", <<"resources", "id", "transitions", "t">>) \/ At(a, "GET", <<"events">>)
<1>1. \A kind \in {"root", "server", "resources", "search", "resource", "meta", "type", "outcome", "socket", "lines"} :
         \A b, shows : Page(kind, b, shows) # NoPage
  BY DEF Page, NoPage
<1> QED
  BY <1>1, RestPairs DEF Serve, At

(* One route opens a socket. *)
LEMMA SocketRoute ==
  ASSUME NEW a, NEW base, NEW peers, NEW policy
  PROVE  Serve(a, base, peers, policy).kind = "socket" <=> At(a, "GET", <<"events">>) /\ a.target = None
<1>1. \A kind, b, shows : Page(kind, b, shows).kind = kind
  BY DEF Page
<1>2. NoPage.kind # "socket"
  BY <1>1 DEF NoPage
<1> QED
  BY <1>1, <1>2, PathsDiffer, RestPairs DEF Serve, At

-----------------------------------------------------------------------------
(* Capabilities are known ones, whoever is connected. *)
ContextsOK == contexts \in [Peers -> {None} \cup SUBSET Capability]

Works(a) == Answer(a).status = 200

(* A link of the gateway itself works when there is a route; one of a peer  *)
(* when the peer is connected and lets the client do it.                    *)
LEMMA WorksHere ==
  ASSUME NEW a, a.target \notin Peers
  PROVE  /\ Works(a) <=> /\ Serve(a, None, Connected, RenderPolicy(None)) # NoPage
                         /\ a.scheme = "ws" <=> At(a, "GET", <<"events">>) /\ a.target = None
         /\ Works(a) => Answer(a).page = Serve(a, None, Connected, RenderPolicy(None))
  BY SocketRoute DEF Works, Answer, Here, Ok, Fail

LEMMA WorksThere ==
  ASSUME ContextsOK, NEW a, a.target \in Peers
  PROVE  Works(a) <=> /\ contexts[a.target] # None
                      /\ Required(a.method, a.rest, a.params) # None
                      /\ Required(a.method, a.rest, a.params) \in contexts[a.target]
                      /\ a.scheme # "ws"
  BY SocketRoute, PagesAssumption DEF Works, Answer, Forwarded, Ok, Fail

(* The affordances of the gateway's own pages. *)
LEMMA LocalLinks ==
  /\ Works(Link(None, <<>>)) /\ Works(ServerUrl(None)) /\ Works(ResourcesUrl(None))
  /\ Works(ResourceUrl(None)) /\ Works(TransitionUrl(None)) /\ Works(MetaTypeUrl(None))
  /\ Works(StreamUrl(None)) /\ Works(QueryUrl(None)) /\ Works(Link(None, <<"meta">>))
  /\ Works(EventsUrl(None))
<1> USE WorksHere, RouteExists, PagesAssumption, PathsDiffer DEF At, Ask, Url
<1>1. Works(Link(None, <<>>)) /\ Works(ServerUrl(None)) /\ Works(ResourcesUrl(None))
  BY DEF Link, ServerUrl, ResourcesUrl
<1>2. Works(ResourceUrl(None)) /\ Works(MetaTypeUrl(None)) /\ Works(Link(None, <<"meta">>))
  BY DEF Link, ResourceUrl, MetaTypeUrl
<1>3. Works(TransitionUrl(None)) /\ Works(StreamUrl(None)) /\ Works(EventsUrl(None))
  BY DEF TransitionUrl, StreamUrl, EventsUrl
<1>4. Works(QueryUrl(None))
  BY DEF QueryUrl
<1> QED
  BY <1>1, <1>2, <1>3, <1>4

(* The affordances of a peer's pages, by what they need. *)
LEMMA PeerLinksWork ==
  ASSUME ContextsOK, NEW p \in Peers, contexts[p] # None
  PROVE  /\ "read" \in contexts[p] =>
              /\ Works(Link(p, <<>>)) /\ Works(ResourcesUrl(p)) /\ Works(ResourceUrl(p))
              /\ Works(MetaTypeUrl(p)) /\ Works(Link(p, <<"meta">>))
         /\ "query" \in contexts[p] => Works(QueryUrl(p))
         /\ "invoke" \in contexts[p] => Works(TransitionUrl(p))
<1>1. "read" # None /\ "query" # None /\ "invoke" # None /\ "subscribe" # None
  BY PagesAssumption DEF Capability
<1>2. "read" \in contexts[p] =>
        /\ Works(Link(p, <<>>)) /\ Works(ResourcesUrl(p)) /\ Works(ResourceUrl(p))
        /\ Works(MetaTypeUrl(p)) /\ Works(Link(p, <<"meta">>))
  BY <1>1, WorksThere, RequiredOf DEF Link, Ask, Url, ResourcesUrl, ResourceUrl, MetaTypeUrl
<1>3. "query" \in contexts[p] => Works(QueryUrl(p))
  BY <1>1, WorksThere, RequiredOf DEF Ask, Url, QueryUrl
<1>4. "invoke" \in contexts[p] => Works(TransitionUrl(p))
  BY <1>1, WorksThere, RequiredOf DEF Ask, Url, TransitionUrl
<1> QED
  BY <1>2, <1>3, <1>4

-----------------------------------------------------------------------------
(* An affordance is honest when it works or is one of the dead ones, and a  *)
(* page is honoured when all it shows is.                                   *)
Honest(a) == Works(a) <=> ~Dead(a)
Honoured(p) == \A a \in p.shows : Honest(a)

LEMMA LocalHonest ==
  /\ Honest(Link(None, <<>>)) /\ Honest(ServerUrl(None)) /\ Honest(ResourcesUrl(None))
  /\ Honest(ResourceUrl(None)) /\ Honest(TransitionUrl(None)) /\ Honest(MetaTypeUrl(None))
  /\ Honest(StreamUrl(None)) /\ Honest(QueryUrl(None)) /\ Honest(Link(None, <<"meta">>))
  /\ Honest(EventsUrl(None))
<1>1. None \notin Peers /\ Gateway \notin Peers
  BY PagesAssumption
<1>2. /\ ~Dead(Link(None, <<>>)) /\ ~Dead(ServerUrl(None)) /\ ~Dead(ResourcesUrl(None))
      /\ ~Dead(ResourceUrl(None)) /\ ~Dead(TransitionUrl(None)) /\ ~Dead(MetaTypeUrl(None))
      /\ ~Dead(StreamUrl(None)) /\ ~Dead(QueryUrl(None)) /\ ~Dead(Link(None, <<"meta">>))
      /\ ~Dead(EventsUrl(None))
  BY <1>1 DEF Dead, Link, Ask, Url, ServerUrl, ResourcesUrl, ResourceUrl, TransitionUrl, MetaTypeUrl,
              StreamUrl, QueryUrl, EventsUrl
<1> QED
  BY <1>2, LocalLinks DEF Honest

LEMMA PeerHonest ==
  ASSUME ContextsOK, NEW p \in Peers, contexts[p] # None
  PROVE  /\ "read" \in contexts[p] =>
              /\ Honest(Link(p, <<>>)) /\ Honest(ResourcesUrl(p)) /\ Honest(ResourceUrl(p))
              /\ Honest(MetaTypeUrl(p)) /\ Honest(Link(p, <<"meta">>))
         /\ "query" \in contexts[p] => Honest(QueryUrl(p))
         /\ "invoke" \in contexts[p] => Honest(TransitionUrl(p))
         /\ Honest(StreamUrl(p)) /\ Honest(ServerUrl(p))
<1>1. /\ ~Dead(Link(p, <<>>)) /\ ~Dead(ResourcesUrl(p)) /\ ~Dead(ResourceUrl(p))
      /\ ~Dead(MetaTypeUrl(p)) /\ ~Dead(Link(p, <<"meta">>))
      /\ ~Dead(QueryUrl(p)) /\ ~Dead(TransitionUrl(p))
  BY PathsDiffer DEF Dead, Link, Ask, Url, ResourcesUrl, ResourceUrl, TransitionUrl, MetaTypeUrl, QueryUrl
<1>2. Honest(StreamUrl(p))
  BY WorksThere DEF Honest, Dead, StreamUrl, Url
<1>3. Honest(ServerUrl(p))
  <2>1. p # None /\ ServerUrl(p) = Link(p, <<"servers", "name">>)
    BY PagesAssumption DEF ServerUrl
  <2>2. ServerUrl(p).target = p /\ Dead(ServerUrl(p))
    BY <2>1 DEF Dead, Link, Ask, Url
  <2>3. Needs(ServerUrl(p)) = None
    BY <2>1, NeedsOf
  <2> QED
    BY <2>2, <2>3, WorksThere DEF Honest, Needs
<1> QED
  BY <1>1, <1>2, <1>3, PeerLinksWork DEF Honest

LEMMA PageFields ==
  ASSUME NEW kind, NEW base, NEW shows
  PROVE  /\ Page(kind, base, shows).kind = kind /\ Page(kind, base, shows).base = base
         /\ Page(kind, base, shows).shows = shows
  BY DEF Page

(* The gateway's own pages are honoured, at any time. *)
LEMMA HonouredHere ==
  ASSUME ContextsOK, NEW a
  PROVE  Honoured(Serve(a, None, Connected, RenderPolicy(None)))
<1> DEFINE all == RenderPolicy(None)
<1>1. Honoured(Page("root", None, RenderRoot(None, Connected, all)))
  <2> SUFFICES ASSUME NEW b \in RenderRoot(None, Connected, all) PROVE Honest(b)
    BY PageFields DEF Honoured
  <2>1. ASSUME NEW p \in {q \in DOMAIN Connected : "read" \in Connected[q]}, b = Link(p, <<>>)
        PROVE  Honest(b)
    <3>1. p \in Peers /\ contexts[p] # None /\ "read" \in contexts[p]
      BY <2>1 DEF Connected
    <3> QED
      BY <2>1, <3>1, PeerHonest
  <2> QED
    BY <2>1, LocalHonest DEF RenderRoot, When, WithQueryAction
<1>2. \A b \in ResourceSubEntity(None, all) \cup WithQueryAction(None, all) : Honest(b)
  BY LocalHonest DEF ResourceSubEntity, WithQueryAction, When
<1>3. Honoured(Page("server", None, RenderServer(None, all)))
  BY <1>2, PageFields, LocalHonest DEF Honoured, RenderServer
<1>4. Honoured(Page("resources", None, RenderResources(None, all)))
  BY <1>2, PageFields, LocalHonest DEF Honoured, RenderResources
<1>5. Honoured(Page("search", None, RenderSearchResults(None, all)))
  BY <1>2, PageFields, LocalHonest DEF Honoured, RenderSearchResults
<1>6. Honoured(Page("resource", None, RenderResource(None, all)))
  BY PageFields, LocalHonest DEF Honoured, RenderResource, When
<1>7. Honoured(Page("type", None, RenderMetaType(None)))
  BY PageFields, LocalHonest DEF Honoured, RenderMetaType
<1>8. Honoured(Page("meta", None, RenderMeta(None, all)))
  BY PageFields, LocalHonest DEF Honoured, RenderMeta, RenderMetaType, When
<1>9. \A kind, base : Honoured(Page(kind, base, {})) /\ Honoured(NoPage)
  BY PageFields DEF Honoured, NoPage
<1> HIDE DEF all
<1> QED
  BY <1>1, <1>3, <1>4, <1>5, <1>6, <1>7, <1>8, <1>9, ServeCases DEF all

(* So are the pages of a peer that the gateway forwards: they were rendered *)
(* under the capabilities it checks.                                        *)
LEMMA HonouredThere ==
  ASSUME ContextsOK, NEW a, a.target \in Peers, Works(a)
  PROVE  Honoured(Answer(a).page)
<1> DEFINE p == a.target
<1> DEFINE caps == contexts[p]
<1> DEFINE needs == Required(a.method, a.rest, a.params)
<1>1. caps # None /\ needs # None /\ needs \in caps /\ caps \subseteq Capability
  BY WorksThere DEF ContextsOK
<1>2. RenderPolicy(caps) = caps
  BY <1>1 DEF RenderPolicy, Parses
<1>3. Answer(a).page = Serve(a, p, <<>>, caps)
  BY <1>1, <1>2 DEF Answer, Forwarded, Ok, Fail, Works
<1>4. p \in Peers /\ p # None
  BY PagesAssumption
<1>5. /\ At(a, "GET", <<>>) \/ At(a, "GET", <<"resources">>) =>
           IF IsSearch(a) THEN "query" \in caps ELSE "read" \in caps
      /\ At(a, "GET", <<"resources", "id">>) \/ At(a, "GET", <<"meta">>)
           \/ At(a, "GET", <<"meta", "id">>) => "read" \in caps
  BY <1>1, RequiredOf DEF At, IsSearch
<1>6. /\ "read" \in caps =>
              /\ Honest(Link(p, <<>>)) /\ Honest(ResourcesUrl(p)) /\ Honest(ResourceUrl(p))
              /\ Honest(MetaTypeUrl(p)) /\ Honest(Link(p, <<"meta">>))
      /\ "query" \in caps => Honest(QueryUrl(p))
      /\ "invoke" \in caps => Honest(TransitionUrl(p))
      /\ Honest(StreamUrl(p)) /\ Honest(ServerUrl(p))
  BY <1>1, <1>4, PeerHonest
<1> HIDE DEF p, caps
<1>7. \A b \in ResourceSubEntity(p, caps) \cup WithQueryAction(p, caps) : Honest(b)
  BY <1>6 DEF ResourceSubEntity, WithQueryAction, When
<1>8. "read" \in caps => Honoured(Page("server", p, RenderServer(p, caps)))
  BY <1>6, <1>7, PageFields DEF Honoured, RenderServer
<1>9. "read" \in caps => Honoured(Page("resources", p, RenderResources(p, caps)))
  BY <1>6, <1>7, PageFields DEF Honoured, RenderResources
<1>10. "query" \in caps => Honoured(Page("search", p, RenderSearchResults(p, caps)))
  BY <1>6, <1>7, PageFields DEF Honoured, RenderSearchResults
<1>11. "read" \in caps => Honoured(Page("resource", p, RenderResource(p, caps)))
  BY <1>6, PageFields DEF Honoured, RenderResource, When
<1>12. "read" \in caps => Honoured(Page("type", p, RenderMetaType(p)))
  BY <1>6, PageFields DEF Honoured, RenderMetaType
<1>13. "read" \in caps => Honoured(Page("meta", p, RenderMeta(p, caps)))
  BY <1>6, PageFields DEF Honoured, RenderMeta, RenderMetaType, When
<1>14. \A kind, base : Honoured(Page(kind, base, {})) /\ Honoured(NoPage)
  BY PageFields DEF Honoured, NoPage
<1>15. a.target # None
  BY PagesAssumption
<1> HIDE DEF needs
<1> QED
  BY <1>3, <1>5, <1>8, <1>9, <1>10, <1>11, <1>12, <1>13, <1>14, <1>15, ServeCases

(* Whatever the gateway answers with a page is honoured. *)
LEMMA AnswersHonoured ==
  ASSUME ContextsOK, NEW a, Works(a)
  PROVE  Honoured(Answer(a).page)
<1>1. CASE a.target \in Peers
  BY <1>1, HonouredThere
<1>2. CASE a.target \notin Peers
  <2>1. Answer(a).page = Serve(a, None, Connected, RenderPolicy(None))
    BY <1>2, WorksHere
  <2> QED
    BY <2>1, HonouredHere
<1> QED
  BY <1>1, <1>2

-----------------------------------------------------------------------------
(* The inductive invariant: what the property says, under known             *)
(* capabilities.                                                            *)
PInv == ContextsOK /\ AffordancesHonoured

LEMMA PagesInit == Init => PInv
<1> SUFFICES ASSUME Init PROVE PInv
  OBVIOUS
<1>1. ContextsOK
  BY DEF Init, ContextsOK
<1>2. Home = Serve(Link(None, <<>>), None, Connected, RenderPolicy(None))
  BY RestPairs DEF Home, Serve, Link, Ask, Url
<1>3. Honoured(Home)
  BY <1>1, <1>2, HonouredHere
<1> QED
  BY <1>1, <1>3 DEF Init, PInv, AffordancesHonoured, Honoured, Honest, Works

(* The client gets the page of an answer, or keeps the one it has. *)
LEMMA ShowKeeps ==
  ASSUME PInv, NEW a, Show(Answer(a))
  PROVE  PInv'
<1>1. contexts' = contexts
  BY DEF Show
<1>2. \A b : Works(b)' <=> Works(b)
  BY <1>1 DEF Works, Answer, Here, Forwarded, Connected
<1>3. CASE Works(a)
  <2>1. page' = Answer(a).page /\ Honoured(Answer(a).page)
    BY <1>3, AnswersHonoured DEF Show, Works, PInv
  <2>2. AffordancesHonoured'
    BY <1>2, <2>1 DEF AffordancesHonoured, Honoured, Honest, Works
  <2> QED
    BY <1>1, <2>2 DEF PInv, ContextsOK
<1>4. CASE ~Works(a)
  <2>1. page' = page /\ changed' = changed
    BY <1>4 DEF Show, Works
  <2>2. AffordancesHonoured'
    BY <1>2, <2>1 DEF AffordancesHonoured, Works, PInv
  <2> QED
    BY <1>1, <2>2 DEF PInv, ContextsOK
<1> QED
  BY <1>3, <1>4

(* A peer comes or goes: only its own links are affected, and they are not  *)
(* spoken of until the page is fetched again.                               *)
LEMMA PeerChanges ==
  ASSUME PInv, NEW p \in Peers, Negotiate(p) \/ Leave(p)
  PROVE  PInv'
<1>1. /\ page' = page /\ changed' = changed \cup {p}
      /\ \E c \in {None} \cup SUBSET Capability : contexts' = [contexts EXCEPT ![p] = c]
  BY DEF Negotiate, Leave
<1>2. ContextsOK /\ ContextsOK'
  BY <1>1 DEF PInv, ContextsOK
<1>3. ASSUME NEW a, a.target # p PROVE Works(a)' <=> Works(a)
  <2>1. CASE a.target \in Peers
    <3>1. contexts'[a.target] = contexts[a.target]
      BY <1>1, <1>2, <1>3, <2>1 DEF ContextsOK
    <3> QED
      BY <2>1, <3>1 DEF Works, Answer, Forwarded, Ok, Fail
  <2>2. CASE a.target \notin Peers
    <3>1. Serve(a, None, Connected, RenderPolicy(None)) = NoPage
            <=> Serve(a, None, Connected', RenderPolicy(None)) = NoPage
      BY RouteExists
    <3>2. Serve(a, None, Connected, RenderPolicy(None)).kind = "socket"
            <=> Serve(a, None, Connected', RenderPolicy(None)).kind = "socket"
      BY SocketRoute
    <3> QED
      BY <2>2, <3>1, <3>2 DEF Works, Answer, Here, Ok, Fail
  <2> QED
    BY <2>1, <2>2
<1>4. AffordancesHonoured'
  BY <1>1, <1>3 DEF AffordancesHonoured, PInv, Works
<1> QED
  BY <1>2, <1>4 DEF PInv

LEMMA PagesStep == PInv /\ [Next]_vars => PInv'
<1> SUFFICES ASSUME PInv, [Next]_vars PROVE PInv'
  OBVIOUS
<1>1. CASE Enter
  <2>1. PICK scope \in Peers \cup {None, Gateway, "*"}, params \in {{}, {"ql"}} :
            Show(Scoped(scope, params))
    BY <1>1 DEF Enter
  <2>2. CASE scope = "*"
    <3>1. UNCHANGED vars
      BY <2>1, <2>2 DEF Scoped, Show, Fail, vars
    <3>2. \A a : Works(a)' <=> Works(a)
      BY <3>1 DEF vars, Works, Answer, Here, Forwarded, Connected
    <3> QED
      BY <3>1, <3>2 DEF vars, PInv, ContextsOK, AffordancesHonoured, Works
  <2>3. CASE scope # "*"
    BY <2>1, <2>3, ShowKeeps DEF Scoped
  <2> QED
    BY <2>2, <2>3
<1>2. CASE Bookmark
  BY <1>2, ShowKeeps DEF Bookmark
<1>3. CASE Follow
  BY <1>3, ShowKeeps DEF Follow
<1>4. CASE \E p \in Peers : Negotiate(p) \/ Leave(p)
  BY <1>4, PeerChanges
<1>5. CASE UNCHANGED vars
  <2>1. \A a : Works(a)' <=> Works(a)
    BY <1>5 DEF vars, Works, Answer, Here, Forwarded, Connected
  <2> QED
    BY <1>5, <2>1 DEF vars, PInv, ContextsOK, AffordancesHonoured, Works
<1> QED
  BY <1>1, <1>2, <1>3, <1>4, <1>5 DEF Next

(* Unless the peer's connection changed since, the gateway serves the links *)
(* and actions on the page a client has, whatever capabilities the peers    *)
(* negotiated and however the client came to the page, but for exactly two  *)
(* kinds of dead link on forwarded pages: the self link of a server page    *)
(* and the ws links to streams.                                             *)
THEOREM LinksWork == Spec => []AffordancesHonoured
  BY PagesInit, PagesStep, PTL DEF Spec, PInv

-----------------------------------------------------------------------------
(* What the crawl may find of a peer: something the peer lets the client    *)
(* do, or the self link that leads nowhere; and only if it lets it read.    *)
Doable == {"read", "query", "subscribe", "invoke"}
Allowed(a) ==
  a.target \in Peers =>
    /\ contexts[a.target] # None /\ "read" \in contexts[a.target]
    /\ Needs(a) \in {None} \cup (contexts[a.target] \cap Doable)
AllowedPage(p) == \A a \in p.shows : Allowed(a)

(* Where they lead. *)
LEMMA TargetOf ==
  ASSUME NEW b
  PROVE  /\ Link(b, <<>>).target = b /\ ResourcesUrl(b).target = b /\ ResourceUrl(b).target = b
         /\ MetaTypeUrl(b).target = b /\ Link(b, <<"meta">>).target = b /\ EventsUrl(b).target = b
         /\ QueryUrl(b).target = b /\ TransitionUrl(b).target = b /\ StreamUrl(b).target = b
         /\ ServerUrl(b) = IF b = None THEN Link(Gateway, <<>>) ELSE Link(b, <<"servers", "name">>)
         /\ Link(b, <<"servers", "name">>).target = b
  BY DEF Link, Ask, Url, ResourcesUrl, ResourceUrl, MetaTypeUrl, QueryUrl, TransitionUrl, StreamUrl,
         EventsUrl, ServerUrl

(* A peer's own affordances are allowed as its capabilities say. *)
LEMMA AllowedThere ==
  ASSUME NEW p \in Peers, contexts[p] # None, "read" \in contexts[p]
  PROVE  /\ Allowed(Link(p, <<>>)) /\ Allowed(ResourcesUrl(p)) /\ Allowed(ResourceUrl(p))
         /\ Allowed(MetaTypeUrl(p)) /\ Allowed(Link(p, <<"meta">>)) /\ Allowed(ServerUrl(p))
         /\ "query" \in contexts[p] => Allowed(QueryUrl(p))
         /\ "invoke" \in contexts[p] => Allowed(TransitionUrl(p))
         /\ "subscribe" \in contexts[p] => Allowed(StreamUrl(p))
<1>1. p # None
  BY PagesAssumption
<1>2. /\ Allowed(Link(p, <<>>)) /\ Allowed(ResourcesUrl(p)) /\ Allowed(ResourceUrl(p))
      /\ Allowed(MetaTypeUrl(p)) /\ Allowed(Link(p, <<"meta">>))
  BY NeedsOf, TargetOf DEF Allowed, Doable
<1>3. Allowed(ServerUrl(p))
  BY <1>1, NeedsOf, TargetOf DEF Allowed
<1>4. /\ "query" \in contexts[p] => Allowed(QueryUrl(p))
      /\ "invoke" \in contexts[p] => Allowed(TransitionUrl(p))
      /\ "subscribe" \in contexts[p] => Allowed(StreamUrl(p))
  BY NeedsOf, TargetOf DEF Allowed, Doable
<1> QED
  BY <1>2, <1>3, <1>4

(* The gateway's own pages say nothing of peers but links to readable ones. *)
LEMMA AllowedHere ==
  ASSUME NEW a
  PROVE  AllowedPage(Serve(a, None, Connected, RenderPolicy(None)))
<1> DEFINE all == RenderPolicy(None)
<1>1. None \notin Peers /\ Gateway \notin Peers
  BY PagesAssumption
<1>2. /\ Allowed(Link(None, <<>>)) /\ Allowed(ServerUrl(None)) /\ Allowed(ResourcesUrl(None))
      /\ Allowed(ResourceUrl(None)) /\ Allowed(TransitionUrl(None)) /\ Allowed(MetaTypeUrl(None))
      /\ Allowed(StreamUrl(None)) /\ Allowed(QueryUrl(None)) /\ Allowed(Link(None, <<"meta">>))
      /\ Allowed(EventsUrl(None))
  BY <1>1, TargetOf DEF Allowed
<1>3. AllowedPage(Page("root", None, RenderRoot(None, Connected, all)))
  <2> SUFFICES ASSUME NEW b \in RenderRoot(None, Connected, all) PROVE Allowed(b)
    BY PageFields DEF AllowedPage
  <2>1. ASSUME NEW p \in {q \in DOMAIN Connected : "read" \in Connected[q]}, b = Link(p, <<>>)
        PROVE  Allowed(b)
    <3>1. p \in Peers /\ contexts[p] # None /\ "read" \in contexts[p]
      BY <2>1 DEF Connected
    <3> QED
      BY <2>1, <3>1, AllowedThere
  <2> QED
    BY <1>2, <2>1 DEF RenderRoot, When, WithQueryAction
<1>4. \A b \in ResourceSubEntity(None, all) \cup WithQueryAction(None, all) : Allowed(b)
  BY <1>2 DEF ResourceSubEntity, WithQueryAction, When
<1>5. AllowedPage(Page("server", None, RenderServer(None, all)))
  BY <1>2, <1>4, PageFields DEF AllowedPage, RenderServer
<1>6. AllowedPage(Page("resources", None, RenderResources(None, all)))
  BY <1>2, <1>4, PageFields DEF AllowedPage, RenderResources
<1>7. AllowedPage(Page("search", None, RenderSearchResults(None, all)))
  BY <1>2, <1>4, PageFields DEF AllowedPage, RenderSearchResults
<1>8. AllowedPage(Page("resource", None, RenderResource(None, all)))
  BY <1>2, PageFields DEF AllowedPage, RenderResource, When
<1>9. AllowedPage(Page("type", None, RenderMetaType(None)))
  BY <1>2, PageFields DEF AllowedPage, RenderMetaType
<1>10. AllowedPage(Page("meta", None, RenderMeta(None, all)))
  BY <1>2, PageFields DEF AllowedPage, RenderMeta, RenderMetaType, When
<1>11. \A kind, base : AllowedPage(Page(kind, base, {})) /\ AllowedPage(NoPage)
  BY PageFields DEF AllowedPage, NoPage
<1> HIDE DEF all
<1> QED
  BY <1>3, <1>5, <1>6, <1>7, <1>8, <1>9, <1>10, <1>11, ServeCases DEF all

(* A peer's pages show what it allows, and of nobody else. *)
LEMMA AllowedFrom ==
  ASSUME ContextsOK, NEW a, a.target \in Peers, Works(a), Allowed(a)
  PROVE  AllowedPage(Answer(a).page)
<1> DEFINE p == a.target
           caps == contexts[p]
<1>1. caps # None /\ "read" \in caps /\ caps \subseteq Capability
  BY DEF Allowed, ContextsOK
<1>2. RenderPolicy(caps) = caps
  BY <1>1 DEF RenderPolicy, Parses
<1>3. Answer(a).page = Serve(a, p, <<>>, caps)
  BY <1>1, <1>2 DEF Answer, Forwarded, Ok, Fail, Works
<1>4. /\ Allowed(Link(p, <<>>)) /\ Allowed(ResourcesUrl(p)) /\ Allowed(ResourceUrl(p))
      /\ Allowed(MetaTypeUrl(p)) /\ Allowed(Link(p, <<"meta">>)) /\ Allowed(ServerUrl(p))
      /\ "query" \in caps => Allowed(QueryUrl(p))
      /\ "invoke" \in caps => Allowed(TransitionUrl(p))
      /\ "subscribe" \in caps => Allowed(StreamUrl(p))
  BY <1>1, AllowedThere
<1>5. a.target # None
  BY PagesAssumption
<1>6. IsSearch(a) /\ (At(a, "GET", <<>>) \/ At(a, "GET", <<"resources">>)) => "query" \in caps
  BY WorksThere, RequiredOf DEF At, IsSearch
<1> HIDE DEF p, caps
<1>7. \A b \in ResourceSubEntity(p, caps) \cup WithQueryAction(p, caps) : Allowed(b)
  BY <1>4 DEF ResourceSubEntity, WithQueryAction, When
<1>8. AllowedPage(Page("server", p, RenderServer(p, caps)))
  BY <1>4, <1>7, PageFields DEF AllowedPage, RenderServer
<1>9. AllowedPage(Page("resources", p, RenderResources(p, caps)))
  BY <1>4, <1>7, PageFields DEF AllowedPage, RenderResources
<1>10. "query" \in caps => AllowedPage(Page("search", p, RenderSearchResults(p, caps)))
  BY <1>4, <1>7, PageFields DEF AllowedPage, RenderSearchResults
<1>11. AllowedPage(Page("resource", p, RenderResource(p, caps)))
  BY <1>4, PageFields DEF AllowedPage, RenderResource, When
<1>12. AllowedPage(Page("type", p, RenderMetaType(p)))
  BY <1>4, PageFields DEF AllowedPage, RenderMetaType
<1>13. AllowedPage(Page("meta", p, RenderMeta(p, caps)))
  BY <1>4, PageFields DEF AllowedPage, RenderMeta, RenderMetaType, When
<1>14. \A kind, base : AllowedPage(Page(kind, base, {})) /\ AllowedPage(NoPage)
  BY PageFields DEF AllowedPage, NoPage
<1> QED
  BY <1>3, <1>5, <1>6, <1>8, <1>9, <1>10, <1>11, <1>12, <1>13, <1>14, ServeCases

(* Following links leads from what is allowed to what is allowed. *)
LEMMA FollowAllowed ==
  ASSUME ContextsOK, NEW known, \A a \in known : Allowed(a)
  PROVE  \A a \in FollowAll(known) : Allowed(a)
<1>1. ASSUME NEW b \in known, Works(b) PROVE AllowedPage(Answer(b).page)
  <2>1. CASE b.target \in Peers
    BY <1>1, <2>1, AllowedFrom
  <2>2. CASE b.target \notin Peers
    <3>1. Answer(b).page = Serve(b, None, Connected, RenderPolicy(None))
      BY <1>1, <2>2, WorksHere
    <3> QED
      BY <3>1, AllowedHere
  <2> QED
    BY <2>1, <2>2
<1> QED
  BY <1>1 DEF FollowAll, AllowedPage, Works

(* It forgets nothing, and finds what the pages it reaches show. *)
LEMMA FollowFinds ==
  ASSUME NEW known
  PROVE  /\ known \subseteq FollowAll(known)
         /\ \A a \in known : Works(a) => Answer(a).page.shows \subseteq FollowAll(known)
  BY DEF FollowAll, Works

LEMMA HomeServed == Home = Serve(Link(None, <<>>), None, Connected, RenderPolicy(None))
  BY RestPairs DEF Home, Serve, Link, Ask, Url

(* The pages on the way: a readable peer's own page, then its resource's. *)
LEMMA PeerPages ==
  ASSUME ContextsOK, NEW p \in Peers, contexts[p] # None, "read" \in contexts[p]
  PROVE  /\ Answer(Link(p, <<>>)).page.shows = RenderServer(p, contexts[p])
         /\ Answer(ResourceUrl(p)).page.shows = RenderResource(p, contexts[p])
<1> DEFINE caps == contexts[p]
<1>1. RenderPolicy(caps) = caps
  BY DEF RenderPolicy, Parses, ContextsOK
<1>2. Works(Link(p, <<>>)) /\ Works(ResourceUrl(p)) /\ p # None
  BY PeerLinksWork, PagesAssumption
<1>3. /\ Answer(Link(p, <<>>)).page = Serve(Link(p, <<>>), p, <<>>, caps)
      /\ Answer(ResourceUrl(p)).page = Serve(ResourceUrl(p), p, <<>>, caps)
  BY <1>1, <1>2, TargetOf DEF Answer, Forwarded, Ok, Fail, Works
<1>4. Serve(Link(p, <<>>), p, <<>>, caps) = Page("server", p, RenderServer(p, caps))
  BY <1>2, RestPairs DEF Serve, Link, Ask, Url
<1>5. Serve(ResourceUrl(p), p, <<>>, caps) = Page("resource", p, RenderResource(p, caps))
  BY RestPairs, PathsDiffer DEF Serve, ResourceUrl, Link, Ask, Url
<1> QED
  BY <1>3, <1>4, <1>5, PageFields

(* The crawl reaches everything a readable peer allows. *)
LEMMA CrawlReaches ==
  ASSUME ContextsOK, NEW p \in Peers, contexts[p] # None, "read" \in contexts[p],
         NEW c \in contexts[p] \cap Doable
  PROVE  \E a \in Found : a.target = p /\ Needs(a) = c
<1> DEFINE caps == contexts[p]
           one == FollowAll(Home.shows)
           two == FollowAll(one)
<1>1. Works(Link(p, <<>>)) /\ Works(ResourceUrl(p))
  BY PeerLinksWork
<1>2. Link(p, <<>>) \in Home.shows
  <2>1. p \in {q \in DOMAIN Connected : "read" \in Connected[q]}
    BY DEF Connected
  <2> QED
    BY <2>1, PageFields DEF Home, RenderRoot
<1>3. RenderServer(p, caps) \subseteq one
  BY <1>1, <1>2, FollowFinds, PeerPages
<1>4. ResourceUrl(p) \in one
  BY <1>3 DEF RenderServer, ResourceSubEntity, When
<1>5. RenderResource(p, caps) \subseteq two
  BY <1>1, <1>4, FollowFinds, PeerPages
<1>6. Home.shows \subseteq one /\ one \subseteq two /\ two \subseteq Found
  BY FollowFinds DEF Found
<1> HIDE DEF one, two
<1>7. CASE c = "read"
  BY <1>2, <1>6, <1>7, NeedsOf, TargetOf
<1>8. CASE c = "query"
  <2>1. QueryUrl(p) \in one
    BY <1>3, <1>8 DEF RenderServer, WithQueryAction, When
  <2> QED
    BY <1>6, <1>8, <2>1, NeedsOf, TargetOf
<1>9. CASE c = "subscribe"
  <2>1. StreamUrl(p) \in two
    BY <1>5, <1>9 DEF RenderResource, When
  <2> QED
    BY <1>6, <1>9, <2>1, NeedsOf, TargetOf
<1>10. CASE c = "invoke"
  <2>1. TransitionUrl(p) \in two
    BY <1>5, <1>10 DEF RenderResource, When
  <2> QED
    BY <1>6, <1>10, <2>1, NeedsOf, TargetOf
<1> QED
  BY <1>7, <1>8, <1>9, <1>10 DEF Doable

LEMMA CrawlSound == ContextsOK => \A a \in Found : Allowed(a)
<1> SUFFICES ASSUME ContextsOK PROVE \A a \in Found : Allowed(a)
  OBVIOUS
<1>1. \A a \in Home.shows : Allowed(a)
  BY HomeServed, AllowedHere DEF AllowedPage
<1>2. \A a \in FollowAll(Home.shows) : Allowed(a)
  BY <1>1, FollowAllowed
<1>3. \A a \in FollowAll(FollowAll(Home.shows)) : Allowed(a)
  BY <1>2, FollowAllowed
<1> QED
  BY <1>3, FollowAllowed DEF Found

LEMMA CrawlExact == ContextsOK => CrawlFindsAllowed
<1> SUFFICES ASSUME ContextsOK, NEW p \in Peers
             PROVE  {Needs(a) : a \in {b \in Found : b.target = p}} \ {None}
                      = IF contexts[p] # None /\ "read" \in contexts[p]
                        THEN contexts[p] \cap Doable ELSE {}
  BY DEF CrawlFindsAllowed, Needs, Doable
<1> DEFINE of == {b \in Found : b.target = p}
<1>1. CASE contexts[p] # None /\ "read" \in contexts[p]
  <2>1. \A a \in of : Needs(a) \in {None} \cup (contexts[p] \cap Doable)
    BY CrawlSound DEF Allowed
  <2>2. \A c \in contexts[p] \cap Doable : \E a \in of : Needs(a) = c
    BY <1>1, CrawlReaches
  <2>3. None \notin Doable
    BY PagesAssumption DEF Doable, Capability
  <2> HIDE DEF of
  <2>4. {Needs(a) : a \in of} \ {None} = contexts[p] \cap Doable
    BY <2>1, <2>2, <2>3
  <2> QED
    BY <1>1, <2>4 DEF of
<1>2. CASE ~(contexts[p] # None /\ "read" \in contexts[p])
  <2>1. of = {}
    BY <1>2, CrawlSound DEF Allowed
  <2> QED
    BY <1>2, <2>1
<1> QED
  BY <1>1, <1>2

(* A client that crawls from the root finds of every peer it may read all   *)
(* the peer lets it do and nothing else, and nothing of any other peer, for *)
(* any peers and whatever they negotiated.                                  *)
THEOREM CrawlComplete == Spec => []CrawlFindsAllowed
<1>1. PInv => CrawlFindsAllowed
  BY CrawlExact DEF PInv
<1> QED
  BY <1>1, PagesInit, PagesStep, PTL DEF Spec
=============================================================================
