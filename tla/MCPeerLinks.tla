---------------------------- MODULE MCPeerLinks ----------------------------
(***************************************************************************)
(* One hub that redials, with the same or other capabilities, so that two  *)
(* connections of one name overlap at the gateway; the hub is the target   *)
(* of requests and, with its token, also their caller.                     *)
(***************************************************************************)
EXTENDS PeerLinks, TLC

CONSTANTS h1, r1, r2, gw, t1, s1, s2, n1, n2, other, nobody

Tokens == {
  [token |-> t1, secret |-> s1, route |-> r1, node |-> n1, allowed |-> {"read", "invoke"}],
  [token |-> t1, secret |-> s1, route |-> r2, node |-> None, allowed |-> {"read"}]}
NoTokens == {}

Offer(token, secret, node, caps) ==
  [token |-> token, bearer |-> secret, node |-> node, caps |-> caps, websocket |-> TRUE]

OneRoute == h1 :> r1
TokenOffers ==
  <<h1, 1>> :> {Offer(t1, s1, n1, {"read", "invoke"}), Offer(t1, s2, n1, {"read"}), Offer(t1, s1, n1, {})}
  @@ <<h1, 2>> :> {Offer(t1, s1, n1, {"read", "query"}), Offer(t1, s1, n2, {"read"}), Offer(None, None, n1, {"read"})}
NoOffers == [c \in {<<h1, 1>>, <<h1, 2>>} |-> {Offer(None, None, None, None)}]
Twice == h1 :> 2

Forged ==
  [n \in {ForwardedHost, ForwardedBy, Caller} \cup {Plain(x) : x \in {"host", "authorization", "x-trace", "accept"}}
     |-> <<other>>]
Ask(target, method, rest, token, bearer) ==
  [target |-> target, method |-> method, rest |-> rest, params |-> {}, token |-> token,
   bearer |-> bearer, headers |-> Forged, listed |-> {Plain("x-trace"), Caller}]
Invoke == <<"resources", "id", "transitions", "t">>
MixedQueries ==
  {Ask(gw, "GET", <<>>, None, None), Ask(nobody, "GET", <<>>, None, None), Ask(r1, "PUT", <<>>, None, None),
   Ask(r1, "GET", <<"resources">>, t1, s2)}
  \cup {Ask(r1, "POST", Invoke, t, s1) : t \in {None, t1}}
=============================================================================
