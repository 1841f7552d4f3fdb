--------------------------- MODULE PeerAdmission ---------------------------
(***************************************************************************)
(* The decisions of peering that touch no shared state: which upgrade a    *)
(* gateway admits and with which capabilities, what a request wants        *)
(* (ProxyIntent), which headers cross the hop to a peer, and what the peer *)
(* believes about the caller (http/routes.rs, peer.rs).                    *)
(*                                                                         *)
(* A capability set is a set; a list on the wire is a set of names, some   *)
(* of which may be unknown.  Header values are model values.               *)
(***************************************************************************)
EXTENDS Integers, Sequences, FiniteSets, Functions

CONSTANTS Admissions,     \* set of PeerAdmissionConfig records
          AllowLocal,     \* allow_unauthenticated_local_peers()
          None            \* an absent header or option

Capability == {"read", "query", "subscribe", "invoke", "register", "admin"}

ASSUME AdmissionAssumption ==
  /\ \A a \in Admissions : a.allowed \subseteq Capability
  /\ AllowLocal \in BOOLEAN

(* PeerCapabilities::parse_list: unknown names are refused. *)
Parses(list) == list # None /\ list \subseteq Capability

Deny(status) == [ok |-> FALSE, status |-> status]
Admitted(route, token, node, negotiated) ==
  [ok |-> TRUE, route |-> route, token |-> token, node |-> node, negotiated |-> negotiated]

(* required_header, optional_header and bearer_token: an absent, blank or  *)
(* unreadable value is None.                                               *)
Present(header) == header # None

(* verified_admissions: the token id is known and the secret is its own. *)
Verify(admission, bearer) == admission.secret = bearer
Verified(token, bearer) == {a \in Admissions : a.token = token /\ Verify(a, bearer)}

(* admit_peer_connection, in the order of its checks.  Configs are tried   *)
(* in order; two for one token and route differ in nothing we model.       *)
AdmitTokenBound(route, h) ==
  LET onRoute == {a \in Verified(h.token, h.bearer) : a.route = route}
      config == CHOOSE a \in onRoute : TRUE
  IN IF ~Present(h.token) \/ ~Present(h.bearer) THEN Deny(401)
     ELSE IF Verified(h.token, h.bearer) = {} THEN Deny(401)
     ELSE IF onRoute = {} THEN Deny(403)
     ELSE IF ~Present(h.node) THEN Deny(400)
     ELSE IF config.node \notin {None, h.node} THEN Deny(403)
     ELSE IF ~Parses(h.caps) THEN Deny(400)
     ELSE IF h.caps \cap config.allowed = {} THEN Deny(403)
     ELSE Admitted(route, h.token, h.node, h.caps \cap config.allowed)

Admit(route, h) ==
  IF Admissions # {} THEN AdmitTokenBound(route, h)
  ELSE IF AllowLocal THEN Admitted(route, None, None, Capability)
  ELSE Deny(403)

(* build_upgrade_response: the websocket key, version and subprotocol. *)
UpgradeOk(h) == h.websocket

-----------------------------------------------------------------------------
(* ProxyIntent::from_parts and required_capability: what a request to      *)
(* /servers/{peer}/rest needs, None when the gateway does not know it.     *)
Rest(method, rest) == <<method, rest>>
Required(method, rest, params) ==
  CASE Rest(method, rest) \in {Rest("GET", <<>>), Rest("GET", <<"resources">>)} ->
         IF "ql" \in params THEN "query" ELSE "read"
    [] Rest(method, rest) = Rest("GET", <<"resources", "id">>) -> "read"
    [] Rest(method, rest) \in {Rest("GET", <<"meta">>), Rest("GET", <<"meta", "id">>)} -> "read"
    [] Rest(method, rest) = Rest("POST", <<"resources">>) -> "register"
    [] Rest(method, rest) = Rest("POST", <<"resources", "id", "transitions", "t">>) -> "invoke"
    [] Rest(method, rest) = Rest("GET", <<"events">>) -> IF "topic" \in params THEN "subscribe" ELSE None
    [] Rest(method, rest) = Rest("POST", <<"events", "unsubscribe">>) -> "subscribe"
    [] Rest(method, rest) = Rest("GET", <<"peer-management">>) -> "admin"
    [] OTHER -> None

-----------------------------------------------------------------------------
(* A HeaderMap is a function from the names in it to their values, in the  *)
(* order they were added.  A name is the family its prefix puts it in,     *)
(* None for any other prefix, and the rest of it.                          *)
HeaderName(family, rest) == [family |-> family, rest |-> rest]
Plain(rest) == HeaderName(None, rest)

(* HeaderMap::get_all, get (the first value) and append. *)
GetAll(headers, name) == IF name \in DOMAIN headers THEN headers[name] ELSE <<>>
Get(headers, name) == IF GetAll(headers, name) = <<>> THEN None ELSE Head(GetAll(headers, name))
With(headers, name, value) ==
  [n \in DOMAIN headers \cup {name} |->
     IF n = name THEN Append(GetAll(headers, name), value) ELSE headers[n]]

HopByHop == {Plain(n) : n \in {"authorization", "cookie", "connection", "forwarded", "keep-alive",
                               "te", "trailer", "transfer-encoding", "upgrade", "host"}}
Owned == {"proxy", "x-forwarded", "x-boardwalk", "boardwalk", "sec-websocket"}

(* should_forward_header: neither the credentials and hop-by-hop headers,  *)
(* nor what `Connection` lists, nor a family the gateway owns.             *)
ForwardsAll(name, listed) == name \notin HopByHop   \* faulty: trusts the inbound families
ShouldForward(name, listed) == name \notin HopByHop \cup listed /\ name.family \notin Owned

(* build_peer_forward_request: what is left of the inbound headers, then   *)
(* the gateway's own: the host the client addressed, the gateway's name    *)
(* and `caller`, the attested connection or None.                          *)
ForwardedHost == HeaderName("x-forwarded", "host")
ForwardedBy == HeaderName("boardwalk", "forwarded-by")
Caller == HeaderName("boardwalk", "caller")

ExternalHost(headers) ==
  IF Get(headers, Plain("host")) = None THEN "localhost" ELSE Get(headers, Plain("host"))

Stamped(headers, host, gateway, caller) ==
  LET own == With(With(headers, ForwardedHost, host), ForwardedBy, gateway)
  IN IF caller = None THEN own ELSE With(own, Caller, caller)
ForwardHeaders(headers, listed, gateway, caller) ==
  Stamped(Restrict(headers, {n \in DOMAIN headers : ShouldForward(n, listed)}),
          ExternalHost(headers), gateway, caller)

(* caller_provenance: headers are believed on a tunnel leg only. *)
Local == [gateway |-> None, caller |-> None]
Provenance(tunnelLeg, headers) ==
  IF ~tunnelLeg \/ Get(headers, ForwardedBy) = None THEN Local
  ELSE [gateway |-> Get(headers, ForwardedBy), caller |-> Get(headers, Caller)]
=============================================================================
