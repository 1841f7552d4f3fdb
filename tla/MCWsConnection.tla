--------------------------- MODULE MCWsConnection ---------------------------
(***************************************************************************)
(* A connection with local and forwarded subscriptions, small enough for   *)
(* TLC; the peer key is shared with a subscriber of another connection.    *)
(***************************************************************************)
EXTENDS WsConnection, TLC

CONSTANTS l1, f1, f2, key

Symmetric == Permutations({f1, f2})
NoLimit == l1 :> 0
ThreeEvents == l1 :> 3
OneKey == f1 :> key @@ f2 :> key
=============================================================================
