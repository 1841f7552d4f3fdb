--------------------------- MODULE MCNdjsonStream ---------------------------
(***************************************************************************)
(* An instance of NdjsonStream for TLC: a replaying Disconnect request     *)
(* next to a limited Backpressure consumer of the bus, whose full queue    *)
(* makes the async publisher wait and lets it be cancelled.                *)
(***************************************************************************)
EXTENDS NdjsonStream, TLC

CONSTANTS s1, s2, str1

PairTopic == (s1 :> {str1}) @@ (s2 :> {str1})
PairPolicy == (s1 :> "disconnect") @@ (s2 :> "backpressure")
PairLimit == (s1 :> NoLimit) @@ (s2 :> 2)
PairCap == (s1 :> 1) @@ (s2 :> 1)
PairReplay == s1 :> {str1}
=============================================================================
