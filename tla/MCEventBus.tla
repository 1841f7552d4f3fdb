----------------------------- MODULE MCEventBus -----------------------------
(***************************************************************************)
(* Instances of EventBus for TLC: which policies, limits and capacities    *)
(* the subscriptions have, and the symmetry of the publishers.             *)
(***************************************************************************)
EXTENDS EventBus, TLC

CONSTANTS s1, s2, str1

QuotaTopic == (s1 :> {str1}) @@ (s2 :> {str1})
QuotaPolicy == (s1 :> "backpressure") @@ (s2 :> "drop_newest")
QuotaLimit == (s1 :> 2) @@ (s2 :> 2)
UnitCap == (s1 :> 1) @@ (s2 :> 1)

MixedPolicy == (s1 :> "backpressure") @@ (s2 :> "disconnect")
OneLimited == (s1 :> 2) @@ (s2 :> NoLimit)

Symmetry == Permutations(AsyncPublishers)
=============================================================================
