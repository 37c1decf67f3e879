---------------------------- MODULE MCHostCache ----------------------------
(* The host cache executor on two pages, one slot and one block per tier.  *)
EXTENDS HostCacheExecutor

CONSTANTS p1, p2, s1, h1, b1
OneEventSet == <<"set0">>
PlansByTransport == [byFlags \in BOOLEAN |-> IF byFlags THEN 3 ELSE 2]
PageSymmetry == Permutations({p1, p2})
=============================================================================
