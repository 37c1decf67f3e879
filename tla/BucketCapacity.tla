--------------------------- MODULE BucketCapacity ---------------------------
(***************************************************************************)
(* The capacity arithmetic that BlockPool's exact acquire, the             *)
(* coordinator's snapshot probe and the admission planner share.           *)
(***************************************************************************)
EXTENDS Integers, FiniteSets, FiniteSetsExt

CeilDiv(a, b) == (a + b - 1) \div b
Short(need, holes) == IF need > holes THEN need - holes ELSE 0
SumOver(f) == MapThenSumSet(LAMBDA b : f[b], DOMAIN f)

\* Mutant: the buckets share the opened parents but the dense blocks only see
\* what the bucket demands are short of.
ParentsNeededForBuckets_ShortfallsOnly(need, holes, dense_need, packing) ==
    LET per_parent == packing \div Cardinality(DOMAIN need)
        by_bucket == {CeilDiv(Short(need[b], holes[b]), per_parent) : b \in DOMAIN need}
    IN  Max(by_bucket \cup {CeilDiv(Short(dense_need, SumOver(holes)), packing)})

\* Empty parents a group must open to place need[b] blocks in each bucket b
\* and dense_need blocks in any bucket, given holes[b] free slots already in
\* its bound parents.
ParentsNeededForBuckets(need, holes, dense_need, packing) ==
    LET per_parent == packing \div Cardinality(DOMAIN need)
        by_bucket == {CeilDiv(Short(need[b], holes[b]), per_parent) : b \in DOMAIN need}
        total == Short(dense_need + SumOver(need), SumOver(holes))
    IN  Max(by_bucket \cup {CeilDiv(total, packing)})

\* k opened parents hold the demand: every bucket takes its own blocks, and
\* the dense blocks find room in what all buckets have left.
Holds(need, holes, dense_need, packing, k) ==
    LET room == [b \in DOMAIN need |-> holes[b] + k * (packing \div Cardinality(DOMAIN need))]
    IN  /\ \A b \in DOMAIN need : need[b] <= room[b]
        /\ dense_need <= SumOver([b \in DOMAIN need |-> room[b] - need[b]])
=============================================================================
