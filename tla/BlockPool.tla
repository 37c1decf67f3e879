------------------------------ MODULE BlockPool ------------------------------
(***************************************************************************)
(* Physical placement of cache blocks (cache/core/block_pool.h).           *)
(*                                                                         *)
(* The pool owns NumLcmBlocks parents.  A parent is empty (queued in       *)
(* free_parent_ids) or bound to one cache group, which splits it into      *)
(* Packing[g] child slots; a slot's bucket is slot % ShardCount[g].  For   *)
(* every group and bucket the pool caches how many holes the bound parents *)
(* have (free_slots_by_bucket) and an index of the parents that have one   *)
(* (parents_by_bucket, ordered by occupancy); for every parent it caches   *)
(* the lowest free slot of each bucket (first_free_slots).  Placement      *)
(* reads the caches only, so they must agree with the occupancy bits.      *)
(*                                                                         *)
(* An acquire checks its capacity once and then places one block per loop  *)
(* iteration; `call' is the acquire whose loop is running.  The pool is    *)
(* single-threaded, so nothing else happens until the loop ends.  Checks   *)
(* that abort the process (FatalCheck) add their name to `failed'.         *)
(***************************************************************************)
EXTENDS Integers, Sequences, FiniteSets, FiniteSetsExt, BucketCapacity

CONSTANTS
    NumLcmBlocks,  \* number of physical parents
    Groups,        \* cache groups with a placement in this pool
    Packing,       \* child slots per parent, by group
    ShardCount,    \* buckets per parent, by group
    NoGroup        \* "bound to no group"

ASSUME PoolGeometry ==
    /\ NumLcmBlocks \in Nat
    /\ Packing \in [Groups -> Nat \ {0}]
    /\ ShardCount \in [Groups -> Nat \ {0}]
    /\ \A g \in Groups : Packing[g] % ShardCount[g] = 0
    /\ NoGroup \notin Groups

Parents == 1 .. NumLcmBlocks
Slots(g) == 0 .. (Packing[g] - 1)
Buckets(g) == 0 .. (ShardCount[g] - 1)
BucketOf(g, slot) == slot % ShardCount[g]
PerBucket(g) == Packing[g] \div ShardCount[g]

\* `call' when no acquire is running.
Idle == [kind |-> "idle"]

VARIABLES
    bound_group,           \* [Parents -> Groups \cup {NoGroup}]
    occupancy,             \* [Parents -> occupied slots]
    occupied_count,        \* [Parents -> Nat]
    first_free_slots,      \* [Parents -> lowest free slot by bucket, Packing if none]
    free_parent_ids,       \* FIFO of the empty parents
    free_slots_by_bucket,  \* [Groups -> holes of the bound parents by bucket]
    parents_by_bucket,     \* [Groups -> (-occupied_count, parent) pairs by bucket]
    call,                  \* the acquire whose placement loop is running
    failed                 \* names of the FatalChecks that fired

lcm_blocks == <<bound_group, occupancy, occupied_count, first_free_slots>>
availability == <<free_slots_by_bucket, parents_by_bucket>>
vars == <<lcm_blocks, free_parent_ids, availability, call, failed>>

(***************************************************************************)
(* Capacity.                                                               *)
(***************************************************************************)
FreeSlots(g) == SumOver(free_slots_by_bucket[g])
\* Mutant: bound parents count as empty ones.
availableBlocks_CountsBoundParents(g) == FreeSlots(g) + NumLcmBlocks * Packing[g]
availableBlocks(g) == FreeSlots(g) + Len(free_parent_ids) * Packing[g]

(***************************************************************************)
(* Placement.  An index entry is <<-occupied_count, parent>>; std::set     *)
(* order makes its head the fullest parent, then the lowest id.            *)
(***************************************************************************)
\* Mutant: the index is ordered by rising occupancy.
Before_LeastOccupiedFirst(e, f) == e[1] > f[1] \/ (e[1] = f[1] /\ e[2] < f[2])
Before(e, f) == e[1] < f[1] \/ (e[1] = f[1] /\ e[2] < f[2])
Head1(index) == CHOOSE e \in index : \A f \in index \ {e} : Before(e, f)

NoLocation == [parent |-> 0, slot |-> 0]

\* The first empty parent at `slot'; NoLocation is the exhausted FatalCheck.
OpenParent(slot) ==
    IF free_parent_ids = <<>> THEN NoLocation
    ELSE [parent |-> Head(free_parent_ids), slot |-> slot]

\* Where bucket b of group g would place next, among the bound parents.
HoleIn(g, b) ==
    LET p == Head1(parents_by_bucket[g][b])[2]
    IN  [parent |-> p, slot |-> first_free_slots[p][b]]

\* Mutant: an opened parent is entered at slot 0.
nextLocationInBucket_OpensAtZero(g, b) ==
    IF parents_by_bucket[g][b] # {} THEN HoleIn(g, b) ELSE OpenParent(0)
nextLocationInBucket(g, b) ==
    IF parents_by_bucket[g][b] # {} THEN HoleIn(g, b) ELSE OpenParent(b)

LeastLoaded(loads) ==
    CHOOSE b \in DOMAIN loads :
        \A c \in DOMAIN loads : loads[b] < loads[c] \/ (loads[b] = loads[c] /\ b <= c)

\* Unbalanced: the fullest parent, lowest id, lowest slot over all buckets.
\* Balanced: the least loaded bucket that has a hole comes first.
nextLocation(g, balanced, loads) ==
    LET open == {b \in Buckets(g) : parents_by_bucket[g][b] # {}}
        lead(b) == Head1(parents_by_bucket[g][b])
        slot(b) == first_free_slots[lead(b)[2]][b]
        Better(b, c) ==
            IF balanced
              THEN loads[b] < loads[c] \/ (loads[b] = loads[c] /\ b <= c)
              ELSE \/ Before(lead(b), lead(c))
                   \/ lead(b) = lead(c) /\ slot(b) <= slot(c)
    IN  IF open # {}
          THEN HoleIn(g, CHOOSE b \in open : \A c \in open : Better(b, c))
          ELSE OpenParent(IF balanced THEN LeastLoaded(loads) ELSE 0)

(***************************************************************************)
(* The bucket index of one group after parent p leaves it with count n and *)
(* first-free slots ff (removeAvailability), or joins it (addAvailability).*)
(* A full parent is not listed.                                            *)
(***************************************************************************)
ListedIn(g, ff, n) ==
    IF n = Packing[g] THEN {} ELSE {b \in Buckets(g) : ff[b] < Packing[g]}

removeAvailability(index, g, p, ff, n) ==
    [b \in Buckets(g) |->
        IF b \in ListedIn(g, ff, n) THEN index[b] \ {<<-n, p>>} ELSE index[b]]

addAvailability(index, g, p, ff, n) ==
    [b \in Buckets(g) |->
        IF b \in ListedIn(g, ff, n) THEN index[b] \cup {<<-n, p>>} ELSE index[b]]

\* The FatalChecks of the two: each listed entry was there, or was not.
ListedEverywhere(index, g, p, ff, n) == \A b \in ListedIn(g, ff, n) : <<-n, p>> \in index[b]
ListedNowhere(index, g, p, ff, n) == \A b \in ListedIn(g, ff, n) : <<-n, p>> \notin index[b]

Check(name, ok) == IF ok THEN {} ELSE {name}

\* Mutant: -1 marks a full bucket.
NextFree_MinusOneSentinel(g, taken, slot) ==
    LET free == {s \in Slots(g) : s > slot /\ BucketOf(g, s) = BucketOf(g, slot) /\ s \notin taken}
    IN  IF free = {} THEN -1 ELSE Min(free)
\* Mutant: the next slot is taken to be free.
NextFree_IgnoresOccupancy(g, taken, slot) ==
    IF slot + ShardCount[g] < Packing[g] THEN slot + ShardCount[g] ELSE Packing[g]
\* The lowest free slot after `slot' in its bucket once taken is occupied.
NextFree(g, taken, slot) ==
    LET free == {s \in Slots(g) : s > slot /\ BucketOf(g, s) = BucketOf(g, slot) /\ s \notin taken}
    IN  IF free = {} THEN Packing[g] ELSE Min(free)

(***************************************************************************)
(* occupy: bind the parent when it is empty, take the slot, update the     *)
(* caches.                                                                 *)
(***************************************************************************)
occupy(g, loc) ==
    LET p == loc.parent
        opens == occupied_count[p] = 0
        b == BucketOf(g, loc.slot)
        n == IF opens THEN 0 ELSE occupied_count[p]
        taken == IF opens THEN {} ELSE occupancy[p]
        ff == IF opens THEN [c \in Buckets(g) |-> c] ELSE first_free_slots[p]
        ffNew == IF ff[b] = loc.slot THEN [ff EXCEPT ![b] = NextFree(g, taken, loc.slot)] ELSE ff
        holes == [c \in Buckets(g) |-> free_slots_by_bucket[g][c] + (IF opens THEN PerBucket(g) ELSE 0)]
        index == IF opens THEN parents_by_bucket[g]
                 ELSE removeAvailability(parents_by_bucket[g], g, p, ff, n)
    IN  /\ bound_group' = [bound_group EXCEPT ![p] = IF opens THEN g ELSE @]
        /\ occupancy' = [occupancy EXCEPT ![p] = taken \cup {loc.slot}]
        /\ occupied_count' = [occupied_count EXCEPT ![p] = n + 1]
        /\ first_free_slots' = [first_free_slots EXCEPT ![p] = ffNew]
        /\ free_parent_ids' = IF opens THEN Tail(free_parent_ids) ELSE free_parent_ids
        /\ free_slots_by_bucket' = [free_slots_by_bucket EXCEPT ![g] = [holes EXCEPT ![b] = @ - 1]]
        /\ parents_by_bucket' =
              [parents_by_bucket EXCEPT ![g] = addAvailability(index, g, p, ffNew, n + 1)]
        /\ failed' = failed
              \cup Check("opens the FIFO head", opens => p = Head(free_parent_ids) /\ occupancy[p] = {})
              \cup Check("partial parent indexed",
                         ~opens => ListedEverywhere(parents_by_bucket[g], g, p, ff, n))
              \cup Check("binding unchanged", ~opens => bound_group[p] = g)
              \cup Check("slot free", loc.slot \in Slots(g) \ taken)
              \cup Check("holes on occupy", holes[b] > 0)
              \cup Check("parent not yet indexed", ListedNowhere(index, g, p, ffNew, n + 1))

(***************************************************************************)
(* The acquires.  A call that fails its capacity check returns nothing and *)
(* changes nothing.  `want' is the bucket of each block still to place, or *)
(* only their number when any bucket will do.                              *)
(***************************************************************************)
CONSTANTS
    MaxBlocks,  \* bound: blocks in one acquire
    MaxLoad     \* bound: a request's blocks per bucket, as BucketLoads counts them

ASSUME AcquireBounds == MaxBlocks \in Nat /\ MaxLoad \in Nat

Need(g, want) == [b \in Buckets(g) |-> Cardinality({i \in DOMAIN want : want[i] = b})]

\* A caller that passes no loads (balanced is FALSE) gets the dense order.
AcquireBlocks(g, num, balanced, loads) ==
    /\ call = Idle
    /\ num > 0
    /\ balanced => ShardCount[g] > 1
    /\ availableBlocks(g) >= num
    /\ call' = [kind |-> "any", group |-> g, num |-> num, balanced |-> balanced,
                loads |-> IF balanced THEN loads ELSE [b \in Buckets(g) |-> 0]]
    /\ UNCHANGED <<lcm_blocks, free_parent_ids, availability, failed>>

AcquireUpToBlocks(g, max_num) ==
    LET take == Min({max_num, availableBlocks(g)})
    IN  /\ call = Idle
        /\ take > 0
        /\ call' = [kind |-> "any", group |-> g, num |-> take,
                    balanced |-> FALSE, loads |-> [b \in Buckets(g) |-> 0]]
        /\ UNCHANGED <<lcm_blocks, free_parent_ids, availability, failed>>

AcquireBlocksInBuckets(g, want) ==
    /\ call = Idle
    /\ want # <<>>
    /\ ParentsNeededForBuckets(Need(g, want), free_slots_by_bucket[g], 0, Packing[g])
          <= Len(free_parent_ids)
    /\ call' = [kind |-> "buckets", group |-> g, want |-> want]
    /\ UNCHANGED <<lcm_blocks, free_parent_ids, availability, failed>>

\* One iteration of acquireAvailableBlocks' loop.
PlaceAny ==
    /\ call.kind = "any"
    /\ LET g == call.group
           loc == nextLocation(g, call.balanced, call.loads)
       IN  IF loc = NoLocation
             THEN /\ failed' = failed \cup {"capacity exhausted"}
                  /\ UNCHANGED <<lcm_blocks, free_parent_ids, availability, call>>
             ELSE /\ occupy(g, loc)
                  /\ call' = IF call.num = 1 THEN Idle
                             ELSE [call EXCEPT !.num = @ - 1,
                                               !.loads[BucketOf(g, loc.slot)] = @ + 1]

\* One iteration of AcquireBlocksInBuckets' loop.
PlaceInBucket ==
    /\ call.kind = "buckets"
    /\ LET g == call.group
           loc == nextLocationInBucket(g, Head(call.want))
       IN  IF loc = NoLocation
             THEN /\ failed' = failed \cup {"bucket capacity exhausted"}
                  /\ UNCHANGED <<lcm_blocks, free_parent_ids, availability, call>>
             ELSE /\ occupy(g, loc)
                  /\ call' = IF Len(call.want) = 1 THEN Idle
                             ELSE [call EXCEPT !.want = Tail(@)]

\* Mutant: an emptied parent stays bound.
Unbinds_Never(p) == FALSE
\* Releasing one more block empties parent p.
Unbinds(p) == occupied_count[p] = 1

\* The last reference to the block at (p, slot) is dropped.
Release(p, slot) ==
    LET g == bound_group[p]
        b == BucketOf(g, slot)
        n == occupied_count[p]
        ff == first_free_slots[p]
        ffNew == IF slot < ff[b] THEN [ff EXCEPT ![b] = slot] ELSE ff
        index == removeAvailability(parents_by_bucket[g], g, p, ff, n)
        holes == [free_slots_by_bucket[g] EXCEPT ![b] = @ + 1]
        unbinds == Unbinds(p)
    IN  /\ call = Idle
        /\ slot \in occupancy[p]
        /\ bound_group' = [bound_group EXCEPT ![p] = IF unbinds THEN NoGroup ELSE @]
        /\ occupancy' = [occupancy EXCEPT ![p] = IF unbinds THEN {} ELSE @ \ {slot}]
        /\ occupied_count' = [occupied_count EXCEPT ![p] = n - 1]
        /\ first_free_slots' = [first_free_slots EXCEPT ![p] = IF unbinds THEN <<>> ELSE ffNew]
        /\ free_parent_ids' = IF unbinds THEN Append(free_parent_ids, p) ELSE free_parent_ids
        /\ free_slots_by_bucket' =
              [free_slots_by_bucket EXCEPT ![g] =
                  IF unbinds THEN [c \in Buckets(g) |-> holes[c] - PerBucket(g)] ELSE holes]
        /\ parents_by_bucket' =
              [parents_by_bucket EXCEPT ![g] =
                  IF unbinds THEN index ELSE addAvailability(index, g, p, ffNew, n - 1)]
        /\ failed' = failed
              \cup Check("partial parent indexed",
                         ListedEverywhere(parents_by_bucket[g], g, p, ff, n))
              \cup Check("holes on unbind",
                         unbinds => \A c \in Buckets(g) : holes[c] >= PerBucket(g))
              \cup Check("free queue overflow", unbinds => Len(free_parent_ids) < NumLcmBlocks)
              \cup Check("parent not yet indexed",
                         ~unbinds => ListedNowhere(index, g, p, ffNew, n - 1))
        /\ UNCHANGED call

Init ==
    /\ bound_group = [p \in Parents |-> NoGroup]
    /\ occupancy = [p \in Parents |-> {}]
    /\ occupied_count = [p \in Parents |-> 0]
    /\ first_free_slots = [p \in Parents |-> <<>>]
    /\ free_parent_ids = [i \in 1 .. NumLcmBlocks |-> i]
    /\ free_slots_by_bucket = [g \in Groups |-> [b \in Buckets(g) |-> 0]]
    /\ parents_by_bucket = [g \in Groups |-> [b \in Buckets(g) |-> {}]]
    /\ call = Idle
    /\ failed = {}

Next ==
    /\ failed = {}
    /\ \/ \E g \in Groups, num \in 1 .. MaxBlocks :
            \/ \E balanced \in BOOLEAN, loads \in [Buckets(g) -> 0 .. MaxLoad] :
                  AcquireBlocks(g, num, balanced, loads)
            \/ AcquireUpToBlocks(g, num)
       \/ \E g \in Groups, n \in 1 .. MaxBlocks :
            \E want \in [1 .. n -> Buckets(g)] : AcquireBlocksInBuckets(g, want)
       \/ PlaceAny
       \/ PlaceInBucket
       \/ \E p \in Parents : \E slot \in occupancy[p] : Release(p, slot)

Spec == Init /\ [][Next]_vars

(***************************************************************************)
(* Properties.                                                             *)
(***************************************************************************)
AnyCall ==
    UNION {[kind : {"any"}, group : {g}, num : 1 .. MaxBlocks, balanced : BOOLEAN,
            loads : [Buckets(g) -> 0 .. MaxLoad + MaxBlocks]] : g \in Groups}
BucketCall ==
    UNION {[kind : {"buckets"}, group : {g},
            want : UNION {[1 .. n -> Buckets(g)] : n \in 1 .. MaxBlocks}] : g \in Groups}

\* The state of block_pool.h's members has its declared shape.
TypeOK ==
    /\ bound_group \in [Parents -> Groups \cup {NoGroup}]
    /\ occupied_count \in [Parents -> Nat]
    /\ \A p \in Parents :
         LET g == bound_group[p]
         IN  /\ occupancy[p] \subseteq (IF g = NoGroup THEN {} ELSE Slots(g))
             /\ first_free_slots[p] \in
                   (IF g = NoGroup THEN {<<>>} ELSE [Buckets(g) -> 0 .. Packing[g]])
    /\ free_parent_ids \in Seq(Parents)
    /\ DOMAIN free_slots_by_bucket = Groups /\ DOMAIN parents_by_bucket = Groups
    /\ \A g \in Groups :
         /\ free_slots_by_bucket[g] \in [Buckets(g) -> Nat]
         /\ parents_by_bucket[g] \in [Buckets(g) -> SUBSET (Int \X Parents)]
    /\ call \in {Idle} \cup AnyCall \cup BucketCall

BoundTo(g) == {p \in Parents : bound_group[p] = g}
FreeIn(g, p, b) == {s \in Slots(g) : BucketOf(g, s) = b /\ s \notin occupancy[p]}

\* Every parent is either bound to a group with at least one occupied slot, or
\* empty and in the FIFO exactly once: occupy and Release keep the queue and
\* the bindings two halves of one partition, so no parent is lost or handed to
\* two groups.
EmptyParentsQueuedOnce ==
    /\ \A p \in Parents : (bound_group[p] = NoGroup) <=> (occupancy[p] = {})
    /\ \A p \in Parents :
         (bound_group[p] = NoGroup) <=> \E i \in DOMAIN free_parent_ids : free_parent_ids[i] = p
    /\ \A i, j \in DOMAIN free_parent_ids : free_parent_ids[i] = free_parent_ids[j] => i = j

\* The counters, lowest-free slots and bucket indices that placement reads say
\* exactly what the occupancy bits say, after any history of acquires and
\* releases that bind, fill, drain and rebind parents.
CachesMatchOccupancy ==
    /\ \A p \in Parents : occupied_count[p] = Cardinality(occupancy[p])
    /\ \A g \in Groups : \A b \in Buckets(g) :
         /\ \A p \in BoundTo(g) :
              first_free_slots[p][b] = Min(FreeIn(g, p, b) \cup {Packing[g]})
         /\ parents_by_bucket[g][b] =
              {<<-Cardinality(occupancy[p]), p>> : p \in {q \in BoundTo(g) : FreeIn(g, q, b) # {}}}
         /\ free_slots_by_bucket[g][b] =
              MapThenSumSet(LAMBDA p : Cardinality(FreeIn(g, p, b)), BoundTo(g))

\* No FatalCheck of block_pool.h fires: in particular the capacity check an
\* acquire makes once up front ("prechecked block capacity") covers every
\* placement of its loop, and neither index update finds a stale entry.
NoFatalCheck == failed = {}

\* Any placement of the unbalanced order packs densely: it opens an empty
\* parent only when no bound parent of the group has a hole, and otherwise no
\* bound parent with a hole is fuller than the one it fills.
PacksDensely ==
    [][ call.kind = "any" /\ failed' = {} =>
          LET g == call.group
              WithHole == {p \in BoundTo(g) : occupancy[p] # Slots(g)}
          IN  \A p \in Parents : occupancy'[p] # occupancy[p] =>
                IF WithHole = {} THEN bound_group[p] = NoGroup
                ELSE /\ p \in WithHole
                     /\ call.balanced \/ \A q \in WithHole :
                          Cardinality(occupancy[q]) <= Cardinality(occupancy[p]) ]_vars

\* AcquireBlocksInBuckets rebuilds a recorded table shape: each block of the
\* loop lands in the bucket named for it, in a slot that was free, whichever
\* parents the loop itself opened for the earlier ones.
LandsInItsBucket ==
    [][ call.kind = "buckets" /\ failed' = {} =>
          \E p \in Parents : \E s \in Slots(call.group) :
             /\ BucketOf(call.group, s) = Head(call.want)
             /\ s \notin occupancy[p]
             /\ occupancy' = [occupancy EXCEPT ![p] = @ \cup {s}] ]_vars

\* The one formula that the exact acquire, the snapshot probe and the admission
\* planner share (ParentsNeededForBuckets) is exact on the holes the pool really
\* has between two calls: opening the parents it asks for makes room for the
\* demand, by bucket and dense together, and opening one fewer does not.
CapacityFormulaExact ==
    call = Idle =>
        \A g \in Groups :
            \A need \in [Buckets(g) -> 0 .. MaxBlocks], dense_need \in 0 .. MaxBlocks :
                LET holes == free_slots_by_bucket[g]
                    k == ParentsNeededForBuckets(need, holes, dense_need, Packing[g])
                IN  /\ Holds(need, holes, dense_need, Packing[g], k)
                    /\ k > 0 => ~Holds(need, holes, dense_need, Packing[g], k - 1)
=============================================================================
