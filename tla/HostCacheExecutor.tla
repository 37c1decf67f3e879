------------------------- MODULE HostCacheExecutor -------------------------
(***************************************************************************)
(* One rank's execution of scheduler plans around its host cache:          *)
(* DeviceHandle.execute and HostCacheExecutor, with the four device        *)
(* streams they enqueue on.  The forward thread enqueues (it blocks only   *)
(* where the code synchronizes), the streams retire their work in FIFO     *)
(* order and in any interleaving with each other, and the control thread   *)
(* polls completions.  An event is a position of a stream: it has          *)
(* completed once that many of the stream's items have retired, and a wait *)
(* keeps the position it was enqueued with whatever is recorded later.     *)
(*                                                                         *)
(* The scheduler is an environment: it emits any plan that keeps the page  *)
(* rules Scheduler and TierTransferManager enforce (Legal).                *)
(***************************************************************************)
EXTENDS Integers, FiniteSets, SequencesExt

CONSTANTS
    Pages,          \* device cache pages
    Slots,          \* request-pool slots: imaged with a victim, never zeroed
    L2Blocks,       \* host blocks of the L2 prefix tier
    PoolBlocks,     \* host blocks of the retraction snapshot pool
    NumLayers,      \* layers a load is fenced by
    EventSets,      \* sequence of the names of the layerwise event sets
    MaxPlans,       \* bound: plans the forward thread executes, for a transport
                    \* that signals layers by flags (TRUE) or by events (FALSE)
    MaxPlanOps,     \* bound: operations of one plan
    MaxOps,         \* bound: operations of all plans together
    BringsOvertake, \* whether a plan that orders nothing may bring a row in under
                    \* the forward of its aborted owner
    Unknown         \* no place, no content

Rows == Pages \cup Slots
Blocks == L2Blocks \cup PoolBlocks
Places == Rows \cup Blocks
Layers == 1 .. NumLayers
Streams == {"exec", "default", "write", "load"}
SetNames == {EventSets[i] : i \in DOMAIN EventSets}

\* The submission kinds, each with a staging lane of its own.
Lanes == {"ordered", "pinned", "snapshot", "restore_l2", "restore_pool"}
Tables == Lanes \cup SetNames

\* A content is one value per layer: 0 is zeroed, k what plan k's forward
\* wrote, Stored what storage filled the host tier with before.
Stored == 1 + Max({MaxPlans[t] : t \in DOMAIN MaxPlans})
Images == [Layers -> 0 .. Stored]
Wrote(k) == [l \in Layers |-> k]

\* An operation of a plan.  `copy' and `fresh' (a page granted empty) are the
\* device's alone; the others are the scheduler's tickets.  Foreign ones name
\* no place: every block they move is owned by another KVP rank.
PlanOp(kinds, srcs, dsts) == [kind : kinds, src : srcs, dst : dsts]
StoreKinds == {"ordered", "pinned", "snapshot"}
Tickets == StoreKinds \cup {"load", "restore"}
PlanOps ==
    UNION {PlanOp({"ordered", "pinned"}, Pages, L2Blocks),
           PlanOp({"snapshot"}, Rows, PoolBlocks),
           PlanOp({"load"}, L2Blocks, Pages),
           PlanOp({"restore"}, L2Blocks, Pages), PlanOp({"restore"}, PoolBlocks, Rows),
           PlanOp({"pinned", "load"}, {Unknown}, {Unknown}),
           PlanOp({"copy"}, Pages, Pages),
           PlanOp({"fresh"}, {Unknown}, Rows)}

\* At most one operation of a kind, none into the place of another, no source
\* stored twice, no copy onto itself.
WellFormed(ops) ==
    /\ \A a, b \in ops : a.kind = b.kind \/ (a.dst = b.dst /\ a.dst # Unknown) => a = b
    /\ \A a, b \in ops : {a.kind, b.kind} \subseteq StoreKinds /\ a.src = b.src /\ a.src # Unknown
                            => a = b
    /\ \A o \in ops : o.kind = "copy" => o.src # o.dst
Plans == {ops \in {{}} \cup {{pick[i] : i \in 1 .. MaxPlanOps} : pick \in [1 .. MaxPlanOps -> PlanOps]}
              : WellFormed(ops)}

Kind(ops, kinds) == {o \in ops : o.kind \in kinds}
Pairs(ops) == {<<o.src, o.dst>> : o \in {x \in ops : x.dst # Unknown}}
Dsts(ops) == {o.dst : o \in ops} \ {Unknown}
Srcs(ops) == {o.src : o \in ops} \ {Unknown}

VARIABLES
    queue,          \* stream -> items enqueued and not retired
    retired,        \* stream -> items retired so far
    mem,            \* contents of the rows and of the blocks
    staged,         \* table -> (src, dst) pairs in its pinned staging
    uploaded,       \* table -> the pairs its device copy holds
    metadata_done,  \* lane -> event of its last metadata upload
    tracker,        \* the layerwise load tracker
    flags,          \* event set -> layer -> ready flag
    completions,    \* pending (event, operations) entries
    ready_load_acks,\* loads with nothing to copy
    plan, pc,       \* the plan under execution and the call it is at
    sched,          \* the scheduler's view of rows, blocks and tickets
    want,           \* ghost: the contents if every plan ran alone, in order
    misread         \* ghost: an item found other contents than it should

vars == <<queue, retired, mem, staged, uploaded, metadata_done, tracker, flags,
          completions, ready_load_acks, plan, pc, sched, want, misread>>

----------------------------------------------------------------------------
(* Streams and events *)

Position(s) == retired[s] + Len(queue[s])
Event(s, n) == [on |-> s, upto |-> n]
Recorded(s) == Event(s, Position(s))
Completed(e) == retired[e.on] >= e.upto

Wait(e) == <<[op |-> "wait", event |-> e]>>

----------------------------------------------------------------------------
(* The scheduler: what a plan may name *)

InFlight(kinds) == Kind(sched.inflight, kinds)

\* Sources pinned until the ACK and destinations still being filled.
HeldRows == Srcs(InFlight({"pinned"})) \cup Dsts(InFlight({"load", "restore"}))
\* Rows of the forwards that have not landed.
InForward == UNION {f.rows : f \in {x \in sched.forwards : ~Completed(x.event)}}
HeldBlocks == Dsts(InFlight(StoreKinds)) \cup Srcs(InFlight({"load", "restore"}))

\* The plan has a page to zero, a block to copy or an image to fence: each puts
\* the default stream, and the loads behind it, after the forwards in flight.
OrdersBrings(ops) ==
    \/ Kind(ops, {"copy", "ordered", "snapshot"}) # {}
    \/ Dsts(Kind(ops, {"fresh"})) \cap Pages # {}

\* Stores read owned rows into blocks nobody uses; loads and restores read
\* published blocks; a victim has no forward in flight; a row may be granted
\* again by the plan that images it, frees it or copies it away, but not while
\* a ticket holds it.  A row that a forward in flight has may be granted too: its
\* owner's logits had NaNs, the one abort that frees a request's pages under a
\* forward.  Any operation may take such a row.  A load or a restore whose plan
\* orders it behind no forward does so where BringsOvertake says so.
Legal(ops) ==
    LET stores == Kind(ops, StoreKinds)
        brings == Kind(ops, {"load", "restore"})
        copies == Kind(ops, {"copy"})
        grants == Kind(ops, {"load", "restore", "copy", "fresh"})
    IN  /\ Srcs(brings) \subseteq sched.known
        /\ Srcs(stores) \subseteq sched.owned \ HeldRows
        /\ Srcs(copies) \subseteq sched.owned \ Dsts(InFlight({"restore"}))
        /\ Dsts(grants) \cap (HeldRows \cup Srcs(Kind(ops, {"pinned"}))) = {}
        /\ Dsts(stores) \cap (HeldBlocks \cup Srcs(brings)) = {}
        /\ Srcs(Kind(ops, {"ordered", "snapshot"})) \cap InForward = {}
        /\ \/ BringsOvertake \/ OrdersBrings(ops)
           \/ Dsts(brings) \cap InForward = {}

\* A prefix hit's load, a copied block and a granted page ride with the forward
\* that needs them; a decode forward replays a captured graph.
Forwards(ops, owned) ==
    CASE Kind(ops, {"load"}) # {} -> {"eager"}
      [] Kind(ops, {"fresh", "copy"}) # {} -> {"eager", "graph"}
      [] owned = {} -> {"none"}
      [] OTHER -> {"none", "eager", "graph"}

\* What the plan leaves in each place when nothing else runs.
After(ops, round, x) ==
    LET into == {o \in ops : o.dst = x}
    IN  IF into = {} THEN want[x]
        ELSE LET o == CHOOSE o \in into : TRUE
             IN  IF o.kind = "fresh" THEN Wrote(round) ELSE want[o.src]

NextPlan ==
    /\ pc = "idle"
    /\ sched.round < MaxPlans[tracker.layer_ready]
    /\ \E ops \in Plans :
        LET round == sched.round + 1
            gone == Srcs(Kind(ops, {"ordered", "snapshot"}))
            granted == Dsts(Kind(ops, {"load", "restore", "copy", "fresh"}))
            owned == (sched.owned \ gone) \cup granted
            tickets == {[kind |-> o.kind, plan |-> round, src |-> o.src, dst |-> o.dst,
                         image |-> IF o.src = Unknown THEN Unknown ELSE want[o.src]]
                        : o \in Kind(ops, Tickets)}
        IN  /\ sched.ops + Cardinality(ops) <= MaxOps
            /\ Legal(ops)
            /\ \E forward \in Forwards(ops, owned) :
                  /\ ops # {} \/ forward # "none"
                  /\ plan' = [ops |-> ops, forward |-> forward, before |-> want]
            /\ sched' = [round |-> round, ops |-> sched.ops + Cardinality(ops), owned |-> owned,
                         forwards |-> {f \in sched.forwards : ~Completed(f.event)},
                         known |-> sched.known \ (gone \cup Dsts(ops)),
                         inflight |-> sched.inflight \cup tickets]
            /\ want' = [x \in Places |-> After(ops, round, x)]
    /\ pc' = IF Kind(plan'.ops, Tickets) # {} THEN "stores" ELSE "zero"
    /\ UNCHANGED <<queue, retired, mem, staged, uploaded, metadata_done, tracker, flags,
                   completions, ready_load_acks, misread>>

PlanKind(kinds) == Kind(plan.ops, kinds)
Ticket(kind) == {o \in sched.inflight : o.plan = sched.round /\ o.kind = kind}
NoPlan == [ops |-> {}, forward |-> "none", before |-> <<>>]

----------------------------------------------------------------------------
(* The forward thread: DeviceHandle.execute, one action per call it makes *)

\* Mutant: the fence event of a snapshot is never pushed as its completion.
LaunchedUnlessFenced(e, kind) ==
    [event |-> e, ops |-> IF kind = "snapshot" THEN {} ELSE Ticket(kind)]
Launched(e, kind) == [event |-> e, ops |-> Ticket(kind)]

\* Every launch carries what its destinations should hold once it ran.
Expect(ops) == [x \in Dsts(ops) |-> plan.before[(CHOOSE o \in ops : o.dst = x).src]]
Transfer(table, layers, signal, ops) ==
    [op |-> "transfer", table |-> table, layers |-> layers, signal |-> signal,
     expect |-> Expect(ops)]
Direct(ops) == IF ops = {} THEN <<>>
               ELSE <<[op |-> "move", pairs |-> Pairs(ops), expect |-> Expect(ops)]>>

\* Mutant: the staging table is rewritten without waiting for its last upload.
StagesAtOnce(lane, ops) == TRUE

\* HostTransferLane: the pairs are staged in the lane's pinned table, which its
\* last upload must have left, then uploaded and consumed on the stream.
CanStage(lane, ops) == Pairs(ops) # {} => Completed(metadata_done[lane])
Stage(lane, ops) ==
    IF Pairs(ops) = {} THEN <<>>
    ELSE <<[op |-> "upload", table |-> lane], Transfer(lane, Layers, FALSE, ops)>>
Staged(tables) ==
    staged' = [t \in Tables |-> IF t \in DOMAIN tables /\ tables[t] # {}
                                THEN tables[t] ELSE staged[t]]

\* The three store legs, each behind the forwards that wrote its sources.
OnPages(ops) == {o \in ops : o.src \in Pages \/ o.dst \in Pages}
OnSlots(ops) == ops \ OnPages(ops)
Leg(lane, ops) ==
    IF ops = {} THEN <<>>
    ELSE Wait(Recorded("exec")) \o Stage(lane, OnPages(ops))
         \o Direct(OnSlots(ops) \ {o \in ops : o.dst = Unknown})

\* Mutant: the zeroing does not wait for the images of the victims' pages.
Unfenced(n) == <<>>

\* One fence covers the ordered write-backs and the snapshot rows behind them.
StoreFence(n) == IF n = 0 THEN <<>> ELSE Wait(Event("write", Position("write") + n))

\* Mutant: the event is recorded behind work that is not on the stream.
StageEventAhead(lane, ops, s, before) ==
    IF Pairs(OnPages(ops)) = {} THEN metadata_done[lane]
    ELSE Event(s, Position(s) + before + 5)
StageEvent(lane, ops, s, before) ==
    IF Pairs(OnPages(ops)) = {} THEN metadata_done[lane]
    ELSE Event(s, Position(s) + before + 2)

SubmitWriteBacks ==
    LET ordered == PlanKind({"ordered"})
        snapshot == PlanKind({"snapshot"})
        pinned == PlanKind({"pinned"})
        n1 == Len(Leg("ordered", ordered))
        n2 == n1 + Len(Leg("snapshot", snapshot))
        n3 == n2 + Len(Leg("pinned", pinned))
        At(n) == Event("write", Position("write") + n)
    IN  /\ pc = "stores"
        /\ CanStage("ordered", ordered)
        /\ CanStage("snapshot", OnPages(snapshot))
        /\ CanStage("pinned", pinned)
        /\ queue' = [queue EXCEPT
             !["write"] = @ \o Leg("ordered", ordered) \o Leg("snapshot", snapshot)
                            \o Leg("pinned", pinned),
             !["default"] = @ \o StoreFence(n2)]
        /\ Staged([ordered |-> Pairs(ordered), snapshot |-> Pairs(OnPages(snapshot)),
                   pinned |-> Pairs(pinned)])
        /\ metadata_done' = [metadata_done EXCEPT
             !["ordered"] = StageEvent("ordered", ordered, "write", 0),
             !["snapshot"] = StageEvent("snapshot", snapshot, "write", n1),
             !["pinned"] = StageEvent("pinned", pinned, "write", n2)]
        /\ completions' = completions
             \cup {Launched(At(n1), "ordered") : o \in ordered}
             \cup {Launched(At(n2), "snapshot") : o \in snapshot}
             \cup {Launched(At(n3), "pinned") : o \in pinned}
        /\ pc' = "zero"
        /\ UNCHANGED <<retired, mem, uploaded, tracker, flags, ready_load_acks, plan,
                       sched, want, misread>>

\* A leg raises after the ordered rows went out: the fence still follows them,
\* nothing acknowledges the snapshot, and the round ends the rank.
WriteBackRaises ==
    LET ordered == PlanKind({"ordered"})
        legs == Leg("ordered", ordered) \o Wait(Recorded("exec"))
    IN  /\ pc = "stores"
        /\ PlanKind({"snapshot"}) # {}
        /\ CanStage("ordered", ordered)
        /\ queue' = [queue EXCEPT !["write"] = @ \o legs,
                                  !["default"] = @ \o StoreFence(Len(legs))]
        /\ Staged([ordered |-> Pairs(ordered)])
        /\ metadata_done' = [metadata_done EXCEPT
             !["ordered"] = StageEvent("ordered", ordered, "write", 0)]
        /\ completions' = completions
             \cup {Launched(Event("write", Position("write") + Len(Leg("ordered", ordered))),
                            "ordered") : o \in ordered}
        /\ pc' = "dead" /\ plan' = NoPlan
        /\ UNCHANGED <<retired, mem, uploaded, tracker, flags, ready_load_acks,
                       sched, want, misread>>

\* copy_cache_pages, then zero_cache_pages, on the default stream behind the
\* forwards in flight.
ZeroedPages == Dsts(PlanKind({"fresh"})) \cap Pages
CopyAndZero ==
    LET copies == PlanKind({"copy"})
        behind == Wait(Recorded("exec"))
    IN  /\ pc = "zero"
        /\ queue' = [queue EXCEPT !["default"] = @
             \o (IF copies = {} THEN <<>> ELSE behind \o Direct(copies))
             \o (IF ZeroedPages = {} THEN <<>>
                 ELSE behind \o <<[op |-> "zero", rows |-> ZeroedPages]>>)]
        /\ pc' = IF PlanKind(Tickets) # {} THEN "loads" ELSE "forward"
        /\ UNCHANGED <<retired, mem, staged, uploaded, metadata_done, tracker, flags,
                       completions, ready_load_acks, plan, sched, want, misread>>

\* LayerwiseLoadTracker.begin_load: the next event set, once the load that last
\* used it has retired.
NextSet == EventSets[(tracker.current % Len(EventSets)) + 1]
BeginLoad == Completed(tracker.layer_done[NextSet][NumLayers])

\* _start_loading: behind the zeroing, the block table, the flags' reset, then
\* one copy per layer that raises the layer's flag or records its event.
LoadHead(set) ==
    Wait(Recorded("default")) \o <<[op |-> "upload", table |-> set]>>
    \o (IF tracker.layer_ready THEN <<[op |-> "flags", table |-> set, value |-> 0]>> ELSE <<>>)
LoadItems(set, loads) ==
    LoadHead(set) \o [l \in Layers |-> Transfer(set, {l}, tracker.layer_ready, loads)]

\* The tracker after a load whose items end at the given positions.
Tracked(set, finish, layer_end) ==
    [layer_ready |-> tracker.layer_ready,
     current |-> (tracker.current % Len(EventSets)) + 1,
     consumer |-> set,
     layer_done |-> [tracker.layer_done EXCEPT ![set] =
                       [l \in Layers |-> IF tracker.layer_ready THEN finish ELSE layer_end[l]]],
     init |-> [tracker.init EXCEPT ![set] =
                 IF tracker.layer_ready THEN Event("load", Position("load") + 3) ELSE @]]

\* _start_restore: the L2 rows, the pool rows and the slot import, one event.
RestoreItems(fromL2, fromPool) ==
    IF fromL2 \cup fromPool = {} THEN <<>>
    ELSE Wait(Recorded("default")) \o Stage("restore_l2", fromL2)
         \o Stage("restore_pool", OnPages(fromPool)) \o Direct(OnSlots(fromPool))

SubmitLoadBacks ==
    LET loads == PlanKind({"load"})
        restores == PlanKind({"restore"})
        fromL2 == {o \in restores : o.src \in L2Blocks}
        fromPool == restores \ fromL2
        set == NextSet
        copying == Pairs(loads) # {}
        items == IF copying THEN LoadItems(set, loads) ELSE <<>>
        n == Len(items)
        At(k) == Event("load", Position("load") + k)
        all == items \o RestoreItems(fromL2, fromPool)
    IN  /\ pc = "loads"
        /\ copying => BeginLoad
        /\ CanStage("restore_l2", fromL2) /\ CanStage("restore_pool", OnPages(fromPool))
        /\ queue' = [queue EXCEPT !["load"] = @ \o all]
        /\ staged' = [t \in Tables |->
             CASE t = set /\ copying -> Pairs(loads)
               [] t = "restore_l2" /\ fromL2 # {} -> Pairs(fromL2)
               [] t = "restore_pool" /\ OnPages(fromPool) # {} -> Pairs(fromPool)
               [] OTHER -> staged[t]]
        /\ metadata_done' = [metadata_done EXCEPT
             !["restore_l2"] = StageEvent("restore_l2", fromL2, "load", n),
             !["restore_pool"] = StageEvent("restore_pool", fromPool, "load", n)]
        /\ tracker' = IF copying
                      THEN Tracked(set, At(n), [l \in Layers |-> At(n - NumLayers + l)])
                      ELSE [tracker EXCEPT !.consumer = Unknown]
        /\ ready_load_acks' = IF copying THEN ready_load_acks
                              ELSE ready_load_acks \cup Ticket("load")
        /\ completions' = completions
             \cup {Launched(At(n), "load") : o \in {x \in loads : copying}}
             \cup {Launched(At(Len(all)), "restore") : o \in restores}
        /\ pc' = "forward"
        /\ UNCHANGED <<retired, mem, uploaded, flags, plan, sched, want, misread>>

\* _retire_failed_load: the load raised after its event set was taken.  Its
\* flags are raised and its events completed, so that nobody waits on it, and
\* nothing acknowledges it; the round ends the rank.
LoadRaises ==
    LET set == NextSet
        items == LoadHead(set)
                 \o (IF tracker.layer_ready THEN <<[op |-> "flags", table |-> set, value |-> 1]>> ELSE <<>>)
        retirement == Event("load", Position("load") + Len(items))
    IN  /\ pc = "loads"
        /\ Pairs(PlanKind({"load"})) # {}
        /\ BeginLoad
        /\ queue' = [queue EXCEPT !["load"] = @ \o items]
        /\ staged' = [staged EXCEPT ![set] = Pairs(PlanKind({"load"}))]
        /\ tracker' = [Tracked(set, retirement, [l \in Layers |-> retirement]) EXCEPT
                         !.consumer = tracker.consumer]
        /\ pc' = "dead" /\ plan' = NoPlan
        /\ UNCHANGED <<retired, mem, uploaded, metadata_done, flags, completions,
                       ready_load_acks, sched, want, misread>>

\* wait_for_layer, which a graph replay does not run: the flags of a reused
\* set are stale until its reset has retired.
WaitForLayer(l) ==
    IF plan.forward # "eager" \/ tracker.consumer = Unknown THEN <<>>
    ELSE IF tracker.layer_ready
         THEN Wait(tracker.init[tracker.consumer])
              \o <<[op |-> "spin", table |-> tracker.consumer, layer |-> l]>>
         ELSE Wait(tracker.layer_done[tracker.consumer][l])

\* execute_forward_op: every layer reads the rows of its batch and writes the
\* rows granted to it; a restored row is in no batch before its ACK.
Batch == sched.owned \ Dsts(InFlight({"restore"}))
LayerItem(l) ==
    LET fresh == Dsts(PlanKind({"fresh"}))
    IN  [op |-> "layer", layer |-> l, writes |-> fresh, value |-> sched.round,
         expect |-> [r \in Batch \ (fresh \cap Slots) |->
                       IF r \in fresh THEN 0 ELSE want[r][l]]]

LaunchForward ==
    LET items == Wait(Recorded("default"))
                 \o FlattenSeq([l \in Layers |-> WaitForLayer(l) \o <<LayerItem(l)>>])
        landed == Event("exec", Position("exec") + Len(items))
    IN  /\ pc = "forward"
        /\ IF plan.forward = "none" THEN UNCHANGED <<queue, sched>>
           ELSE /\ queue' = [queue EXCEPT !["exec"] = @ \o items]
                /\ sched' = [sched EXCEPT !.forwards =
                               @ \cup {[event |-> landed, rows |-> Batch]}]
        /\ pc' = "idle" /\ plan' = NoPlan
        /\ UNCHANGED <<retired, mem, staged, uploaded, metadata_done, tracker, flags,
                       completions, ready_load_acks, want, misread>>

----------------------------------------------------------------------------
(* The device: each stream retires its head *)

\* The stream's head is an item of the given kind, and retires.
Retires(s, op) ==
    /\ queue[s] # <<>>
    /\ Head(queue[s]).op = op
    /\ queue' = [queue EXCEPT ![s] = Tail(@)]
    /\ retired' = [retired EXCEPT ![s] = @ + 1]
    /\ UNCHANGED <<staged, metadata_done, tracker, completions, ready_load_acks,
                   plan, pc, sched, want>>

\* The contents once the pairs moved the given layers, and whether every
\* destination holds what its launch meant it to.
Moved(pairs, layers) ==
    [x \in Places |-> [l \in Layers |->
        IF l \in layers /\ \E pair \in pairs : pair[2] = x
        THEN mem[(CHOOSE pair \in pairs : pair[2] = x)[1]][l] ELSE mem[x][l]]]
AsMeant(expect, layers) ==
    \A x \in DOMAIN expect, l \in layers : mem'[x][l] = expect[x][l]

PassWait(s) ==
    /\ Retires(s, "wait")
    /\ Completed(Head(queue[s]).event)
    /\ UNCHANGED <<mem, uploaded, flags, misread>>

Upload(s) ==
    /\ Retires(s, "upload")
    /\ uploaded' = [uploaded EXCEPT ![Head(queue[s]).table] = staged[Head(queue[s]).table]]
    /\ UNCHANGED <<mem, flags, misread>>

\* transfer_cache_blocks: copy the pairs of the table, raise the layer's flag.
RunTransfer(s) ==
    LET item == Head(queue[s])
    IN  /\ Retires(s, "transfer")
        /\ mem' = Moved(uploaded[item.table], item.layers)
        /\ misread' = (misread \/ ~AsMeant(item.expect, item.layers))
        /\ flags' = IF item.signal
                    THEN [flags EXCEPT ![item.table] =
                            [l \in Layers |-> IF l \in item.layers THEN 1 ELSE @[l]]]
                    ELSE flags
        /\ UNCHANGED uploaded

\* A block copy, or the export or import of a slot's state.
Move(s) ==
    LET item == Head(queue[s])
    IN  /\ Retires(s, "move")
        /\ mem' = Moved(item.pairs, Layers)
        /\ misread' = (misread \/ ~AsMeant(item.expect, Layers))
        /\ UNCHANGED <<uploaded, flags>>

Zero(s) ==
    /\ Retires(s, "zero")
    /\ mem' = [x \in Places |-> IF x \in Head(queue[s]).rows THEN Wrote(0) ELSE mem[x]]
    /\ UNCHANGED <<uploaded, flags, misread>>

SetFlags(s) ==
    /\ Retires(s, "flags")
    /\ flags' = [flags EXCEPT ![Head(queue[s]).table] = Wrote(Head(queue[s]).value)]
    /\ UNCHANGED <<mem, uploaded, misread>>

Spin(s) ==
    /\ Retires(s, "spin")
    /\ flags[Head(queue[s]).table][Head(queue[s]).layer] = 1
    /\ UNCHANGED <<mem, uploaded, flags, misread>>

RunLayer(s) ==
    LET item == Head(queue[s])
    IN  /\ Retires(s, "layer")
        /\ misread' = (misread \/ \E r \in DOMAIN item.expect :
                                     mem[r][item.layer] # item.expect[r])
        /\ mem' = [x \in Places |-> IF x \in item.writes
                                    THEN [mem[x] EXCEPT ![item.layer] = item.value]
                                    ELSE mem[x]]
        /\ UNCHANGED <<uploaded, flags>>

Run(s) ==
    \/ PassWait(s) \/ Upload(s) \/ RunTransfer(s) \/ Move(s) \/ Zero(s)
    \/ SetFlags(s) \/ Spin(s) \/ RunLayer(s)

----------------------------------------------------------------------------
(* The control thread *)

\* poll_results, and what the scheduler makes of the ACKs.
Ready == {c \in completions : Completed(c.event)}
Poll ==
    LET acked == ready_load_acks \cup UNION {c.ops : c \in Ready}
    IN  /\ acked # {}
        /\ ready_load_acks' = {}
        /\ completions' = completions \ Ready
        /\ sched' = [sched EXCEPT !.inflight = @ \ acked,
                                  !.known = @ \cup Dsts(acked)]
        /\ UNCHANGED <<queue, retired, mem, staged, uploaded, metadata_done, tracker,
                       flags, plan, pc, want, misread>>

----------------------------------------------------------------------------

Init ==
    /\ queue = [s \in Streams |-> <<>>]
    /\ retired = [s \in Streams |-> 0]
    /\ mem = [x \in Places |-> IF x \in L2Blocks THEN Wrote(Stored) ELSE Wrote(0)]
    /\ staged = [t \in Tables |-> {}]
    /\ uploaded = [t \in Tables |-> {}]
    /\ metadata_done = [lane \in Lanes |-> Event("load", 0)]
    /\ \E layer_ready \in DOMAIN MaxPlans :
          tracker = [layer_ready |-> layer_ready, current |-> 0, consumer |-> Unknown,
                     layer_done |-> [t \in SetNames |-> [l \in Layers |-> Event("load", 0)]],
                     init |-> [t \in SetNames |-> Event("load", 0)]]
    /\ flags = [t \in SetNames |-> Wrote(0)]
    /\ completions = {} /\ ready_load_acks = {}
    /\ plan = NoPlan /\ pc = "idle"
    /\ sched = [round |-> 0, ops |-> 0, owned |-> {}, known |-> L2Blocks, inflight |-> {},
                forwards |-> {}]
    /\ want = mem
    /\ misread = FALSE

Submit == SubmitWriteBacks \/ CopyAndZero \/ SubmitLoadBacks \/ LaunchForward
Raise == WriteBackRaises \/ LoadRaises

\* No plan is under way, or the rank ended, and nothing is left on the device or
\* in the completion queue: the only state the rank may rest in.
Drained ==
    /\ pc \in {"idle", "dead"}
    /\ \A s \in Streams : queue[s] = <<>>
    /\ completions = {} /\ ready_load_acks = {}
    /\ UNCHANGED vars

Next == NextPlan \/ Submit \/ Raise \/ Poll \/ (\E s \in Streams : Run(s)) \/ Drained

Spec == Init /\ [][Next]_vars

----------------------------------------------------------------------------

TypeOK ==
    /\ \A s \in Streams : retired[s] \in Nat
    /\ mem \in [Places -> Images] /\ want \in [Places -> Images]
    /\ \A t \in Tables : staged[t] \in SUBSET (Places \X Places)
    /\ \A t \in Tables : uploaded[t] \in SUBSET (Places \X Places)
    /\ flags \in [SetNames -> [Layers -> {0, 1}]]
    /\ pc \in {"idle", "stores", "zero", "loads", "forward", "dead"}
    /\ tracker.current \in 0 .. Len(EventSets)
    /\ \A e \in {metadata_done[lane] : lane \in Lanes} \cup {c.event : c \in completions} :
          e.upto <= Position(e.on)
    /\ sched.owned \subseteq Rows /\ sched.known \subseteq Places

\* Every store, block copy, load, restore and model layer finds what it would
\* find if plans ran one after another with nothing in flight: a victim's page
\* is imaged before its next owner's zeroing, a copy leaves before its source
\* is granted away, a granted page is read zeroed, and no layer reads a page
\* before its load or because a reused event set still shows the last one.
ProgramOrder == ~misread

\* The copies implement the promise made to the scheduler.
Service == INSTANCE CopyService WITH
    inflight <- sched.inflight,
    content <- [x \in Places |-> IF x \in sched.known THEN mem[x] ELSE Unknown]
ImplementsCopyService == Service!Spec

\* What submit_load_backs says of a restore: "its destinations are overwritten
\* whole", so a row that was loaded or restored and acknowledged holds its image.
\* It is false where a load or a restore takes a page that a forward still in
\* flight writes (its owner was aborted for NaNs): unless the same plan also
\* zeroes, copies or stores, no wait orders the load stream behind the execution
\* stream.
RestoredWhole == \A r \in sched.known \cap Rows : mem[r] = want[r]

\* Nothing is left on the device or in the completion queue, and the forward
\* thread is between plans.
Quiet ==
    /\ pc = "idle"
    /\ \A s \in Streams : queue[s] = <<>>
    /\ completions = {} /\ ready_load_acks = {}

\* No ticket is lost: once the rank has nothing left to do or to report, every
\* operation the scheduler emitted has been acknowledged.  With the deadlock
\* check (a rank rests only when drained), every ticket of a rank that does not
\* end is acknowledged: the forward thread never waits for a staging table, an
\* event set or a layer that only its own later calls would release.
NoTicketLost == Quiet => sched.inflight = {}
=============================================================================
