------------------------------ MODULE Scheduler ------------------------------
(***************************************************************************)
(* The scheduler (csrc/scheduler): the request states, the planning round  *)
(* that admits, decodes, retracts and restores, and the handlers of the    *)
(* events the control plane sends back.                                    *)
(*                                                                         *)
(* Resources.  A request in a page-holding state owns a row of the request *)
(* pool and the pages of its block table.  A suspended (Retracted) request *)
(* owns neither: its KV is an image, i.e. a blob slot with the snapshot    *)
(* pages stored beside it.  Copies between Device and Host run             *)
(* asynchronously and hold what they touch until acknowledged: a snapshot  *)
(* store its image, a restore its image, its destination pages and the row *)
(* it imports into, a pinned write-back its source pages.  The free lists  *)
(* are explicit, so a leak or a double grant is visible in the state.      *)
(*                                                                         *)
(* Units.  A full-history table with one token per page and, when WindowAt *)
(* is not empty, a sliding-window table beside it; one token per decode    *)
(* step (decode_input_tokens = 1); no prefix hits.  table[r] holds the     *)
(* pages of both.  Which free page, row or slot is granted is left to Pick.*)
(*                                                                         *)
(* The round.  NextExecutionPlan runs on one thread: while round.phase is  *)
(* not "idle" only the round moves, one candidate per step.                *)
(***************************************************************************)
EXTENDS Integers, Sequences, FiniteSets, Functions, RequestFsm

CONSTANTS
    Requests,            \* request ids: integers, numbered in submission order
    Pages, Rows, Slots,  \* Device pages, request-pool rows, blob slots
    SnapshotPages,       \* capacity of the snapshot pool, in pages
    None,                \* "no row", "no slot", "no request"
    Role,                \* "P", "D" or "Fused"
    Mixed,               \* enable_mixed_prefill_decode
    HasHostPool,         \* HasHostCache: there is a Host L2 tier
    OverlapDepth,        \* forwards the control plane leaves uncommitted
    MaxScheduledTokens,  \* token budget of one round
    SafeSteps,           \* kRetractionSafeSteps
    MaxRestoreAttempts,  \* kMaxRestoreAttemptsPerRound
    WindowAt,            \* token counts at which a sliding-window table takes a page
    WindowLookback,      \* sliding_window_tokens - 1
    PromptSizes,         \* input bound: prompt lengths
    Budgets,             \* input bound: max_new_tokens (0 is undeclared)
    MaxGenerated,        \* input bound: tokens generated without a budget
    AbortStates,         \* input bound: states in which an Abort may arrive
    NaNs,                \* input bound: whether a forward may report a NaN
    Pick(_, _)           \* Pick(S, n): the n elements of S an allocator grants

ASSUME SchedulerConstants ==
    /\ Requests \subseteq Nat
    /\ IsFiniteSet(Requests) /\ IsFiniteSet(Pages) /\ IsFiniteSet(Rows) /\ IsFiniteSet(Slots)
    /\ None \notin Requests \cup Rows \cup Slots
    /\ Role \in {"P", "D", "Fused"}
    /\ Mixed \in BOOLEAN /\ HasHostPool \in BOOLEAN /\ NaNs \in BOOLEAN
    /\ SnapshotPages \in Nat /\ OverlapDepth \in Nat
    /\ MaxScheduledTokens \in Nat \ {0} /\ SafeSteps \in Nat \ {0}
    /\ MaxRestoreAttempts \in Nat \ {0}
    /\ WindowAt \subseteq Nat \ {0} /\ IsFiniteSet(WindowAt) /\ WindowLookback \in Nat
    /\ PromptSizes \subseteq Nat \ {0} /\ Budgets \subseteq Nat /\ MaxGenerated \in Nat
    /\ AbortStates \subseteq States

ASSUME PickGrants ==
    \A S \in (SUBSET Pages) \cup (SUBSET Rows) \cup (SUBSET Slots) : \A n \in 0 .. Cardinality(S) :
        Pick(S, n) \subseteq S /\ Cardinality(Pick(S, n)) = n

VARIABLES
    \* Per request: Request, and the resources its state carries.
    state, prompt, max_new_tokens, generated, retraction_count, generated_at_admission,
    row, table, window, extent, results_in_flight,
    blob_slot, shape, resumes_generation, retraction_epoch, pending_store_ops,
    \* TierTransferManager, keyed by the request an op belongs to.
    snapshot_stores,    \* [Requests -> the slot a snapshot store exports into]
    snapshot_restores,  \* [Requests -> what a restore holds: slot, row and pages]
    host_stores,        \* requests whose image has an L2 leg in flight
    pinned_stores,      \* [PinnedOps -> source pages of a pinned write-back]
    \* Free lists, and the snapshot pages stored with each blob slot.
    free_rows, free_slots, free_pages, blob_pages,
    \* The round being built, and the control plane.
    round,
    in_flight,          \* dispatched batches whose results are not committed
    ended,              \* requests the control plane has ended
    failed              \* fatal checks and undefined transitions hit

request == <<state, prompt, max_new_tokens, generated, retraction_count, generated_at_admission>>
resources == <<row, table, window, extent, results_in_flight>>
images == <<blob_slot, shape, resumes_generation, retraction_epoch, pending_store_ops>>
transfers == <<snapshot_stores, snapshot_restores, host_stores, pinned_stores>>
free == <<free_rows, free_slots, free_pages, blob_pages>>
control == <<in_flight, ended>>
vars == <<request, resources, images, transfers, free, round, control, failed>>

-----------------------------------------------------------------------------
(* Helpers. *)

Max2(a, b) == IF a < b THEN b ELSE a
Min2(a, b) == IF a < b THEN a ELSE b
FirstOf(S) == {r \in S : \A q \in S : r <= q}   \* at most one element

In(s) == {r \in Requests : state[r] \in s}

StreamsDeviceCacheToHost == HasHostPool /\ Role # "D"

\* A finished request's pages are stored once; a boundary publication of live
\* requests is one op of a round, of which one at a time is in flight here.
Boundary == None
PinnedOps == Requests \cup {Boundary}

\* Op ids.  A request has at most one snapshot store and one L2 leg in flight,
\* since it is imaged again only after a restore, which waits for both.
SnapshotOp(r) == <<"snapshot", r>>
HostOp(r) == <<"host", r>>
PinnedOp(o) == <<"pinned", o>>

HasPinnedStoresInFlight == \E o \in PinnedOps : pinned_stores[o] # {}
WriteBacksInFlight == {HostOp(r) : r \in host_stores}
                        \cup {PinnedOp(o) : o \in {p \in PinnedOps : pinned_stores[p] # {}}}
RestoreInFlight(r) == snapshot_restores[r].row # None
HasAnyInFlight == \/ WriteBacksInFlight # {}
                  \/ \E r \in Requests : snapshot_stores[r] # None \/ RestoreInFlight(r)

pdTransferInFlight(r) ==
    CASE Role = "D" -> state[r] = "RemotePrefilling"
      [] Role = "P" -> state[r] \in HoldsPages \ {"Finishing"}
      [] OTHER -> FALSE

\* Budget arithmetic of Request.
TokenSize(r) == prompt[r] + generated[r]
RemainingNewTokens(r) == Max2(0, max_new_tokens[r] - generated[r])
\* Mutant: the reserve is judged against today's remainder.
RemainingNewTokensAtAdmission_Today(r) == RemainingNewTokens(r)
RemainingNewTokensAtAdmission(r) == Max2(0, max_new_tokens[r] - generated_at_admission[r])
AdmissionHeadroom(r) == Min2(RemainingNewTokens(r), SafeSteps * (1 + retraction_count[r]))
ReserveCoversGeneration(r) ==
    /\ max_new_tokens[r] > 0
    /\ SafeSteps * (1 + retraction_count[r]) >= RemainingNewTokensAtAdmission(r)

\* What an admission reserves behind the tokens it computes: the decode slot of
\* a prompt it completes and, prepaid at admission, the rest of the prompt with
\* the headroom.  A sliding-window table recycles its pages, so of the prepaid
\* tokens it takes only those of later chunks (groupReserveTokens).
DecodeTokens(completes) == IF completes THEN 1 ELSE 0
Prepaid(headroom, rest) == IF headroom > 0 THEN rest + headroom ELSE 0
FullReserve(completes, prepaid) == Max2(DecodeTokens(completes), prepaid)
WindowReserve(completes, prepaid, later) ==
    Max2(DecodeTokens(completes), Min2(prepaid, Min2(later, WindowLookback)))

\* Pages of a sliding-window table that covers n tokens, and of both tables.
WindowPages(n) == Cardinality({u \in WindowAt : u <= n})
PagesFor(n) == n + WindowPages(n)

\* What is missing to extend r's tables by n tokens and reserve k more.  Of the
\* pages in table[r] the sliding-window table has those of window[r] tokens.
Missing(r, n, k) ==
    Max2(0, extent[r] + n + k - (Cardinality(table[r]) - WindowPages(window[r])))
        + Cardinality({u \in WindowAt : window[r] < u /\ u <= extent[r] + n + k})
Fits(n) == n <= Cardinality(free_pages)

ChunkTokens(r, budget) == Min2(prompt[r] - extent[r], IF Role = "D" THEN prompt[r] ELSE budget)

\* A first chunk of t tokens.  The sliding-window prepay is made only beside
\* another page holder.
FirstChunkPrepaid(r, t) == Prepaid(IF Role = "P" THEN 0 ELSE AdmissionHeadroom(r), prompt[r] - t)
LaterChunkTokens(r, t) ==
    IF Role # "D" /\ \E q \in Requests \ {r} : state[q] \in HoldsPages THEN prompt[r] - t ELSE 0
FirstChunkWindow(r, t) ==
    t + WindowReserve(t = prompt[r], FirstChunkPrepaid(r, t), LaterChunkTokens(r, t))
FirstChunkDemand(r, t) ==
    t + FullReserve(t = prompt[r], FirstChunkPrepaid(r, t)) + WindowPages(FirstChunkWindow(r, t))

\* A later chunk reserves the decode slot only.
ChunkReserve(r, t) == DecodeTokens(extent[r] + t = prompt[r])
ChunkDemand(r, t) == Missing(r, t, ChunkReserve(r, t))

RestorePrepaid(r) ==
    Prepaid(AdmissionHeadroom(r), IF shape[r] = "Prefilling" THEN prompt[r] - extent[r] ELSE 0)
RestoreWindow(r) == extent[r] + WindowReserve(shape[r] # "Prefilling", RestorePrepaid(r), 0)
RestoreDemand(r) ==
    extent[r] + FullReserve(shape[r] # "Prefilling", RestorePrepaid(r)) + WindowPages(RestoreWindow(r))

SnapshotPagesUsed == FoldFunction(LAMBDA a, b : a + b, 0, blob_pages)
\* Mutant: the room is probed without the image.
SnapshotPoolHolds_Now(n) == SnapshotPagesUsed <= SnapshotPages
SnapshotPoolHolds(n) == SnapshotPagesUsed + n <= SnapshotPages

\* Only the order of the epochs of suspended requests is ever read, so an
\* epoch is kept as the request's position in that order.
NextRetractionEpoch == 1 + Cardinality({r \in Requests : retraction_epoch[r] > 0})
WithoutEpoch(r) ==
    [q \in Requests |->
        CASE q = r -> 0
          [] q # r /\ retraction_epoch[r] > 0 /\ retraction_epoch[q] > retraction_epoch[r] ->
                retraction_epoch[q] - 1
          [] OTHER -> retraction_epoch[q]]

\* References left after a step: what is dropped is free once nobody holds it.
HeldPages(tables, restores, pinned) ==
    (UNION {tables[r] : r \in Requests}) \cup (UNION {restores[r].pages : r \in Requests})
        \cup (UNION {pinned[o] : o \in PinnedOps})
HeldSlots(own, stores, restores) ==
    {own[r] : r \in Requests} \cup {stores[r] : r \in Requests} \cup {restores[r].slot : r \in Requests}

\* Mutants: what is dropped is free, whoever else holds it.
DropPages_Unshared(dropped) == free_pages' = free_pages \cup dropped
DropSlots_Unshared(dropped) ==
    /\ free_slots' = free_slots \cup (dropped \ {None})
    /\ blob_pages' = [s \in Slots |-> IF s \in dropped THEN 0 ELSE blob_pages[s]]

DropPages(dropped) ==
    free_pages' = free_pages \cup (dropped \ HeldPages(table', snapshot_restores', pinned_stores'))
DropSlots(dropped) ==
    LET gone == (dropped \ {None}) \ HeldSlots(blob_slot', snapshot_stores', snapshot_restores')
    IN  /\ free_slots' = free_slots \cup gone
        /\ blob_pages' = [s \in Slots |-> IF s \in gone THEN 0 ELSE blob_pages[s]]

\* The pages of r a store publishes, of the ones its forwards have filled.
CompletedPages(r) == Pick(table[r], Min2(PagesFor(extent[r]), Cardinality(table[r])))

NoRestore == [slot |-> None, row |-> None, pages |-> {}]
-----------------------------------------------------------------------------
(* Resource movements. *)

\* An admission: n fresh pages join r's tables, of which the sliding-window one
\* then covers c tokens (CacheCoordinator::Admit).
Admit(r, n, c) ==
    LET fresh == Pick(free_pages, n)
    IN  /\ table' = [table EXCEPT ![r] = @ \cup fresh]
        /\ window' = [window EXCEPT ![r] = Max2(@, c)]
        /\ free_pages' = free_pages \ fresh

\* ReqPoolAllocator::Allocate.
AllocateRow(r) ==
    \E i \in Pick(free_rows, 1) :
        /\ row' = [row EXCEPT ![r] = i]
        /\ free_rows' = free_rows \ {i}

\* Mutant: the rows do not return.
FreeRequests_LeaksRows(S) ==
    /\ row' = [r \in Requests |-> IF r \in S THEN None ELSE row[r]]
    /\ free_rows' = free_rows
    /\ table' = [r \in Requests |-> IF r \in S THEN {} ELSE table[r]]
    /\ window' = [r \in Requests |-> IF r \in S THEN 0 ELSE window[r]]
    /\ DropPages(UNION {table[r] : r \in S})

\* The requests of S leave: their rows return and their tables are freed
\* (FreeRequest, and the destructor of ReqPoolIndex).
FreeRequests(S) ==
    /\ row' = [r \in Requests |-> IF r \in S THEN None ELSE row[r]]
    /\ free_rows' = free_rows \cup ({row[r] : r \in S} \ {None})
    /\ table' = [r \in Requests |-> IF r \in S THEN {} ELSE table[r]]
    /\ window' = [r \in Requests |-> IF r \in S THEN 0 ELSE window[r]]
    /\ DropPages(UNION {table[r] : r \in S})

\* The image dies with r's state: its share of the blob slot is dropped.
DropImage(r) ==
    /\ blob_slot' = [blob_slot EXCEPT ![r] = None]
    /\ shape' = [shape EXCEPT ![r] = None]
    /\ resumes_generation' = [resumes_generation EXCEPT ![r] = FALSE]
    /\ retraction_epoch' = WithoutEpoch(r)
    /\ pending_store_ops' = [pending_store_ops EXCEPT ![r] = {}]
    /\ DropSlots({blob_slot[r]})

\* AbortEvent: every state ends in Finished.  Copies in flight keep what they
\* hold; only the request's own references drop.
AbortEvent(r) ==
    /\ UNCHANGED transfers
    /\ state' = [state EXCEPT ![r] = "Finished"]
    /\ FreeRequests({r})
    /\ extent' = [extent EXCEPT ![r] = 0]
    /\ results_in_flight' = [results_in_flight EXCEPT ![r] = 0]
    /\ DropImage(r)

-----------------------------------------------------------------------------
(* The round. *)

IdleRound == [phase |-> "idle", tried |-> {}, scheduled |-> {}, rows |-> {}, token_budget |-> 0,
              pushed_prefill |-> FALSE, pushed_decode |-> FALSE, remote |-> FALSE,
              cache_ops |-> FALSE, restored |-> FALSE, sealed |-> FALSE, aborted |-> FALSE,
              blocker |-> None, blocked |-> <<>>, stalled |-> FALSE, ran |-> FALSE]

\* build.Full: the batch has a row per request-pool slot (max_batch_size).
Full == round.token_budget <= 0 \/ Cardinality(round.rows) = Cardinality(Rows)

\* Mutant: an image is restored before its stores landed.
Landed_Suspended == In({"Retracted"})
Landed == {r \in In({"Retracted"}) : pending_store_ops[r] = {}}

\* The candidates a phase's loop visits.
PhaseCandidates ==
    CASE round.phase = "readmit" -> Landed
      [] round.phase \in {"decode", "empty_decode"} -> In({"PrefillDone", "Decoding"}) \ round.scheduled
      [] round.phase = "handoff" -> In({"PrefillDone"})
      [] round.phase = "resident" -> In({"Prefilling"}) \ round.scheduled
      [] round.phase \in {"prompts", "remote"} -> In({"Submitted"}) \ round.scheduled
      [] OTHER -> {}
Untried == PhaseCandidates \ round.tried

\* The role grammars: buildPrefillWorkerPlan, buildDecodeWorkerPlan and
\* buildFusedPlan as the order of their phases.
FirstPhase == IF Role = "P" THEN "handoff" ELSE "readmit"
AfterPrefillWork(rd) ==
    CASE Role = "P" -> "end"
      [] Role = "Fused" /\ ~Mixed /\ ~rd.pushed_prefill -> "decode"
      [] OTHER -> "retract"
AfterPhase(rd) ==
    CASE rd.phase = "readmit" -> IF Role = "D" \/ Mixed THEN "decode" ELSE "resident"
      [] rd.phase = "handoff" -> "resident"
      [] rd.phase = "resident" -> IF rd.sealed THEN AfterPrefillWork(rd) ELSE "prompts"
      [] rd.phase = "prompts" -> AfterPrefillWork(rd)
      [] rd.phase = "decode" /\ Role = "Fused" -> IF Mixed THEN "resident" ELSE "retract"
      [] rd.phase = "decode" /\ Role = "D" -> IF rd.sealed THEN "retract" ELSE "remote"
      [] rd.phase = "empty_decode" ->
            IF rd.pushed_decode \/ state[rd.blocker] \in {"Retracted", "Finished"} THEN "end" ELSE "grant"
      [] OTHER -> "retract"

LeaveFor(rd, phase) == [rd EXCEPT !.phase = phase, !.tried = {}]
Leave(rd) == LeaveFor(rd, AfterPhase(rd))
Tried(rd, r) == [rd EXCEPT !.tried = @ \cup {r}]
NoteCapacityBlocked(rd, r) ==
    [rd EXCEPT !.blocker = IF @ = None THEN r ELSE @, !.blocked = Append(@, r)]

\* pushOperation, for a prefill chunk of t tokens and for a decode.
PushPrefill(rd, r, t, kind) ==
    [rd EXCEPT !.scheduled = @ \cup {r}, !.rows = @ \cup {<<r, kind>>},
               !.token_budget = @ - t, !.pushed_prefill = TRUE]
PushDecode(rd, r) ==
    [rd EXCEPT !.scheduled = @ \cup {r}, !.rows = @ \cup {<<r, "decode">>},
               !.token_budget = IF Role = "D" THEN @ ELSE @ - 1, !.pushed_decode = TRUE]
PushRemote(rd, r) == [rd EXCEPT !.scheduled = @ \cup {r}, !.remote = TRUE]

LoopStops ==
    CASE round.phase = "readmit" -> Cardinality(round.tried) = MaxRestoreAttempts
      [] round.phase \in {"decode", "empty_decode", "resident", "prompts"} -> Full
      [] OTHER -> FALSE

\* The rest of what a round leaves alone when it moves one candidate.
Elsewhere == UNCHANGED <<prompt, max_new_tokens, control, failed>>

EndPhase ==
    /\ round.phase \in {"readmit", "handoff", "decode", "empty_decode", "resident", "prompts", "remote"}
    /\ Untried = {} \/ LoopStops
    /\ round' = IF round.phase = "resident" /\ Full THEN LeaveFor(round, AfterPrefillWork(round))
                                                    ELSE Leave(round)
    /\ UNCHANGED <<request, resources, images, transfers, free, control, failed>>

-----------------------------------------------------------------------------
(* Admissions: what one scheduled step does to its request. *)

\* schedulePrefillFirstChunk, applied: a row, the table, and the first window.
FirstChunk(r, t) ==
    /\ Admit(r, FirstChunkDemand(r, t), FirstChunkWindow(r, t))
    /\ AllocateRow(r)
    /\ extent' = [extent EXCEPT ![r] = t]
    /\ state' = [state EXCEPT ![r] = AfterChunk(Role = "D", t = prompt[r], Role = "P")]
    /\ results_in_flight' = [results_in_flight EXCEPT ![r] = IF Role = "D" THEN 0 ELSE 1]
    /\ generated_at_admission' = [generated_at_admission EXCEPT ![r] = generated[r]]
    /\ UNCHANGED <<generated, retraction_count, images, transfers, free_slots, blob_pages>>

\* Mutant: the chunk's forward is not tracked.
NextChunk_Untracked(r, t) ==
    /\ Admit(r, ChunkDemand(r, t), extent[r] + t + ChunkReserve(r, t))
    /\ extent' = [extent EXCEPT ![r] = @ + t]
    /\ state' = [state EXCEPT ![r] = AfterChunk(FALSE, extent[r] + t = prompt[r], Role = "P")]
    /\ UNCHANGED <<generated, retraction_count, generated_at_admission, row, results_in_flight, images,
                   transfers, free_rows, free_slots, blob_pages>>

\* schedulePrefill, applied: the next chunk of a resident prompt.
NextChunk(r, t) ==
    /\ Admit(r, ChunkDemand(r, t), extent[r] + t + ChunkReserve(r, t))
    /\ extent' = [extent EXCEPT ![r] = @ + t]
    /\ state' = [state EXCEPT ![r] = AfterChunk(FALSE, extent[r] + t = prompt[r], Role = "P")]
    /\ results_in_flight' = [results_in_flight EXCEPT ![r] = @ + 1]
    /\ UNCHANGED <<generated, retraction_count, generated_at_admission, row, images, transfers,
                   free_rows, free_slots, blob_pages>>

\* scheduleDecode, applied: one more token, on a reserved page when there is
\* one.  A remote decode (P) runs no forward here.
DecodeStep(r) ==
    /\ Admit(r, Missing(r, 1, 0), extent[r] + 1)
    /\ extent' = [extent EXCEPT ![r] = @ + 1]
    /\ state' = [state EXCEPT ![r] = ScheduleDecodeEvent(@)]
    /\ results_in_flight' = [results_in_flight EXCEPT ![r] = IF Role = "P" THEN @ ELSE @ + 1]
    /\ UNCHANGED <<generated, retraction_count, generated_at_admission, row, images, transfers,
                   free_rows, free_slots, blob_pages>>

\* scheduleRestore, applied: fresh pages for the image and the reserve.  The
\* restore op owns the row, shares the slot, and pins the imaged pages.
StartRestore(r) ==
    LET fresh == Pick(free_pages, RestoreDemand(r))
    IN  /\ table' = [table EXCEPT ![r] = fresh]
        /\ window' = [window EXCEPT ![r] = RestoreWindow(r)]
        /\ free_pages' = free_pages \ fresh
        /\ \E i \in Pick(free_rows, 1) :
              /\ free_rows' = free_rows \ {i}
              /\ snapshot_restores' = [snapshot_restores EXCEPT ![r] =
                    [slot |-> blob_slot[r], row |-> i, pages |-> Pick(fresh, PagesFor(extent[r]))]]
        /\ state' = [state EXCEPT ![r] = "Restoring"]
        /\ generated_at_admission' = [generated_at_admission EXCEPT ![r] = generated[r]]
        /\ retraction_epoch' = WithoutEpoch(r)
        /\ UNCHANGED <<generated, retraction_count, row, extent, results_in_flight,
                       blob_slot, shape, resumes_generation, pending_store_ops,
                       snapshot_stores, host_stores, pinned_stores, free_slots, blob_pages>>

\* SnapshotRetractEvent with StartRetractionStores: the image takes a blob
\* slot and n pages of the snapshot pool, the rest rides Host L2.  It has
\* landed once its snapshot store, its own L2 leg and the earlier write-backs
\* that carry one of its pages are acknowledged.  The count of retractions
\* stops growing once SafeSteps * (1 + count) covers max_new_tokens: past that
\* neither AdmissionHeadroom nor ReserveCoversGeneration changes.
Retract(r, n, leg, earlier) ==
    /\ \E s \in Pick(free_slots, 1) :
          /\ blob_slot' = [blob_slot EXCEPT ![r] = s]
          /\ snapshot_stores' = [snapshot_stores EXCEPT ![r] = s]
          /\ free_slots' = free_slots \ {s}
          /\ blob_pages' = [blob_pages EXCEPT ![s] = n]
    /\ host_stores' = IF leg THEN host_stores \cup {r} ELSE host_stores
    /\ pending_store_ops' = [pending_store_ops EXCEPT ![r] =
          earlier \cup {SnapshotOp(r)} \cup (IF leg THEN {HostOp(r)} ELSE {})]
    /\ shape' = [shape EXCEPT ![r] = state[r]]
    /\ resumes_generation' = [resumes_generation EXCEPT ![r] = generated[r] > 0]
    /\ retraction_epoch' = [retraction_epoch EXCEPT ![r] = NextRetractionEpoch]
    /\ retraction_count' = [retraction_count EXCEPT ![r] =
          IF SafeSteps * (1 + @) >= max_new_tokens[r] THEN @ ELSE @ + 1]
    /\ state' = [state EXCEPT ![r] = "Retracted"]
    /\ UNCHANGED <<snapshot_restores, pinned_stores>>
    /\ FreeRequests({r})
    /\ UNCHANGED <<generated, generated_at_admission, extent, results_in_flight>>

-----------------------------------------------------------------------------
(* The phases. *)

\* scheduleReadmission: landed images in rank order, generating requests
\* first, oldest retraction first.  One that does not fit waits and seals new
\* prompts; a missing row stops the scan.
RanksBefore(q, r) ==
    \/ resumes_generation[q] /\ ~resumes_generation[r]
    \/ resumes_generation[q] = resumes_generation[r] /\ retraction_epoch[q] < retraction_epoch[r]
NextReadmission == {r \in Untried : \A q \in Untried \ {r} : RanksBefore(r, q)}

ScheduleReadmission ==
    /\ round.phase = "readmit" /\ Untried # {} /\ ~LoopStops
    /\ \E r \in NextReadmission :
           \/ /\ free_rows = {}
              /\ round' = Leave(round)
              /\ UNCHANGED <<request, resources, images, transfers, free>>
           \/ /\ free_rows # {} /\ ~Fits(RestoreDemand(r))
              /\ round' = [Tried(round, r) EXCEPT !.sealed = TRUE]
              /\ UNCHANGED <<request, resources, images, transfers, free>>
           \/ /\ free_rows # {} /\ Fits(RestoreDemand(r))
              /\ StartRestore(r)
              /\ round' = Leave([round EXCEPT !.scheduled = @ \cup {r}, !.restored = TRUE, !.cache_ops = TRUE])
    /\ Elsewhere

\* scheduleDecodeBatch, also as the empty-round retraction runs it.
ScheduleDecodeBatch ==
    /\ round.phase \in {"decode", "empty_decode"} /\ Untried # {} /\ ~LoopStops
    /\ \E r \in FirstOf(Untried) :
           \/ /\ Fits(Missing(r, 1, 0))
              /\ DecodeStep(r)
              /\ round' = PushDecode(round, r)
           \/ /\ ~Fits(Missing(r, 1, 0))
              /\ round' = NoteCapacityBlocked(Tried(round, r), r)
              /\ UNCHANGED <<request, resources, images, transfers, free>>
    /\ Elsewhere

\* P: completed prompts leave on remote_decode; a failed one is not a blocker.
HandOff ==
    /\ round.phase = "handoff" /\ Untried # {}
    /\ \E r \in FirstOf(Untried) :
           \/ /\ Fits(Missing(r, 1, 0))
              /\ DecodeStep(r)
              /\ round' = PushRemote(round, r)
           \/ /\ ~Fits(Missing(r, 1, 0))
              /\ round' = Tried(round, r)
              /\ UNCHANGED <<request, resources, images, transfers, free>>
    /\ Elsewhere

\* scheduleLocalPrefillWork, resident tier: head-of-line on an incomplete
\* chunk and on a failed one.
ScheduleResident ==
    /\ round.phase = "resident" /\ Untried # {} /\ ~LoopStops
    /\ \E r \in FirstOf(Untried) :
       LET t == ChunkTokens(r, round.token_budget)
           last == extent[r] + t = prompt[r]
           pushed == PushPrefill(round, r, t, IF last THEN "last" ELSE "chunk")
       IN  \/ /\ Fits(ChunkDemand(r, t))
              /\ NextChunk(r, t)
              /\ round' = IF last THEN pushed ELSE LeaveFor(pushed, AfterPrefillWork(pushed))
           \/ /\ ~Fits(ChunkDemand(r, t))
              /\ round' = LET noted == NoteCapacityBlocked(round, r)
                          IN  LeaveFor(noted, AfterPrefillWork(noted))
              /\ UNCHANGED <<request, resources, images, transfers, free>>
    /\ Elsewhere

\* ... and its new-prompt tier.  Without a free row the prompt is passed over.
SchedulePrompt ==
    /\ round.phase = "prompts" /\ Untried # {} /\ ~LoopStops
    /\ \E r \in FirstOf(Untried) :
       LET t == ChunkTokens(r, round.token_budget)
           last == t = prompt[r]
           pushed == PushPrefill(round, r, t, IF last THEN "last" ELSE "chunk")
       IN  \/ /\ free_rows = {}
              /\ round' = Tried(round, r)
              /\ UNCHANGED <<request, resources, images, transfers, free>>
           \/ /\ free_rows # {} /\ Fits(FirstChunkDemand(r, t))
              /\ FirstChunk(r, t)
              /\ round' = IF last THEN pushed ELSE LeaveFor(pushed, AfterPrefillWork(pushed))
           \/ /\ free_rows # {} /\ ~Fits(FirstChunkDemand(r, t))
              /\ round' = NoteCapacityBlocked(Tried(round, r), r)
              /\ UNCHANGED <<request, resources, images, transfers, free>>
    /\ Elsewhere

\* D: at most one remote admission, the whole prompt at once.
ScheduleRemotePrompt ==
    /\ round.phase = "remote" /\ Untried # {}
    /\ \E r \in FirstOf(Untried) :
           \/ /\ free_rows = {}
              /\ round' = Tried(round, r)
              /\ UNCHANGED <<request, resources, images, transfers, free>>
           \/ /\ free_rows # {} /\ Fits(FirstChunkDemand(r, prompt[r]))
              /\ FirstChunk(r, prompt[r])
              /\ round' = Leave(PushRemote(round, r))
           \/ /\ free_rows # {} /\ ~Fits(FirstChunkDemand(r, prompt[r]))
              /\ round' = NoteCapacityBlocked(Tried(round, r), r)
              /\ UNCHANGED <<request, resources, images, transfers, free>>
    /\ Elsewhere

-----------------------------------------------------------------------------
(* maybeRetractForCapacity: one iteration of its loop is a victim and a grant. *)

Retractable(ignore_exemption) ==
    {r \in In(Suspendable) : ignore_exemption \/ ~ReserveCoversGeneration(r)}

\* The probe projects the publication the retraction does first: with a Host
\* pool the published pages are expected to ride L2.
imageFits(r) == free_slots # {} /\ SnapshotPoolHolds(IF HasHostPool THEN 0 ELSE PagesFor(extent[r]))

\* Rank: incomplete prefills, largest first; then most releasable pages,
\* fewest generated tokens.
VictimBefore(a, b) ==
    LET lex(x, y, z) == x > 0 \/ (x = 0 /\ (y > 0 \/ (y = 0 /\ z > 0)))
    IN  CASE state[a] = "Prefilling" /\ state[b] # "Prefilling" -> TRUE
          [] state[a] # "Prefilling" /\ state[b] = "Prefilling" -> FALSE
          [] state[a] = "Prefilling" /\ state[b] = "Prefilling" ->
                lex(TokenSize(a) - TokenSize(b), 0, b - a)
          [] OTHER -> lex(Cardinality(table[a]) - Cardinality(table[b]), generated[b] - generated[a], b - a)

\* Mutant: no empty-round retraction.
EmptyRound_Never == FALSE
EmptyRound ==
    /\ Retractable(FALSE) = {} /\ round.rows = {} /\ ~round.restored /\ ~round.remote
    /\ In({"Finishing"}) = {}
Victims == Retractable(EmptyRound)
FittingVictims == {r \in Victims : imageFits(r)}
chooseVictim ==
    IF FittingVictims # {}
    THEN {r \in FittingVictims : \A q \in FittingVictims \ {r} : VictimBefore(r, q)}
    ELSE {r \in Victims : \A q \in Victims : q <= r}

\* Whom the victim's pages serve: the blocker or, when that is the victim
\* itself, the next blocked request, else the first waiting prompt.  Nobody
\* stops the loop.
Beneficiary(victim) ==
    LET blocked == {i \in DOMAIN round.blocked :
                        /\ round.blocked[i] # victim
                        /\ state[round.blocked[i]] \in {"Submitted"} \cup Suspendable}
        waiting == In({"Submitted"}) \ {victim}
    IN  CASE round.blocker # victim -> {round.blocker}
          [] round.blocker = victim /\ blocked # {} -> {round.blocked[i] : i \in FirstOf(blocked)}
          [] round.blocker = victim /\ blocked = {} /\ waiting # {} -> FirstOf(waiting)
          [] round.blocker = victim /\ blocked = {} /\ waiting = {} /\ EmptyRound
                /\ In({"PrefillDone", "Decoding"}) \ {victim} # {} -> {victim}
          [] OTHER -> {}

\* Mutant: a victim need not be quiescent.
RetractionStops_NotQuiescent ==
    \/ round.pushed_prefill \/ round.remote \/ round.blocker = None
    \/ HasPinnedStoresInFlight
    \/ ~ \E v \in chooseVictim : ~pdTransferInFlight(v) /\ Beneficiary(v) # {}
RetractionStops ==
    \/ round.pushed_prefill \/ round.remote \/ round.blocker = None
    \/ HasPinnedStoresInFlight
    \/ ~ \E v \in chooseVictim :
            results_in_flight[v] = 0 /\ ~pdTransferInFlight(v) /\ Beneficiary(v) # {}

\* The victim's pages go to the round's decodes first when the round is empty.
ServeNext(rd, b) ==
    LeaveFor([rd EXCEPT !.blocker = b], IF EmptyRound THEN "empty_decode" ELSE "grant")

StopRetracting ==
    /\ round.phase = "retract" /\ RetractionStops
    /\ round' = LeaveFor(round, "end")
    /\ UNCHANGED <<request, resources, images, transfers, free, control, failed>>

\* retractVictim.  Without a Host pool every imaged page goes to the snapshot
\* pool; with one, n pages do (those L2 had no room for).
RetractVictim ==
    /\ round.phase = "retract" /\ ~RetractionStops /\ FittingVictims # {}
    /\ \E victim \in chooseVictim : \E b \in Beneficiary(victim) :
       LET pages == PagesFor(extent[victim])
       IN  /\ \E n \in IF HasHostPool THEN 0 .. pages ELSE {pages},
                 leg \in BOOLEAN, earlier \in SUBSET WriteBacksInFlight :
                 /\ SnapshotPoolHolds(n)
                 /\ (n = pages) => (~leg /\ earlier = {})
                 /\ Retract(victim, n, leg, earlier)
           /\ round' = ServeNext([round EXCEPT !.cache_ops = TRUE], b)
    /\ Elsewhere

\* onImageDoesNotFit: no image fits, or this one turned out not to once L2
\* was tried.  The control plane learns of it from plan.aborts.
AbortVictim ==
    /\ round.phase = "retract" /\ ~RetractionStops
    /\ \E victim \in chooseVictim : \E b \in Beneficiary(victim) :
           /\ \/ FittingVictims = {}
              \/ HasHostPool /\ \E n \in 1 .. PagesFor(extent[victim]) : ~SnapshotPoolHolds(n)
           /\ AbortEvent(victim)
           /\ ended' = ended \cup {victim}
           /\ round' = ServeNext([round EXCEPT !.aborted = TRUE], b)
    /\ UNCHANGED <<prompt, max_new_tokens, generated, retraction_count, generated_at_admission,
                   in_flight, failed>>

\* The blocked admission is retried in the same round.  A capacity failure
\* takes another victim.
GrantStops ==
    \/ Full
    \/ /\ Role = "Fused" /\ ~Mixed /\ round.pushed_decode
       /\ state[round.blocker] \in {"Submitted", "Prefilling"}
    \/ state[round.blocker] = "Submitted" /\ free_rows = {}

Grant ==
    /\ round.phase = "grant"
    /\ \E b \in {round.blocker} \cap Requests :
       LET again == LeaveFor(round, "retract")
           t == ChunkTokens(b, round.token_budget)
           kind == IF extent[b] + t = prompt[b] THEN "last" ELSE "chunk"
       IN  \/ /\ GrantStops
              /\ round' = LeaveFor(round, "end")
              /\ UNCHANGED <<request, resources, images, transfers, free>>
           \/ /\ ~GrantStops /\ state[b] \in {"PrefillDone", "Decoding"} /\ Fits(Missing(b, 1, 0))
              /\ DecodeStep(b)
              /\ round' = LeaveFor(PushDecode(round, b), "end")
           \/ /\ ~GrantStops /\ state[b] = "Prefilling" /\ Fits(ChunkDemand(b, t))
              /\ NextChunk(b, t)
              /\ round' = LeaveFor(PushPrefill(round, b, t, kind), "end")
           \/ /\ ~GrantStops /\ state[b] = "Submitted" /\ Fits(FirstChunkDemand(b, t))
              /\ FirstChunk(b, t)
              /\ round' = LeaveFor(IF Role = "D" THEN PushRemote(round, b)
                                                 ELSE PushPrefill(round, b, t, kind), "end")
           \/ /\ ~GrantStops
              /\ ~Fits(CASE state[b] = "Submitted" -> FirstChunkDemand(b, t)
                         [] state[b] = "Prefilling" -> ChunkDemand(b, t)
                         [] OTHER -> Missing(b, 1, 0))
              /\ round' = again
              /\ UNCHANGED <<request, resources, images, transfers, free>>
    /\ Elsewhere

-----------------------------------------------------------------------------
(* NextExecutionPlan around the grammar, and the control plane's side. *)

\* The event loop commits down to the overlap depth after a forward, and to
\* nothing after a round without one, before it plans again.
Uncommitted == IF round.ran THEN OverlapDepth ELSE 0

StartRound ==
    /\ round.phase = "idle" /\ Len(in_flight) <= Uncommitted
    /\ round' = [IdleRound EXCEPT !.phase = FirstPhase, !.token_budget = MaxScheduledTokens]
    /\ UNCHANGED <<request, resources, images, transfers, free, control, failed>>

\* trackStalledRounds: an empty plan for live requests with nothing out.
Candidates == In({"Submitted", "RemotePrefilling", "Retracted"} \cup Suspendable)
Stalled ==
    /\ Candidates # {}
    /\ round.rows = {} /\ ~round.remote /\ ~round.cache_ops /\ ~round.aborted
    /\ ~HasAnyInFlight
    /\ \A r \in Requests : results_in_flight[r] = 0 /\ ~pdTransferInFlight(r)

\* A boundary publication stores the pages a scheduled request has completed.
EndRound ==
    /\ round.phase = "end"
    /\ in_flight' = IF round.rows = {} THEN in_flight ELSE Append(in_flight, round.rows)
    /\ \/ pinned_stores' = pinned_stores
       \/ /\ StreamsDeviceCacheToHost /\ pinned_stores[Boundary] = {}
          /\ \E r \in round.scheduled :
                /\ state[r] \in {"Prefilling", "PrefillAwaitingResult", "PrefillDone", "Decoding"}
                /\ pinned_stores' = [pinned_stores EXCEPT ![Boundary] =
                                        CompletedPages(r)]
    /\ round' = [IdleRound EXCEPT !.stalled = Stalled, !.ran = round.rows # {}]
    /\ UNCHANGED <<request, resources, images, snapshot_stores, snapshot_restores, host_stores,
                   free, ended, failed>>

Idle == round.phase = "idle"

\* SubmitRequests, with its capacity check (max_single_request_tokens, the
\* first chunk's decode slot included); an undeclared budget is bounded by the
\* control plane's context length.  Ids are numbered in this order.
SubmitRequest(r) ==
    /\ Idle /\ state[r] = "New"
    /\ \A q \in Requests : q < r => state[q] # "New"
    /\ \E p \in PromptSizes, b \in Budgets :
          /\ PagesFor(p + (IF Role = "P" THEN 1 ELSE Max2(b, 1))) <= Cardinality(Pages)
          /\ Role # "P" /\ b = 0 => PagesFor(p + MaxGenerated) <= Cardinality(Pages)
          /\ prompt' = [prompt EXCEPT ![r] = p]
          /\ max_new_tokens' = [max_new_tokens EXCEPT ![r] = b]
    /\ state' = [state EXCEPT ![r] = IF Role = "Fused" THEN "Submitted" ELSE "Bootstrapping"]
    /\ UNCHANGED <<generated, retraction_count, generated_at_admission, resources, images,
                   transfers, free, round, control, failed>>

\* How a committed row ends: an intermediate chunk and a row of a request the
\* control plane already ended only land; a P never finishes on a token.
TokenLimit(r) == IF max_new_tokens[r] > 0 THEN max_new_tokens[r] ELSE MaxGenerated
Verdicts(r, kind) ==
    IF kind = "chunk" \/ r \in ended THEN {"land"}
    ELSE (IF NaNs THEN {"abort"} ELSE {})
           \cup (IF Role = "P" THEN {"go_on"}
                 ELSE IF generated[r] + 1 < TokenLimit(r) THEN {"go_on", "finish"} ELSE {"finish"})

\* The state after ExtendResult and, by the verdict, Finish, Abort or (for a
\* decode row that goes on) UpdateReserveNumTokens.
RowEvents(s, kind, verdict) ==
    LET landed == ExtendResultEvent(s, kind # "chunk")
    IN  CASE landed = Invalid -> Invalid
          [] landed # Invalid /\ verdict = "abort" -> "Finished"
          [] landed # Invalid /\ verdict = "finish" -> FinishEvent(landed)
          [] landed # Invalid /\ verdict = "go_on" /\ kind = "decode" -> UpdateReserveNumTokensEvent(landed)
          [] OTHER -> landed

\* One Advance with the results of the oldest batch: every row's events, then
\* settleFinishedRequests.  A settled request may stream its pages to Host
\* (publishCompletedPages): the pinned store keeps them past the release.
Commit ==
    /\ Idle /\ Len(in_flight) > Uncommitted
    /\ LET kind == [r \in {x[1] : x \in Head(in_flight)} |->
                        (CHOOSE x \in Head(in_flight) : x[1] = r)[2]]
           R == DOMAIN kind
       IN  \E verdict \in [R -> {"land", "go_on", "finish", "abort"}] :
             /\ \A r \in R : verdict[r] \in Verdicts(r, kind[r])
             /\ LET holds == {r \in R : state[r] \in HoldsPages}
                    after == [r \in R |-> RowEvents(state[r], kind[r], verdict[r])]
                    settled == {r \in holds : after[r] = "Finishing" /\ results_in_flight[r] = 1}
                    leaves == settled \cup {r \in holds : after[r] = "Finished"}
                IN  /\ state' = [r \in Requests |->
                            CASE r \in leaves -> "Finished"
                              [] r \in R \ leaves /\ after[r] # Invalid -> after[r]
                              [] OTHER -> state[r]]
                    /\ generated' = [r \in Requests |->
                            IF r \in R /\ kind[r] # "chunk" /\ r \notin ended
                            THEN generated[r] + 1 ELSE generated[r]]
                    /\ results_in_flight' = [r \in Requests |->
                            CASE r \in leaves -> 0
                              [] r \in holds \ leaves -> Max2(0, results_in_flight[r] - 1)
                              [] OTHER -> results_in_flight[r]]
                    /\ extent' = [r \in Requests |-> IF r \in leaves THEN 0 ELSE extent[r]]
                    /\ \E stored \in SUBSET (IF StreamsDeviceCacheToHost THEN settled ELSE {}) :
                            pinned_stores' = [o \in PinnedOps |->
                                IF o \in stored THEN CompletedPages(o)
                                                ELSE pinned_stores[o]]
                    /\ UNCHANGED <<snapshot_stores, snapshot_restores, host_stores>>
                    /\ FreeRequests(leaves)
                    /\ ended' = ended \cup {r \in R : verdict[r] \in {"finish", "abort"}}
                    /\ failed' = failed
                            \cup (IF \E r \in R : after[r] = Invalid THEN {"undefined transition"} ELSE {})
                            \cup (IF \E r \in holds : results_in_flight[r] = 0 THEN {"result not in flight"} ELSE {})
    /\ in_flight' = Tail(in_flight)
    /\ UNCHANGED <<prompt, max_new_tokens, retraction_count, generated_at_admission, images,
                   free_slots, blob_pages, round>>

\* Mutant: the image does not learn that its export landed.
SnapshotDone_KeepsPending(r) ==
    /\ Idle /\ snapshot_stores[r] # None
    /\ snapshot_stores' = [snapshot_stores EXCEPT ![r] = None]
    /\ UNCHANGED <<blob_slot, snapshot_restores>>
    /\ DropSlots({snapshot_stores[r]})
    /\ UNCHANGED <<request, resources, shape, resumes_generation, retraction_epoch, pending_store_ops,
                   host_stores, pinned_stores, free_rows, free_pages, round, control, failed>>

\* cache::SnapshotDone: the export into the blob slot is complete.
SnapshotDone(r) ==
    /\ Idle /\ snapshot_stores[r] # None
    /\ snapshot_stores' = [snapshot_stores EXCEPT ![r] = None]
    /\ pending_store_ops' = [pending_store_ops EXCEPT ![r] = @ \ {SnapshotOp(r)}]
    /\ UNCHANGED <<blob_slot, snapshot_restores>>
    /\ DropSlots({snapshot_stores[r]})
    /\ UNCHANGED <<request, resources, shape, resumes_generation, retraction_epoch,
                   host_stores, pinned_stores, free_rows, free_pages, round, control, failed>>

\* Every suspended request waiting for a write-back notes that it landed.
StoreLanded(op) ==
    pending_store_ops' = [r \in Requests |->
        IF state[r] = "Retracted" THEN pending_store_ops[r] \ {op} ELSE pending_store_ops[r]]

\* cache::WriteBackDone, for the L2 leg of an image ...
HostStoreDone(r) ==
    /\ Idle /\ r \in host_stores
    /\ host_stores' = host_stores \ {r}
    /\ StoreLanded(HostOp(r))
    /\ UNCHANGED <<request, resources, blob_slot, shape, resumes_generation, retraction_epoch,
                   snapshot_stores, snapshot_restores, pinned_stores, free, round, control, failed>>

\* ... and for a pinned store, whose source pages are let go.
PinnedStoreDone(o) ==
    /\ Idle /\ pinned_stores[o] # {}
    /\ pinned_stores' = [pinned_stores EXCEPT ![o] = {}]
    /\ StoreLanded(PinnedOp(o))
    /\ UNCHANGED <<table, window, snapshot_restores>>
    /\ DropPages(pinned_stores[o])
    /\ UNCHANGED <<request, row, extent, results_in_flight, blob_slot, shape, resumes_generation,
                   retraction_epoch, snapshot_stores, host_stores, free_rows, free_slots, blob_pages,
                   round, control, failed>>

\* cache::RestoreDone.  A request that is gone leaves the row to the allocator;
\* otherwise it resumes in the state it was suspended in, in the op's row.
RestoreDone(r) ==
    /\ Idle /\ RestoreInFlight(r)
    /\ LET ticket == snapshot_restores[r]
           resumes == state[r] = "Restoring"
       IN  /\ snapshot_restores' = [snapshot_restores EXCEPT ![r] = NoRestore]
           /\ state' = IF resumes THEN [state EXCEPT ![r] = shape[r]] ELSE state
           /\ row' = IF resumes THEN [row EXCEPT ![r] = ticket.row] ELSE row
           /\ free_rows' = IF resumes THEN free_rows ELSE free_rows \cup {ticket.row}
           /\ blob_slot' = [blob_slot EXCEPT ![r] = None]
           /\ shape' = [shape EXCEPT ![r] = None]
           /\ resumes_generation' = [resumes_generation EXCEPT ![r] = FALSE]
           /\ UNCHANGED <<table, window, pinned_stores, snapshot_stores>>
           /\ DropPages(ticket.pages)
           /\ DropSlots({ticket.slot, blob_slot[r]})
    /\ UNCHANGED <<prompt, max_new_tokens, generated, retraction_count, generated_at_admission,
                   extent, results_in_flight, retraction_epoch, pending_store_ops, host_stores,
                   round, control, failed>>

\* forward::Abort, and pd::FailedEvent while the transfer is open.
Abort(r) ==
    /\ Idle /\ r \notin ended
    /\ \/ state[r] \in AbortStates \ {"Finished"}
       \/ Role = "D" /\ state[r] \in {"Bootstrapping", "Submitted", "RemotePrefilling"}
       \/ Role = "P" /\ state[r] \in States \ {"Finishing", "Finished"}
    /\ AbortEvent(r)
    /\ ended' = ended \cup {r}
    /\ UNCHANGED <<prompt, max_new_tokens, generated, retraction_count, generated_at_admission,
                   round, in_flight, failed>>

\* pd::BootstrappedEvent.
Bootstrapped(r) ==
    /\ Idle /\ state[r] = "Bootstrapping"
    /\ state' = [state EXCEPT ![r] = BootstrappedEvent(@)]
    /\ UNCHANGED <<prompt, max_new_tokens, generated, retraction_count, generated_at_admission,
                   resources, images, transfers, free, round, control, failed>>

\* A request that ends in this Advance: it parks in Finishing, and settles at
\* once when no forward is out.
FinishNow(r, finishing) ==
    LET settles == results_in_flight[r] = 0
    IN  /\ state' = [state EXCEPT ![r] = IF settles THEN "Finished" ELSE finishing]
        /\ extent' = IF settles THEN [extent EXCEPT ![r] = 0] ELSE extent
        /\ \/ pinned_stores' = pinned_stores
           \/ /\ settles /\ StreamsDeviceCacheToHost
              /\ pinned_stores' = [pinned_stores EXCEPT ![r] =
                                     CompletedPages(r)]
        /\ UNCHANGED <<snapshot_stores, snapshot_restores, host_stores>>
        /\ FreeRequests(IF settles THEN {r} ELSE {})
        /\ ended' = ended \cup {r}

\* pd::SucceededEvent: the peer has read the pages of a handed-off prompt.
Succeeded(r) ==
    /\ Idle /\ Role = "P" /\ state[r] = "Decoding"
    /\ FinishNow(r, FinishEvent(state[r]))
    /\ UNCHANGED <<prompt, max_new_tokens, generated, retraction_count, generated_at_admission,
                   results_in_flight, images, free_slots, blob_pages, round, in_flight, failed>>

\* pd::RemotePrefillDoneEvent with the bootstrap token, which may already end
\* the request (the control plane then sends Finish in the same Advance).
RemotePrefillDone(r) ==
    /\ Idle /\ state[r] = "RemotePrefilling"
    /\ generated' = [generated EXCEPT ![r] = @ + 1]
    /\ \/ /\ generated[r] + 1 < TokenLimit(r)
          /\ state' = [state EXCEPT ![r] = RemotePrefillDoneEvent(@)]
          /\ UNCHANGED <<extent, row, table, window, transfers, free_rows, free_pages, ended>>
       \/ FinishNow(r, FinishEvent(RemotePrefillDoneEvent(state[r])))
    /\ UNCHANGED <<prompt, max_new_tokens, retraction_count, generated_at_admission,
                   results_in_flight, images, free_slots, blob_pages, round, in_flight, failed>>

-----------------------------------------------------------------------------

Init ==
    /\ state = [r \in Requests |-> "New"]
    /\ prompt = [r \in Requests |-> 0] /\ max_new_tokens = [r \in Requests |-> 0]
    /\ generated = [r \in Requests |-> 0] /\ retraction_count = [r \in Requests |-> 0]
    /\ generated_at_admission = [r \in Requests |-> 0]
    /\ row = [r \in Requests |-> None] /\ table = [r \in Requests |-> {}] /\ window = [r \in Requests |-> 0]
    /\ extent = [r \in Requests |-> 0] /\ results_in_flight = [r \in Requests |-> 0]
    /\ blob_slot = [r \in Requests |-> None] /\ shape = [r \in Requests |-> None]
    /\ resumes_generation = [r \in Requests |-> FALSE]
    /\ retraction_epoch = [r \in Requests |-> 0] /\ pending_store_ops = [r \in Requests |-> {}]
    /\ snapshot_stores = [r \in Requests |-> None]
    /\ snapshot_restores = [r \in Requests |-> NoRestore]
    /\ host_stores = {} /\ pinned_stores = [o \in PinnedOps |-> {}]
    /\ free_rows = Rows /\ free_slots = Slots /\ free_pages = Pages
    /\ blob_pages = [s \in Slots |-> 0]
    /\ round = IdleRound /\ in_flight = <<>> /\ ended = {} /\ failed = {}

PlanStep ==
    \/ StartRound \/ EndPhase \/ ScheduleReadmission \/ ScheduleDecodeBatch \/ HandOff
    \/ ScheduleResident \/ SchedulePrompt \/ ScheduleRemotePrompt
    \/ StopRetracting \/ RetractVictim \/ AbortVictim \/ Grant \/ EndRound

Acknowledge ==
    \/ \E r \in Requests : SnapshotDone(r) \/ HostStoreDone(r) \/ RestoreDone(r)
    \/ \E o \in PinnedOps : PinnedStoreDone(o)

PeerNotifies == \E r \in Requests : Bootstrapped(r) \/ Succeeded(r) \/ RemotePrefillDone(r)

Next ==
    \/ PlanStep \/ Commit \/ Acknowledge \/ PeerNotifies
    \/ \E r \in Requests : SubmitRequest(r) \/ Abort(r)

Spec == Init /\ [][Next]_vars

\* The event loop turns for ever: it commits what was dispatched, plans, and
\* polls completed copies and peer notifications between two plans, so if some
\* are ready again and again, one is delivered.  Nothing makes a client submit
\* or abort.
FairSpec ==
    Spec /\ WF_vars(PlanStep \/ Commit) /\ SF_vars(Acknowledge) /\ SF_vars(PeerNotifies)

-----------------------------------------------------------------------------
(* Properties. *)

Phases == {"idle", "readmit", "handoff", "decode", "empty_decode", "resident", "prompts",
           "remote", "retract", "grant", "end"}
Kinds == {"chunk", "last", "decode"}
Ops == {SnapshotOp(r) : r \in Requests} \cup {HostOp(r) : r \in Requests}
         \cup {PinnedOp(o) : o \in PinnedOps}
Rounds == [phase : Phases, tried : SUBSET Requests, scheduled : SUBSET Requests,
           rows : SUBSET (Requests \X Kinds), token_budget : Int,
           pushed_prefill : BOOLEAN, pushed_decode : BOOLEAN, remote : BOOLEAN,
           cache_ops : BOOLEAN, restored : BOOLEAN, sealed : BOOLEAN, aborted : BOOLEAN,
           blocker : Requests \cup {None}, blocked : Seq(Requests), stalled : BOOLEAN, ran : BOOLEAN]
Restores == [slot : Slots \cup {None}, row : Rows \cup {None}, pages : SUBSET Pages]

RequestTypes ==
    /\ state \in [Requests -> States \cup {"New"}]
    /\ prompt \in [Requests -> Nat] /\ max_new_tokens \in [Requests -> Nat]
    /\ generated \in [Requests -> Nat] /\ retraction_count \in [Requests -> Nat]
    /\ generated_at_admission \in [Requests -> Nat]
ResourceTypes ==
    /\ row \in [Requests -> Rows \cup {None}] /\ table \in [Requests -> SUBSET Pages]
    /\ window \in [Requests -> Nat]
    /\ extent \in [Requests -> Nat] /\ results_in_flight \in [Requests -> Nat]
ImageTypes ==
    /\ blob_slot \in [Requests -> Slots \cup {None}]
    /\ shape \in [Requests -> Suspendable \cup {None}]
    /\ resumes_generation \in [Requests -> BOOLEAN]
    /\ retraction_epoch \in [Requests -> Nat]
    /\ pending_store_ops \in [Requests -> SUBSET Ops]
TransferTypes ==
    /\ snapshot_stores \in [Requests -> Slots \cup {None}]
    /\ snapshot_restores \in [Requests -> Restores]
    /\ host_stores \subseteq Requests
    /\ pinned_stores \in [PinnedOps -> SUBSET Pages]
FreeTypes ==
    /\ free_rows \subseteq Rows /\ free_slots \subseteq Slots /\ free_pages \subseteq Pages
    /\ blob_pages \in [Slots -> Nat]
ControlTypes ==
    /\ in_flight \in Seq(SUBSET (Requests \X Kinds))
    /\ ended \subseteq Requests
    /\ failed \subseteq {"undefined transition", "result not in flight"}

\* The state has the shape of the code's types.
TypeOK ==
    /\ RequestTypes /\ ResourceTypes /\ ImageTypes /\ TransferTypes /\ FreeTypes
    /\ round \in Rounds /\ ControlTypes

\* A row of the request pool is free, or one running request's, or one
\* restore's: an abort while a restore imports into its row never lets another
\* request have it, and no row is lost (ReqPoolIndex moves between states and
\* the restore ticket).
RowsOwnedOnce ==
    /\ \A i \in Rows : i \in free_rows
          <=> \A r \in Requests : row[r] # i /\ snapshot_restores[r].row # i
    /\ \A r, q \in Requests :
          /\ row[r] # None /\ row[r] = row[q] => r = q
          /\ RestoreInFlight(r) /\ snapshot_restores[r].row = snapshot_restores[q].row => r = q
          /\ row[r] # None => row[r] # snapshot_restores[q].row
    /\ \A r \in Requests : row[r] # None <=> state[r] \in HoldsPages \ {"Restoring"}

\* A Device page is free exactly when no table and no copy refers to it; two
\* tables never share one, and a page a restore still fills or a pinned store
\* still reads is in no table but its own request's.
PagesOwnedOnce ==
    /\ free_pages = Pages \ HeldPages(table, snapshot_restores, pinned_stores)
    /\ \A r, q \in Requests : r # q =>
          /\ table[r] \cap table[q] = {}
          /\ snapshot_restores[r].pages \cap table[q] = {}
          /\ snapshot_restores[r].pages \cap snapshot_restores[q].pages = {}
          /\ pinned_stores[r] \cap table[q] = {}
    /\ \A r \in Requests : table[r] # {} => state[r] \in HoldsPages

SlotsOf(r) == {blob_slot[r], snapshot_stores[r], snapshot_restores[r].slot}

\* A blob slot is free exactly when no suspended request, store or restore
\* refers to it, and never serves two requests: an abort before the store's or
\* the restore's ACK leaves the slot with the copy.
SlotsOwnedOnce ==
    /\ free_slots = Slots \ HeldSlots(blob_slot, snapshot_stores, snapshot_restores)
    /\ \A r, q \in Requests : r # q =>
          SlotsOf(r) \cap SlotsOf(q) \subseteq {None}

\* The snapshot pool is never overcommitted, and the pages an image took there
\* come back with its blob slot.
SnapshotPoolBalanced ==
    /\ SnapshotPagesUsed <= SnapshotPages
    /\ \A s \in free_slots : blob_pages[s] = 0

\* A restore copies only bytes that have arrived: while it runs, no store of
\* its image is in flight, and a suspended request waits for its own stores.
RestoresLandedImages ==
    \A r \in Requests :
        /\ state[r] = "Restoring" => /\ snapshot_stores[r] = None /\ r \notin host_stores
                                     /\ pending_store_ops[r] = {}
        /\ state[r] = "Retracted" =>
              /\ snapshot_stores[r] # None => SnapshotOp(r) \in pending_store_ops[r]
              /\ r \in host_stores => HostOp(r) \in pending_store_ops[r]
              /\ pending_store_ops[r] \subseteq WriteBacksInFlight \cup {SnapshotOp(q) : q \in
                                                   {p \in Requests : snapshot_stores[p] # None}}

\* The count of forwards out against a request's pages is exact while it holds
\* them: a finish or a retraction that trusts it releases no page a dispatched
\* forward still writes.
ResultsInFlightExact ==
    \A r \in Requests : state[r] \in HoldsPages =>
        results_in_flight[r] =
            Cardinality({i \in DOMAIN in_flight : \E k \in Kinds : <<r, k>> \in in_flight[i]})
              + Cardinality({k \in Kinds : <<r, k>> \in round.rows})

\* A request keeps its pages until every forward dispatched against them has
\* landed: neither a retraction nor the settling of a finished request
\* overtakes one (ResultsInFlight).  Only an abort may, a client's or one for NaN
\* logits; the runs of this property leave both out.
ForwardsKeepTheirPages ==
    \A i \in DOMAIN in_flight : \A x \in in_flight[i] : state[x[1]] \in HoldsPages

\* A P node hands a prompt to its peer only with the first token sampled: the
\* remote decode never overtakes the result of the prompt's last chunk.
HandOffHasItsToken ==
    Role = "P" => \A r \in Requests : state[r] \in {"PrefillDone", "Decoding"} => generated[r] > 0

\* No event the control plane sends meets a state that has no transition for
\* it, and no result lands that was not counted.
NoFailure == failed = {}

\* The scheduler never reports live requests that cannot progress: with
\* nothing out, a plan is not empty (trackStalledRounds never counts).
NeverStalled == ~round.stalled

\* Tokens of r that dispatched forwards will deliver.
TokensOut(r) ==
    Cardinality({i \in DOMAIN in_flight : in_flight[i] \cap {<<r, "last">>, <<r, "decode">>} # {}})
      + Cardinality(round.rows \cap {<<r, "last">>, <<r, "decode">>})
Covered(r) == state[r] \in {"PrefillDone", "Decoding"} /\ ReserveCoversGeneration(r)

\* A request whose admission prepaid its whole generation (what exempts it from
\* retraction) holds a page for every decode its budget still allows: it never
\* blocks, and so runs to its end whatever the others do.  The prepay is the
\* full-history table's: the run of this property has no sliding window.
CoveredRunsOnItsReserve ==
    \A r \in Requests \ ended :
        Covered(r) /\ generated[r] + TokensOut(r) < max_new_tokens[r] => Missing(r, 1, 0) = 0

\* Every submitted request ends: no set of requests keeps retracting each
\* other, none waits for pages, a row or an image that never come back.
EveryRequestEnds == \A r \in Requests : state[r] # "New" ~> state[r] = "Finished"
=============================================================================
