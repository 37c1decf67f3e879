# TokenSpeed: specifications

TLA+ modules for the control state of TokenSpeed, in four groups: the scheduler
(`tokenspeed-scheduler/csrc`, with the cadence of the engine's event loop), the
execution of its plans around the host cache, the Python frontend with its
model-update lock, and grammar-constrained decoding. TLC checks small instances.
TLAPS proves the ownership invariants of the scheduler, and exclusion and version
consistency of the frontend, for every value of the constants. Paths are relative
to `src/`; those of the scheduler to `src/tokenspeed-scheduler/csrc`, those of the
Python runtime to `src/python/tokenspeed/runtime`.

## The system

A client's request enters through the Python frontend (`engine/async_llm.py`), which
sends it to the Rust control plane (`tokenspeed-engine/crates/ts-control`). That
submits a prompt and a budget to the C++ scheduler, asks it for a plan, hands the
plan to the Python data plane and returns results, acknowledgements of copies and
notifications of a peer node as events.

| Part | Code | What it keeps |
|---|---|---|
| Request state machine | `fsm/` | the state of a request and the resources that state carries |
| Scheduling round | `scheduler/operations/forward.cpp`, `scheduler/scheduler.cpp` | one plan: admissions, chunks, decodes, retractions, restores |
| Event handlers | `scheduler/outside_event_handler.cpp` | results, acknowledgements, peer notifications, aborts |
| Request-pool rows, blob slots | `resource/allocator/` | free lists with moving ownership |
| Block pool | `cache/core/block_pool.h`, `cache_block_ref.*` | physical pages, placed in parents shared by cache groups |
| Tier transfers | `cache/tier/transfer_manager.*` | copies in flight between Device and Host |
| Page demands, chunks | `scheduler/operations/group_demands.*`, `prefill_chunk.*`, `cache/coordinator/group_geometry.h` | what an admission asks for |
| Coordinator, prefix index, group allocator | `cache/coordinator`, `cache/prefix`, `cache/allocator` | prefix reuse, publication, eviction |
| L3 storage | `cache/tier/storage_manager.*`, `scheduler/operations/storage.cpp`, `ts-l3` | queries, reads and backups against a remote store |
| Capacity model | `scheduler/capacity_model.*` | how much one request, and a batch, may need |
| Engine event loop | `ts-control/src/event_loop.rs`, `output.rs`, `request.rs` | the cadence of plan, dispatch and commit; when a request ends |
| Disaggregation | `ts-pd` | page transfer between a prefill and a decode node |
| Host cache executor | `cache/l2/executor.py`, `layerwise_load.py`, `cache/transfer/lanes.py`, `execution/device.py` | a plan's copies, on streams of their own |
| Frontend | `engine/async_llm.py`, `output_processor.py`, `collector.py`, `parallel_sampling.py` | a client's request, from the admission gate to its last output |
| Model-update lock | `engine/aio_rwlock.py` | requests read the model, a weight update writes it |
| RL control | `entrypoints/sglang_compat_http.py`, `engine/scheduler_control_client.py`, `ts-control/src/control.rs` | pause, resume, abort, weight updates |
| Grammar host | `grammar/grammar_host.py` (C++), `capturable_grammar.py`, `host_grammar.py` | the matchers of constrained requests and their token masks |
| Models, kernels | the rest of `runtime`, `tokenspeed-kernel*`, `tokenspeed-mla` | the numeric execution of a forward |

How they interact. A request in a page-holding state owns a row of the request
pool and the pages of its block tables. When the pool is full, a round suspends a
victim: its KV is copied to an image on the Host (a blob slot, pages of the
snapshot pool, and pages that ride the ordinary Host cache), its row and pages
return at once, and a later round restores it. The copies are asynchronous, the
control plane dispatches one forward ahead of the last committed result, and
clients abort when they like. Most of what can go wrong lies between these three.

Below the plan, the same asynchrony returns as CUDA streams: stores, loads, zeroing
and forwards run on four of them, ordered only by the waits the code enqueues.
Above it, each client is an asyncio task that holds the model-update lock as a
reader while the engine works for it. And a constrained request's matcher is shared
by the commit of one forward and a host node of the next.

## Modules

| Module | Models |
|---|---|
| `RequestFsm` | the transition each event makes from each state; `Invalid` is the throwing default of `fsm/base_event.h` |
| `Scheduler` | requests, rounds, handlers, copies, free lists, and the control plane's commits |
| `MCScheduler` | gives `Pick` (which free element an allocator grants) a definition |
| `BlockPool` | placement in parents, availability caches, bucketed and dense acquires, release |
| `BucketCapacity` | the shared formula for the parents a demand must open |
| `HostCacheExecutor` | one rank's execution of plans: the forward thread, four streams, the completion poll |
| `CopyService` | what the host cache promises the scheduler; `HostCacheExecutor` implements it |
| `RWLock` | the lock, with its condition's wake-ups and cancelled waiters |
| `SharedExclusive` | shared-exclusive access; `RWLock` and `Frontend` implement it |
| `Frontend` | extends `RWLock`: clients, the trainer, outputs, and what they see of the engine |
| `GrammarHost` | control thread, forward thread, streams and host node around the matchers |
| `MCBlockPool`, `MCHostCache`, `MCFrontend`, `MCGrammarHost` | instances for TLC |
| `SchedulerLemmas`, `SchedulerProofs`, `SchedulerTheorems` | the scheduler's inductive invariant and its proof |
| `RWLockProofs`, `FrontendProofs` | the same for the lock and the frontend |

### Scheduler: state and actions

The variables are grouped as the code groups them: `request` (class `Request`),
`resources` (`ForwardResources`), `images` (`Retracted`, `Restoring`), `transfers`
(`TierTransferManager`'s tickets), `free` (allocators), `round` (`PlanBuild` with
`AdmissionFeedback`), `in_flight` and `ended` (the control plane). Free lists are
explicit, so a leak is visible as well as a double grant. `failed` collects the
throws and fatal checks.

`NextExecutionPlan` runs on one thread. While `round.phase` is not `idle` only the
round moves, one candidate per step; the order of the phases is the role's grammar
(`FirstPhase`, `AfterPhase`):

| Action | Code |
|---|---|
| `StartRound`, `EndRound` | `NextExecutionPlan`, `trackStalledRounds`, and the commit cadence of `event_loop.rs` |
| `ScheduleReadmission` | `scheduleReadmission`, `scheduleRestore` |
| `ScheduleDecodeBatch`, `HandOff` | `scheduleDecodeBatch`, and the hand-over loop of `buildPrefillWorkerPlan` |
| `ScheduleResident`, `SchedulePrompt`, `ScheduleRemotePrompt` | the two tiers of `scheduleLocalPrefillWork`, and phase 3 of `buildDecodeWorkerPlan` |
| `StopRetracting`, `RetractVictim`, `AbortVictim`, `Grant` | one iteration of `maybeRetractForCapacity` |
| `EndPhase` | a loop that ran out of candidates or of budget |
| `SubmitRequest`, `Abort` | `SubmitRequests`, `forward::Abort`, `pd::FailedEvent` |
| `Commit` | one `Advance` with a batch's results, and `settleFinishedRequests` |
| `SnapshotDone`, `HostStoreDone`, `PinnedStoreDone`, `RestoreDone` | the cache acknowledgements |
| `Bootstrapped`, `Succeeded`, `RemotePrefillDone` | the peer's notifications |

Abstractions. One token per page and per decode step; a full-history group and,
when `WindowAt` is not empty, a sliding-window group beside it, which takes a page
at the token counts in `WindowAt`. `table[r]` is the union of both groups' pages;
`window[r]` says how many tokens the second covers. There are no prefix hits. The
retraction epoch is kept as a position in the order of suspended requests, and the
retraction count stops where it no longer changes `AdmissionHeadroom` or
`ReserveCoversGeneration`; both keep the state space finite and lose nothing the
code reads. What a retraction can place in the Host cache is any number of pages.

### BlockPool: state and actions

The pool's caches (`free_slots_by_bucket`, `parents_by_bucket`,
`first_free_slots`) are separate variables from the occupancy bits, since placement
reads only the caches. An acquire checks its capacity and then places one block per
step; nothing else happens until its loop ends. `BlockPool` takes the capacity
formula from `BucketCapacity`, whose `CapacityFormulaExact` compares it with the
least number of parents that holds the demand.

### HostCacheExecutor: state and actions

`queue` and `retired` are the streams: a step enqueues items, and `Run(s)` retires
the head of one stream. An event is a position of a stream. `mem` is what each
place holds, layer by layer; `want` is what it would hold if plans ran one after
another, and `misread` latches the first item that reads something else.

| Action | Code |
|---|---|
| `NextPlan` | the scheduler, as an environment: any plan that keeps its page rules (`Legal`) |
| `SubmitWriteBacks`, `WriteBackRaises` | `submit_write_backs`, and its exception path |
| `CopyAndZero` | `copy_cache_pages`, `zero_cache_pages` |
| `SubmitLoadBacks`, `LoadRaises` | `submit_load_backs`, `_start_loading`, `_start_restore`, `_retire_failed_load` |
| `LaunchForward` | the forward's prologue and its wait for each layer |
| `Run(s)` | what a stream item does when the device gets to it |
| `Poll` | `poll_results` |

A staging table is filled when a submission is made and uploaded when its stream
gets there, so a table reused too early sends another batch's rows. An event set is
reused when its load is over, and its flags keep their old value until they are
reset. The transport that signals layers by flags and the one that uses events are
both initial states.

`Legal` lets any operation take a row that a forward in flight still has: a request
aborted for NaN logits frees its pages under it. One case is set apart by
`BringsOvertake`: a load or a restore whose plan orders nothing behind that forward.
It is the disagreement of `restore_under_forward`; every other overtaking, of loads
and restores too, is in `host_transfer`.

### RWLock and Frontend: state and actions

An action is what one asyncio task does between two suspension points. In `RWLock`,
`task[t]` is where a task is, `notified` the sleepers whose wake-up is scheduled.
`Frontend` adds the clients (`Enter`, `ResumeClient`, `SendReturns`, `ReceiveLast`,
`ReceiveMore`, and the four ways to leave: `CancelEntering`, `CancelWaiting`,
`CancelSending`, `TokenizeRaises`), the output loop (`HandleOutput`, with `Put` for
the collector), `/abort_request` (`AbortByRid`), the trainer (`Pause`, `PauseFails`,
`Update`, `ResumeTrainer`, `Updated`, `Continue`, `Readmit`) and the engine as its
clients see it (`TakeAdd`, `TakeAbort`, `LapseAbort`, `Step`, `TakePause`, `AbortAll`,
`Drained`, `Rewrite`, `TakeResume`). Messages to the engine arrive in any order. A
token is its position and the version of the weights that made it.

A stream's outputs hold the new ids and are appended (`Delta`, `Given`), unless the
server sends raw ids without `stream_output`; those, like the outputs of a request
that does not stream, hold every id and replace what is pending. A pause's call may
raise: refused, or with its reply lost while the engine goes on pausing; both reopen
admission. An abort that reaches the engine before its request waits for it, and may
lapse first (`PENDING_ABORT_TTL`).

### GrammarHost: state and actions

The control thread plans (`Plan`), hands over, and commits (`AdvanceOnHost`,
`AdvancedOnHost`, `Commit`); the forward thread adds a `Batch` and releases matchers
(`AddBatch`, `FillNow`, `Release`); the main stream forks and samples (`Fork`,
`Sample`); the host node pops its batch, advances the previous one or waits for the
commit that does, and fills the masks. A batch is advanced by whoever claims it
first. A mask is the tokens it comes after, so a stale one is visible; a token
sampled under a stale mask may or may not fit its grammar.

## Runs

| Run | Checks | Shows |
|---|---|---|
| `block_pool` | `TypeOK`, `EmptyParentsQueuedOnce`, `CachesMatchOccupancy`, `NoFatalCheck`, `CapacityFormulaExact`, `PacksDensely`, `LandsInItsBucket` | the caches agree with the bits after any order of acquires and releases; an accepted acquire never fails half-way |
| `host` | `TypeOK`, `RowsOwnedOnce`, `ResultsInFlightExact`, `NoFailure`, `CoveredRunsOnItsReserve`, `PagesOwnedOnce`, `SlotsOwnedOnce`, `SnapshotPoolBalanced`, `RestoresLandedImages` | no leak, no miscounted forward, no undefined transition on an engine with a Host tier, mixed rounds, NaN results and aborts; an exempt request never lacks a page for its budget |
| `window` | `ForwardsKeepTheirPages`, `EveryRequestEnds` | exempt requests that still lack a page: the empty-round retraction resolves it |
| `decode_worker` | `EveryRequestEnds` | the decode role, transfers failing at any point, aborts in every state |
| `prefill_worker` | `HandOffHasItsToken`, `EveryRequestEnds` | the prefill role |
| `host_transfer` | `TypeOK`, `ProgramOrder`, `NoTicketLost`, `ImplementsCopyService` | copies on four streams read and write what they would in program order, and every ticket is acknowledged |
| `frontend` | `TypeOK`, `NobodyStranded`, `DeliversWhatWasMade`, `OneVersionPerRequest`, `NothingRunsUnwanted`, `ImplementsSharedExclusive`, `EverythingEnds` | clients against a trainer: every token once, of one version; nothing runs for nobody, but in three named ways |
| `grammar` | `TypeOK`, `MasksAreCurrent`, `MatchersAdvanceOnce`, `OutputEndsWithItsGrammar`, `ForwardsFindTheirMatchers`, `RetireNeverAllocates`, `NodeFreesNothing`, `EveryForwardCommits` | the races for a batch's advance are harmless, and every forward commits |
| `undeclared_budget_stall` | `NeverStalled` (violated) | see below |
| `restore_under_forward` | `RestoredWhole` (violated) | see below |
| `buffered_reader` | `BufferedHoldsNoReader` (violated) | see below |
| `state_leak` | `NoStateLeaks` (violated) | see below |

### Bounds

*Scheduler.* Three requests (two on the prefill node) are a victim, a beneficiary and
a bystander. The pool holds one long request and part of another, so admissions fail,
retractions and restores happen, and a restore competes with new prompts; one or two
blob slots and a snapshot pool of two or three pages make images refuse to fit. A
round's budget of two tokens splits the prompts of three into chunks. `OverlapDepth`
is 1, the larger of the two depths the code accepts. `SafeSteps` is small (64 in the
code) so that reserves are partial in some runs and full in others. The sets
`PromptSizes`, `Budgets` and `AbortStates` and the number `MaxGenerated` bound the
inputs. `host` aborts in the states around a suspension; `decode_worker` in all ten.

*Host transfer.* Two pages (symmetric), one slot, one block per tier and two layers:
a page changes hands, and a load is caught between its layers. `MaxPlans` is three
plans with flags and two with events, `MaxPlanOps` and `MaxOps` bound the operations.
The code has three event sets; the model has one, so that it is reused. `BringsOvertake`
is false in `host_transfer` and true in `restore_under_forward`.

*Frontend.* Four mixes, one per behaviour: a stream of three tokens with a stop
string; one of three whose outputs repeat every id; a stream beside a
parallel-sampling request; a batch of two prompts. One pause in each of its three
modes, which may fail (`PausesFail`; not in the two runs of a disagreement, which
need no failure), and one update. Clients may leave at any time.
They need not come back, so the system may rest and deadlock is not checked.

*Grammar.* Two grammars of two and three tokens, so that one ends inside a verified
round of two; four set-ups, with and without a host node, drafts and overlap, each
with its bound on forwards and on failing fills.

### Fairness

*Scheduler.* The event loop turns for ever: `WF(PlanStep \/ Commit)`. It polls
completed copies and peer notifications between two plans, so if one is ready again
and again one is delivered: `SF(Acknowledge)` and `SF(PeerNotifies)`. A copy and a
peer are assumed to answer in the end. Nobody is assumed to submit, to abort or to
see a transfer fail.

*Frontend, grammar.* `WF(Progress)`: the process, the engine and the device keep
running what can run, and a trainer that has paused resumes. Nobody has to come,
leave, pause or update, no pause has to fail and no abort to lapse. With the bounds no part can run for ever, so no fairness
between tasks is needed.

`host_transfer` states no fairness: its deadlock check (a rank rests only when
drained) with `NoTicketLost` says that the forward thread never waits for something
only its own later calls release.

### Four disagreements

*Undeclared budgets can wedge.* Prompts with `max_new_tokens = 0` reserve nothing at
admission (`scheduler/request.h:62-67`). Two of them mid-prefill in a full pool stop
the scheduler: the first one's chunk fails, head-of-line keeps the second from being
tried, the best-ranked victim is the blocker itself, nobody else is recorded as
blocked, and since a victim is retractable the round does not count as empty.
`forward.cpp:1020-1022` says such a victim "waits for a completion instead"; with
nothing in flight none comes. With declared budgets `EveryRequestEnds` holds.

*A load or a restore may land under a forward.* `cache/l2/executor.py:551-553` says of
a restore that "its destinations are overwritten whole". The pages of a request
aborted for NaN logits return while a forward still writes them. Zeroing, copying and
fenced stores order the load stream behind the execution stream; a plan that only
restores enqueues no such wait (`executor.py:873` waits for the default stream), and
the forward's last write may come after the restore's. A load is exposed in the same
way. `executor.py:561-563` and `execution/device.py:454-455, 542-543` say that loads
land on zeroed pages, which would order them; but an admission lists only the blocks
it acquires for zeroing, not a load's destinations
(`cache/coordinator/cache_admission.cpp:1003-1017, 1124-1127`).

*A paused engine buffers a reader's request.* `engine/async_llm.py:195-196` says that
the gate "prevents requests buffered by a paused scheduler from holding the
model-update reader lock". It is passed once per call; a batch, and a
parallel-sampling request after its warm-up, sends more while it holds the lock.

*A batch can leak its state.* `engine/async_llm.py:364` says "no per-request state
leaks". The clean-up is in the waiters, which run only once every prompt of a batch
is sent: one that fails to tokenize, or a client that leaves meanwhile, keeps the
earlier ones in `rid_to_state`, and `sigterm_watchdog` (733-741) waits for them.

Found on the way and not made runs of: after a restore the decode planned one step
ahead may ask for a page beyond the reserve and is refused, where
`docs/design/scheduler.md:1147` says a covered request "never needs a block it did
not reserve" (the tokens of its budget are covered: `CoveredRunsOnItsReserve`);
`/abort_request` removes the state of a request whose waiter then sleeps on with the
reader lock (`CutOff`); an update under a `keep` pause waits for a reader that the
pause froze (`HeldByPause`); three ways leave the engine generating for nobody, which
`NothingRunsUnwanted` excludes by name: a part cancelled while it is being sent, the
prompts that a failed batch leaves (`LeftByItsBatch`), and an abort that lapsed before
its request arrived; a pause whose reply is lost reopens admission while the engine
goes on pausing; a writer cancelled in its queue wakes
nobody (see `PatientSpec`). `EverythingEnds` excludes `CutOff` and `HeldByPause` by name.

## Proofs

Assumptions: `SchedulerConstants` (finite sets, positive bounds, the role) and
`PickGrants` (an allocator grants as many free elements as asked) for the scheduler;
for the frontend `TasksFinite`, `TasksAreClientsAndTrainer` and `BatchesDoNotStream`.
TLC evaluates them on each run.

### The scheduler

`SchedulerTheorems` proves `Spec => []IInv` and from it

- `TypeCorrect`: `TypeOK`;
- `RowsAreOwnedOnce`: no row of the request pool leaks or has two owners;
- `PagesAreOwnedOnce`: a page is free exactly when nothing refers to it, and no two
  requests share one;
- `SlotsAreOwnedOnce`: the same for blob slots;
- `RestoresAreOfLandedImages`: no restore runs while a store of its image is out.

The ownership invariants are not inductive alone. `RestoreDone` gives a row back or
hands it over depending on the request's state, so the proof must know in which
states a ticket can exist: `Tickets` says that a copy outliving its request belongs
to a `Finished` one, which no event revives, so a second ticket never overwrites the
first. `StoresKnown` says a suspended request lists exactly the stores its image
waits for; that makes `Landed` a sufficient guard for a restore. `Frontiers` bounds
the computed part by the prompt, which makes every page demand a natural number,
and hence makes every grant of `Pick` exact. `IInv` is their conjunction with the types and the three
ownership invariants.

The argument has three layers. `SchedulerLemmas` shows what a demand may be, what
a grant takes (`PagesGrow`, `RowsTake`) and what a release frees (`PagesDrop`,
`RowsReturn`, `SlotsDrop`), and that admissions, retraction and abort keep the books.
`SchedulerProofs` does the same for restores, acknowledgements and settling.
`SchedulerTheorems` has one lemma per action of `Next`, and the induction.

### The lock and the frontend

`RWLockProofs` proves, for any finite set of tasks,

- `LockCountersExact`: the counters count exactly who is inside and who waits,
  cancellations included;
- `LockImplementsSharedExclusive`: the refinement of `SharedExclusive`;
- `LockStrandsNobody`: whoever sleeps without a wake-up under way still has what it
  waits for. This one is for `PatientSpec`, in which no writer gives up waiting:
  `acquire_writer`'s `finally` lowers the count and notifies nobody, so a reader that
  waited for that writer alone sleeps on.

`FrontendProofs` first shows that the frontend drives the lock within `PatientSpec`
(`FrontendUsesTheLock`: its only writer is the trainer, whose wait for the lock nothing cancels), and
so inherits exclusion and wake-ups. `FrontendServesOneVersion` is the point of the
lock: all that a client is given comes from one version of the weights. It does not
follow from exclusion alone, since outputs cross two queues and a collector between
the engine and the client. `FrontendInv` says where they can be: a request is in the
lock from its first part to its end (`InTheLock`), nothing of it exists before
(`NotYetSent`), and while it is in, everything of it in any queue was made by the
current version (`MadeByToday`), which changes only under the writer. `WaitedFor`
covers the siblings that a failed batch leaves behind, whose waiters outlive the lock
but give their client nothing more.

### Only model-checked

Liveness under fairness is beyond the prover: `EveryRequestEnds`, `EverythingEnds`,
`EveryForwardCommits`. `ResultsInFlightExact` and `SnapshotPoolBalanced` count over
the queue of batches and fold over the slots, and `DeliversWhatWasMade` compares
concatenated sequences; both need induction over data. `ForwardsKeepTheirPages`,
`CoveredRunsOnItsReserve`, `HandOffHasItsToken`, `NoFailure`, `NothingRunsUnwanted`,
and everything about `BlockPool`, `BucketCapacity`, `HostCacheExecutor` (its
refinement of `CopyService` included) and `GrammarHost` rests on TLC.

## Not modelled

*Scheduler.* Prefix hits, and with them load-backs, the prefix index, publication and
eviction: they need token prefixes in the state of every request, while the
`host` run already has a million states without them. State groups and in-forward
checkpoints; the decode node's sparse landing of a sliding window (its run has no
sliding window); speculative decoding's wider steps; the debug knob that forces
retractions; flush; KV event streams; duplicated acknowledgements. L3 storage and the
`Prefetching` state, which sit on the prefix index. The capacity model, arithmetic
over group geometry that the scheduler model does not carry.

*Engine.* Agreement between mirrored ranks: every model is of one rank. Memory
release, the relay, and the transfer protocol of `ts-pd`, of which only the
notifications appear.

*Host transfer.* Sizing, owner translation beyond owned or not, address tables, and
which kernel moves a range.

*Frontend.* Batches that stream (`BatchesDoNotStream`), embeddings, tokenization,
text, logprobs, metrics, and control calls that overlap each other (a resume that
overlaps a pause's drain and fails it included).

*Grammar.* The automaton behind a matcher; the GIL, which the node never takes; the
middle stages of a pipeline; forwards of no token, which add no batch; warm-up, whose
`Clear` precedes `Init`. A Python reference keeps a batch alive until its commit, and
the batch its matchers: `ForwardsFindTheirMatchers` is about forwards still queued.

Wire formats, metrics, bindings, model code and kernels hold no state of these
protocols.
