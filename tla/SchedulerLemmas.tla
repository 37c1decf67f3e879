--------------------------- MODULE SchedulerLemmas ---------------------------
(***************************************************************************)
(* The inductive invariant of the scheduler, and the lemmas its proof      *)
(* rests on: page demands, what an admission grants, what a release frees, *)
(* and that the admissions of a round keep the books.                      *)
(***************************************************************************)
EXTENDS Scheduler, TLAPS, FiniteSetTheorems

-----------------------------------------------------------------------------
(* The inductive invariant. *)

StoreTypes == RequestTypes /\ ResourceTypes /\ ImageTypes /\ TransferTypes /\ FreeTypes

\* How far a request has been computed, by its state: a resident or suspended
\* prompt has not passed its end, a waiting one has not begun.
Frontiers ==
    \A r \in Requests :
        /\ state[r] \in {"New", "Bootstrapping", "Submitted"} => extent[r] = 0
        /\ state[r] = "Prefilling" => extent[r] <= prompt[r]
        /\ state[r] \in {"Retracted", "Restoring"} =>
              /\ shape[r] \in Suspendable
              /\ shape[r] = "Prefilling" => extent[r] <= prompt[r]

\* Which copies may be out, by the request's state.  A ticket that outlives its
\* request belongs to a Finished one, and Finished is for ever: no second ticket
\* overwrites the first.
Tickets ==
    \A r \in Requests :
        /\ RestoreInFlight(r) => state[r] \in {"Restoring", "Finished"}
        /\ ~RestoreInFlight(r) => snapshot_restores[r] = NoRestore
        /\ blob_slot[r] # None => state[r] \in {"Retracted", "Restoring"}
        /\ snapshot_stores[r] # None \/ r \in host_stores => state[r] \in {"Retracted", "Finished"}
        /\ pinned_stores[r] # {} => state[r] = "Finished"

\* A suspended request knows the stores its image still waits for.
StoresKnown ==
    \A r \in Requests :
        /\ state[r] = "Restoring" => pending_store_ops[r] = {}
        /\ state[r] = "Retracted" =>
              /\ snapshot_stores[r] # None <=> SnapshotOp(r) \in pending_store_ops[r]
              /\ r \in host_stores => HostOp(r) \in pending_store_ops[r]
              /\ pending_store_ops[r] \subseteq WriteBacksInFlight \cup {SnapshotOp(r)}

Bookkeeping == StoreTypes /\ Frontiers /\ Tickets /\ RowsOwnedOnce /\ PagesOwnedOnce /\ SlotsOwnedOnce
                 /\ StoresKnown

IInv == Bookkeeping /\ round \in Rounds /\ ControlTypes

-----------------------------------------------------------------------------
(* Arithmetic and page demands. *)

\* A product of naturals is one (the escalating reserve of AdmissionHeadroom).
LEMMA ProductNat == \A a, b \in Nat : a * b \in Nat
  BY SMT

\* Max2 and Min2 (std::max, std::min) stay among the integers they compare.
LEMMA MaxMin ==
    \A a, b \in Int : /\ Max2(a, b) \in Int /\ Max2(a, b) >= a /\ Max2(a, b) >= b
                      /\ Min2(a, b) \in Int /\ Min2(a, b) <= a /\ Min2(a, b) <= b
                      /\ (a \in Nat /\ b \in Nat => Min2(a, b) \in Nat)
  BY DEF Max2, Min2

\* A longer request has no fewer sliding-window pages.
LEMMA WindowMonotone ==
    ASSUME NEW m \in Nat, NEW n \in Nat, m <= n
    PROVE  WindowPages(m) \in Nat /\ WindowPages(n) \in Nat /\ WindowPages(m) <= WindowPages(n)
  <1>. DEFINE W(k) == {u \in WindowAt : u <= k}
  <1>1. IsFiniteSet(WindowAt) /\ WindowAt \subseteq Nat  BY SchedulerConstants, Zenon
  <1>2. W(n) \in SUBSET WindowAt /\ W(m) \in SUBSET W(n)
    <2>1. \A u \in WindowAt : u <= m => u <= n  BY <1>1
    <2>. QED  BY <2>1, Zenon
  <1>3. IsFiniteSet(W(n))  BY <1>1, <1>2, FS_Subset, Zenon
  <1>4. Cardinality(W(m)) <= Cardinality(W(n)) /\ IsFiniteSet(W(m))  BY <1>2, <1>3, FS_Subset, Zenon
  <1>5. Cardinality(W(m)) \in Nat /\ Cardinality(W(n)) \in Nat  BY <1>3, <1>4, FS_CardinalityType, Zenon
  <1>. QED  BY <1>4, <1>5, Zenon DEF WindowPages

\* The reserve of a retracted or admitted request is a number of pages.
LEMMA HeadroomNat ==
    ASSUME RequestTypes, NEW r \in Requests
    PROVE  AdmissionHeadroom(r) \in Nat
  <1>1. retraction_count[r] \in Nat /\ max_new_tokens[r] \in Nat /\ generated[r] \in Nat
    BY Zenon DEF RequestTypes
  <1>2. SafeSteps * (1 + retraction_count[r]) \in Nat
    <2>1. SafeSteps \in Nat /\ 1 + retraction_count[r] \in Nat  BY <1>1, SchedulerConstants
    <2>. QED  BY <2>1, ProductNat, Zenon
  <1>3. RemainingNewTokens(r) \in Nat  BY <1>1 DEF RemainingNewTokens, Max2
  <1>4. \A a, b \in Nat : Min2(a, b) \in Nat  BY Zenon DEF Min2
  <1>. QED  BY <1>2, <1>3, <1>4, Zenon DEF AdmissionHeadroom

\* What an admission reserves is never negative (groupReserveTokens).
LEMMA ReservesNat ==
    /\ \A c \in BOOLEAN : DecodeTokens(c) \in Nat
    /\ \A h, m \in Nat : Prepaid(h, m) \in Nat
    /\ \A c \in BOOLEAN, p \in Nat : FullReserve(c, p) \in Nat
    /\ \A c \in BOOLEAN, p, l \in Nat : WindowReserve(c, p, l) \in Nat
  <1>1. \A c \in BOOLEAN : DecodeTokens(c) \in Nat  BY Zenon DEF DecodeTokens
  <1>2. \A h, m \in Nat : Prepaid(h, m) \in Nat  BY DEF Prepaid
  <1>3. \A c \in BOOLEAN, p \in Nat : FullReserve(c, p) \in Nat  BY Zenon DEF FullReserve, DecodeTokens, Max2
  <1>4. ASSUME NEW c \in BOOLEAN, NEW p \in Nat, NEW l \in Nat PROVE WindowReserve(c, p, l) \in Nat
    <2>1. Min2(p, Min2(l, WindowLookback)) \in Nat  BY SchedulerConstants, Zenon DEF Min2
    <2>. QED  BY <1>1, <2>1, Zenon DEF WindowReserve, Max2
  <1>. QED  BY <1>1, <1>2, <1>3, <1>4, Zenon

\* What an admission asks of the allocator is never negative.
LEMMA MissingNat ==
    ASSUME TypeOK, NEW r \in Requests, NEW n \in Nat, NEW k \in Nat
    PROVE  Missing(r, n, k) \in Nat
  <1>. DEFINE grown == {u \in WindowAt : window[r] < u /\ u <= extent[r] + n + k}
              held == Cardinality(table[r]) - WindowPages(window[r])
  <1>1. extent[r] \in Nat /\ window[r] \in Nat /\ table[r] \in SUBSET Pages  BY Zenon DEF TypeOK, ResourceTypes
  <1>2. Cardinality(table[r]) \in Nat
    BY <1>1, SchedulerConstants, FS_Subset, FS_CardinalityType, Zenon
  <1>3. WindowPages(window[r]) \in Nat  BY <1>1, WindowMonotone
  <1>4. held \in Int  BY <1>2, <1>3
  <1>5. Cardinality(grown) \in Nat
    <2>1. IsFiniteSet(WindowAt) /\ grown \in SUBSET WindowAt  BY SchedulerConstants, Zenon
    <2>. QED  BY <2>1, FS_Subset, FS_CardinalityType, Zenon
  <1>. HIDE DEF grown, held
  <1>6. Max2(0, extent[r] + n + k - held) \in Nat  BY <1>1, <1>4 DEF Max2
  <1>7. Max2(0, extent[r] + n + k - held) + Cardinality(grown) \in Nat  BY <1>5, <1>6
  <1>. QED  BY <1>7, Zenon DEF Missing, grown, held

\* The page demands of a chunk (MakeGroupDemands) are never negative, and a
\* restore asks at least for the pages its image fills.
LEMMA DemandNat ==
    ASSUME TypeOK, NEW r \in Requests, NEW t \in Nat
    PROVE  /\ ChunkDemand(r, t) \in Nat /\ ChunkReserve(r, t) \in Nat
           /\ t <= prompt[r] => FirstChunkDemand(r, t) \in Nat /\ FirstChunkWindow(r, t) \in Nat
           /\ (shape[r] = "Prefilling" => extent[r] <= prompt[r]) =>
                 RestoreDemand(r) \in Nat /\ RestoreWindow(r) \in Nat /\ PagesFor(extent[r]) <= RestoreDemand(r)
  <1>1. extent[r] \in Nat /\ prompt[r] \in Nat
    BY Zenon DEF TypeOK, ResourceTypes, RequestTypes
  <1>2. AdmissionHeadroom(r) \in Nat  BY HeadroomNat, Zenon DEF TypeOK
  <1>3. ChunkReserve(r, t) \in Nat
    <2>1. (extent[r] + t = prompt[r]) \in BOOLEAN  BY Zenon
    <2>. QED  BY <2>1, ReservesNat, Zenon DEF ChunkReserve
  <1>4. ChunkDemand(r, t) \in Nat  BY <1>3, MissingNat, Zenon DEF ChunkDemand
  <1>5. ASSUME t <= prompt[r] PROVE FirstChunkDemand(r, t) \in Nat /\ FirstChunkWindow(r, t) \in Nat
    <2>1. prompt[r] - t \in Nat  BY <1>1, <1>5
    <2>2. (IF Role = "P" THEN 0 ELSE AdmissionHeadroom(r)) \in Nat  BY <1>2, Zenon
    <2>3. FirstChunkPrepaid(r, t) \in Nat  BY <2>1, <2>2, ReservesNat, Zenon DEF FirstChunkPrepaid
    <2>4. LaterChunkTokens(r, t) \in Nat  BY <2>1, Zenon DEF LaterChunkTokens
    <2>5. (t = prompt[r]) \in BOOLEAN  BY Zenon
    <2>6. /\ FullReserve(t = prompt[r], FirstChunkPrepaid(r, t)) \in Nat
          /\ WindowReserve(t = prompt[r], FirstChunkPrepaid(r, t), LaterChunkTokens(r, t)) \in Nat
      BY <2>3, <2>4, <2>5, ReservesNat, Zenon
    <2>7. FirstChunkWindow(r, t) \in Nat  BY <2>6 DEF FirstChunkWindow
    <2>8. WindowPages(FirstChunkWindow(r, t)) \in Nat  BY <2>7, WindowMonotone
    <2>. QED  BY <2>6, <2>7, <2>8 DEF FirstChunkDemand
  <1>6. ASSUME shape[r] = "Prefilling" => extent[r] <= prompt[r]
        PROVE  RestoreDemand(r) \in Nat /\ RestoreWindow(r) \in Nat /\ PagesFor(extent[r]) <= RestoreDemand(r)
    <2>1. (IF shape[r] = "Prefilling" THEN prompt[r] - extent[r] ELSE 0) \in Nat  BY <1>1, <1>6
    <2>2. RestorePrepaid(r) \in Nat  BY <1>2, <2>1, ReservesNat, Zenon DEF RestorePrepaid
    <2>3. (shape[r] # "Prefilling") \in BOOLEAN  BY Zenon
    <2>4. /\ FullReserve(shape[r] # "Prefilling", RestorePrepaid(r)) \in Nat
          /\ WindowReserve(shape[r] # "Prefilling", RestorePrepaid(r), 0) \in Nat
      BY <2>2, <2>3, ReservesNat, Zenon
    <2>5. RestoreWindow(r) \in Nat /\ extent[r] <= RestoreWindow(r)  BY <1>1, <2>4 DEF RestoreWindow
    <2>6. /\ WindowPages(RestoreWindow(r)) \in Nat /\ WindowPages(extent[r]) \in Nat
          /\ WindowPages(extent[r]) <= WindowPages(RestoreWindow(r))
      BY <1>1, <2>5, WindowMonotone, Zenon
    <2>. QED  BY <1>1, <2>4, <2>5, <2>6 DEF RestoreDemand, PagesFor
  <1>. QED  BY <1>3, <1>4, <1>5, <1>6, Zenon

-----------------------------------------------------------------------------
(* What the allocators grant. *)

\* A demand that fits is granted from the free pages.
LEMMA PickPages ==
    ASSUME FreeTypes, NEW n \in Nat, Fits(n)
    PROVE  /\ Pick(free_pages, n) \subseteq free_pages
           /\ IsFiniteSet(Pick(free_pages, n)) /\ Cardinality(Pick(free_pages, n)) = n
  <1>1. free_pages \in SUBSET Pages /\ IsFiniteSet(Pages)  BY SchedulerConstants, Zenon DEF FreeTypes
  <1>2. IsFiniteSet(free_pages) /\ Cardinality(free_pages) \in Nat
    BY <1>1, FS_Subset, FS_CardinalityType, Zenon
  <1>3. n \in 0 .. Cardinality(free_pages)  BY <1>2 DEF Fits
  <1>4. Pick(free_pages, n) \subseteq free_pages /\ Cardinality(Pick(free_pages, n)) = n
    BY <1>1, <1>3, PickGrants, Zenon
  <1>. QED  BY <1>2, <1>4, FS_Subset, Zenon

\* A free row, and a free blob slot, is granted when there is one.
LEMMA PickOne ==
    ASSUME NEW S, S \in SUBSET Rows \/ S \in SUBSET Slots, S # {}
    PROVE  Pick(S, 1) \subseteq S
  <1>1. IsFiniteSet(S)  BY SchedulerConstants, FS_Subset, Zenon
  <1>2. Cardinality(S) \in Nat \ {0}  BY <1>1, FS_CardinalityType, FS_EmptySet, Zenon
  <1>3. 1 \in 0 .. Cardinality(S)  BY <1>2
  <1>. QED  BY <1>3, PickGrants, Zenon

\* A store publishes pages of the request's own table.
LEMMA CompletedPagesOwn ==
    ASSUME TypeOK, NEW r \in Requests
    PROVE  CompletedPages(r) \subseteq table[r]
  <1>1. table[r] \in SUBSET Pages /\ extent[r] \in Nat  BY Zenon DEF TypeOK, ResourceTypes
  <1>2. Cardinality(table[r]) \in Nat
    BY <1>1, SchedulerConstants, FS_Subset, FS_CardinalityType, Zenon
  <1>3. PagesFor(extent[r]) \in Nat  BY <1>1, WindowMonotone DEF PagesFor
  <1>4. Min2(PagesFor(extent[r]), Cardinality(table[r])) \in 0 .. Cardinality(table[r])
    BY <1>2, <1>3 DEF Min2
  <1>. QED  BY <1>1, <1>4, PickGrants, Zenon DEF CompletedPages

-----------------------------------------------------------------------------
(* The round's record. *)

\* Each update of the plan under construction (PlanBuild) yields another one:
\* its phase ends,
LEMMA LeftRound ==
    ASSUME NEW rd \in Rounds, NEW phase \in Phases
    PROVE  LeaveFor(rd, phase) \in Rounds
  BY Zenon DEF LeaveFor, Rounds

\* a candidate is passed over,
LEMMA TriedRound ==
    ASSUME NEW rd \in Rounds, NEW r \in Requests
    PROVE  Tried(rd, r) \in Rounds
  BY Zenon DEF Tried, Rounds

\* a candidate lacks pages (AdmissionFeedback::NoteCapacityBlocked),
LEMMA BlockedRound ==
    ASSUME NEW rd \in Rounds, NEW r \in Requests
    PROVE  NoteCapacityBlocked(rd, r) \in Rounds
  <1>1. rd.blocked \in Seq(Requests) /\ rd.blocker \in Requests \cup {None}  BY Zenon DEF Rounds
  <1>2. Append(rd.blocked, r) \in Seq(Requests)  BY <1>1
  <1>. QED  BY <1>1, <1>2, Zenon DEF NoteCapacityBlocked, Rounds

\* a chunk joins the plan (PlanBuild::PushPrefill),
LEMMA PrefillRound ==
    ASSUME NEW rd \in Rounds, NEW r \in Requests, NEW t \in Int, NEW kind \in Kinds
    PROVE  PushPrefill(rd, r, t, kind) \in Rounds
  <1>1. rd.rows \cup {<<r, kind>>} \in SUBSET (Requests \X Kinds)  BY DEF Rounds
  <1>2. rd.token_budget - t \in Int  BY DEF Rounds
  <1>. QED  BY <1>1, <1>2, Zenon DEF PushPrefill, Rounds

\* a decode joins it (PlanBuild::PushDecode),
LEMMA DecodeRound ==
    ASSUME NEW rd \in Rounds, NEW r \in Requests
    PROVE  PushDecode(rd, r) \in Rounds
  <1>1. rd.rows \cup {<<r, "decode">>} \in SUBSET (Requests \X Kinds)  BY DEF Rounds, Kinds
  <1>2. (IF Role = "D" THEN rd.token_budget ELSE rd.token_budget - 1) \in Int  BY DEF Rounds
  <1>. QED  BY <1>1, <1>2, Zenon DEF PushDecode, Rounds

\* a request goes to or comes from the peer,
LEMMA RemoteRound ==
    ASSUME NEW rd \in Rounds, NEW r \in Requests
    PROVE  PushRemote(rd, r) \in Rounds
  BY Zenon DEF PushRemote, Rounds

\* a restore starts, or one that does not fit seals the local tiers,
LEMMA RestoreRound ==
    ASSUME NEW rd \in Rounds, NEW r \in Requests
    PROVE  /\ [rd EXCEPT !.scheduled = @ \cup {r}, !.restored = TRUE, !.cache_ops = TRUE] \in Rounds
           /\ [rd EXCEPT !.sealed = TRUE] \in Rounds
  BY Zenon DEF Rounds

\* and a victim leaves: suspended, aborted, its pages promised.
LEMMA VictimRound ==
    ASSUME NEW rd \in Rounds, NEW b \in Requests \cup {None}
    PROVE  /\ [rd EXCEPT !.cache_ops = TRUE] \in Rounds
           /\ [rd EXCEPT !.aborted = TRUE] \in Rounds
           /\ [rd EXCEPT !.blocker = b] \in Rounds
  BY Zenon DEF Rounds

\* The grammars lead from a phase to a phase.
LEMMA NextPhase ==
    ASSUME NEW rd \in Rounds
    PROVE  /\ AfterPrefillWork(rd) \in Phases /\ AfterPhase(rd) \in Phases
           /\ Leave(rd) \in Rounds
  <1>1. AfterPrefillWork(rd) \in Phases  BY Zenon DEF AfterPrefillWork, Phases
  <1>2. AfterPhase(rd) \in Phases  BY <1>1, Zenon DEF AfterPhase, Phases
  <1>3. Leave(rd) \in Rounds  BY <1>2, Zenon DEF Leave, LeaveFor, Rounds
  <1>. QED  BY <1>1, <1>2, <1>3, Zenon

\* A plan starts as one.
LEMMA IdleRoundType == IdleRound \in Rounds
  BY DEF IdleRound, Rounds, Phases

-----------------------------------------------------------------------------
(* Ownership: what taking and returning a page, a row or a slot preserves.  *)

\* The pages in somebody's hands, one by one.
LEMMA HeldPagesElement ==
    ASSUME NEW t, NEW rs, NEW ps, NEW x
    PROVE  x \in HeldPages(t, rs, ps) <=>
              \/ \E q \in Requests : x \in t[q]
              \/ \E q \in Requests : x \in rs[q].pages
              \/ \E o \in PinnedOps : x \in ps[o]
  BY Zenon DEF HeldPages

\* The pages held before and after a step, element by element.
LEMMA HeldPagesNow ==
    \A x : x \in HeldPages(table, snapshot_restores, pinned_stores) <=>
              \/ \E q \in Requests : x \in table[q]
              \/ \E q \in Requests : x \in snapshot_restores[q].pages
              \/ \E o \in PinnedOps : x \in pinned_stores[o]
  BY HeldPagesElement, Zenon

\* The same, after the step.
LEMMA HeldPagesThen ==
    \A x : x \in HeldPages(table', snapshot_restores', pinned_stores') <=>
              \/ \E q \in Requests : x \in table'[q]
              \/ \E q \in Requests : x \in snapshot_restores'[q].pages
              \/ \E o \in PinnedOps : x \in pinned_stores'[o]
  BY HeldPagesElement, Zenon

\* Fresh pages join the table of a request that (still) holds pages.
LEMMA PagesGrow ==
    ASSUME ResourceTypes, TransferTypes, FreeTypes, PagesOwnedOnce,
           NEW r \in Requests, NEW fresh, fresh \subseteq free_pages,
           table' = [table EXCEPT ![r] = @ \cup fresh], free_pages' = free_pages \ fresh,
           UNCHANGED <<snapshot_restores, pinned_stores>>,
           \A q \in Requests \ {r} : state'[q] = state[q], state'[r] \in HoldsPages
    PROVE  PagesOwnedOnce'
  <1>. DEFINE Held == HeldPages(table, snapshot_restores, pinned_stores)
              HeldNext == HeldPages(table', snapshot_restores', pinned_stores')
  <1>1. table \in [Requests -> SUBSET Pages]  BY Zenon DEF ResourceTypes
  <1>2. table'[r] = table[r] \cup fresh /\ \A q \in Requests \ {r} : table'[q] = table[q]
    BY <1>1, Zenon
  <1>3. \A x : x \in HeldNext <=> x \in Held \/ x \in fresh
    <2>. SUFFICES ASSUME NEW x PROVE x \in HeldNext <=> x \in Held \/ x \in fresh  BY Zenon
    <2>1. x \in Held <=> \/ \E q \in Requests : x \in table[q]
                         \/ \E q \in Requests : x \in snapshot_restores[q].pages
                         \/ \E o \in PinnedOps : x \in pinned_stores[o]
      BY HeldPagesNow, Zenon
    <2>2. x \in HeldNext <=> \/ \E q \in Requests : x \in table'[q]
                             \/ \E q \in Requests : x \in snapshot_restores'[q].pages
                             \/ \E o \in PinnedOps : x \in pinned_stores'[o]
      BY HeldPagesThen, Zenon
    <2>3. (\E q \in Requests : x \in table'[q]) <=> (\E q \in Requests : x \in table[q]) \/ x \in fresh
      BY <1>2, Zenon
    <2>. HIDE DEF Held, HeldNext
    <2>. QED  BY <2>1, <2>2, <2>3, Zenon
  <1>4. free_pages = Pages \ Held  BY Zenon DEF PagesOwnedOnce
  <1>5. free_pages' = Pages \ HeldNext
    <2>. HIDE DEF Held, HeldNext
    <2>. QED  BY <1>3, <1>4, Zenon
  <1>6. \A q \in Requests : /\ fresh \cap table[q] = {}
                            /\ fresh \cap snapshot_restores[q].pages = {}
                            /\ fresh \cap pinned_stores[q] = {}
    <2>1. \A x \in fresh : x \notin Held  BY <1>4, Zenon DEF Held
    <2>. QED  BY <2>1, HeldPagesElement, Zenon DEF PinnedOps
  <1>7. \A p, q \in Requests : p # q =>
          /\ table'[p] \cap table'[q] = {}
          /\ snapshot_restores'[p].pages \cap table'[q] = {}
          /\ snapshot_restores'[p].pages \cap snapshot_restores'[q].pages = {}
          /\ pinned_stores'[p] \cap table'[q] = {}
    <2>. SUFFICES ASSUME NEW p \in Requests, NEW q \in Requests, p # q
                  PROVE  /\ table'[p] \cap table'[q] = {}
                         /\ snapshot_restores'[p].pages \cap table'[q] = {}
                         /\ snapshot_restores'[p].pages \cap snapshot_restores'[q].pages = {}
                         /\ pinned_stores'[p] \cap table'[q] = {}
      BY Zenon
    <2>1. /\ table[p] \cap table[q] = {}
          /\ snapshot_restores[p].pages \cap table[q] = {}
          /\ snapshot_restores[p].pages \cap snapshot_restores[q].pages = {}
          /\ pinned_stores[p] \cap table[q] = {}
      BY Zenon DEF PagesOwnedOnce
    <2>. QED  BY <1>2, <1>6, <2>1
  <1>8. \A q \in Requests : table'[q] # {} => state'[q] \in HoldsPages
    BY <1>2, Zenon DEF PagesOwnedOnce
  <1>. QED  BY <1>5, <1>7, <1>8, Zenon DEF PagesOwnedOnce

\* The tables of S are freed; a copy that holds some of their pages keeps them,
\* a store of a request of S among them.
LEMMA PagesDrop ==
    ASSUME ResourceTypes, TransferTypes, FreeTypes, PagesOwnedOnce,
           NEW S, S \subseteq Requests,
           table' = [q \in Requests |-> IF q \in S THEN {} ELSE table[q]],
           DropPages(UNION {table[q] : q \in S}),
           UNCHANGED snapshot_restores,
           \A o \in PinnedOps : \/ pinned_stores'[o] = pinned_stores[o]
                                \/ /\ o \in S /\ pinned_stores[o] = {}
                                   /\ pinned_stores'[o] \subseteq table[o],
           \A q \in Requests \ S : state[q] \in HoldsPages => state'[q] \in HoldsPages
    PROVE  PagesOwnedOnce'
  <1>. DEFINE Held == HeldPages(table, snapshot_restores, pinned_stores)
              HeldNext == HeldPages(table', snapshot_restores', pinned_stores')
              Dropped == UNION {table[q] : q \in S}
  <1>1. table \in [Requests -> SUBSET Pages]  BY Zenon DEF ResourceTypes
  <1>2. \A q \in Requests : table'[q] = IF q \in S THEN {} ELSE table[q]  BY Zenon
  <1>3. ASSUME NEW x PROVE /\ x \in HeldNext => x \in Held
                           /\ x \in Held => x \in HeldNext \/ x \in Dropped
                           /\ x \in Dropped => x \in Held
    <2>1. x \in Held <=> \/ \E q \in Requests : x \in table[q]
                         \/ \E q \in Requests : x \in snapshot_restores[q].pages
                         \/ \E o \in PinnedOps : x \in pinned_stores[o]
      BY HeldPagesNow, Zenon
    <2>2. x \in HeldNext <=> \/ \E q \in Requests : x \in table'[q]
                             \/ \E q \in Requests : x \in snapshot_restores'[q].pages
                             \/ \E o \in PinnedOps : x \in pinned_stores'[o]
      BY HeldPagesThen, Zenon
    <2>3. x \in Dropped <=> \E q \in S : x \in table[q]  BY Zenon
    <2>. HIDE DEF Held, HeldNext, Dropped
    <2>4. x \in HeldNext => x \in Held
      BY <1>2, <2>1, <2>2, Zenon
    <2>5. x \in Held => x \in HeldNext \/ x \in Dropped
      BY <1>2, <2>1, <2>2, <2>3, Zenon
    <2>. QED  BY <2>1, <2>3, <2>4, <2>5, Zenon
  <1>4. free_pages = Pages \ Held  BY Zenon DEF PagesOwnedOnce
  <1>5. free_pages' = free_pages \cup (Dropped \ HeldNext)  BY Zenon DEF DropPages
  <1>6. Dropped \subseteq Pages  BY <1>1, Zenon
  <1>7. free_pages' = Pages \ HeldNext
    <2>. HIDE DEF Held, HeldNext, Dropped
    <2>. QED  BY <1>3, <1>4, <1>5, <1>6, Zenon
  <1>8. ASSUME NEW p \in Requests, NEW q \in Requests, p # q
        PROVE  /\ table'[p] \cap table'[q] = {}
               /\ snapshot_restores'[p].pages \cap table'[q] = {}
               /\ snapshot_restores'[p].pages \cap snapshot_restores'[q].pages = {}
               /\ pinned_stores'[p] \cap table'[q] = {}
    <2>1. /\ table[p] \cap table[q] = {}
          /\ snapshot_restores[p].pages \cap table[q] = {}
          /\ snapshot_restores[p].pages \cap snapshot_restores[q].pages = {}
          /\ pinned_stores[p] \cap table[q] = {}
      BY <1>8, Zenon DEF PagesOwnedOnce
    <2>2. p \in PinnedOps  BY Zenon DEF PinnedOps
    <2>. QED  BY <1>2, <2>1, <2>2, Zenon
  <1>9. \A q \in Requests : table'[q] # {} => state'[q] \in HoldsPages
    BY <1>2, Zenon DEF PagesOwnedOnce
  <1>. QED  BY <1>7, <1>8, <1>9, Zenon DEF PagesOwnedOnce

\* States in which a request owns a row itself (a Restoring one's is its
\* ticket's).
Seated == HoldsPages \ {"Restoring"}

\* A free row goes to a request that had none and now runs.
LEMMA RowsTake ==
    ASSUME ResourceTypes, TransferTypes, FreeTypes, RowsOwnedOnce,
           NEW r \in Requests, NEW i \in free_rows, state[r] \notin Seated, state'[r] \in Seated,
           row' = [row EXCEPT ![r] = i], free_rows' = free_rows \ {i}, UNCHANGED snapshot_restores,
           \A q \in Requests \ {r} : state'[q] = state[q]
    PROVE  RowsOwnedOnce'
  <1>1. row \in [Requests -> Rows \cup {None}] /\ i \in Rows /\ i # None
    BY SchedulerConstants, Zenon DEF ResourceTypes, FreeTypes
  <1>2. row'[r] = i /\ \A q \in Requests \ {r} : row'[q] = row[q]  BY <1>1, Zenon
  <1>3. \A q \in Requests : row[q] # i /\ snapshot_restores[q].row # i  BY <1>1, Zenon DEF RowsOwnedOnce
  <1>4. row[r] = None  BY Zenon DEF RowsOwnedOnce, Seated
  <1>5. ASSUME NEW j \in Rows
        PROVE  j \in free_rows' <=> \A q \in Requests : row'[q] # j /\ snapshot_restores'[q].row # j
    <2>1. CASE j = i  BY <1>2, <2>1, Zenon
    <2>2. CASE j # i
      <3>1. j \in free_rows' <=> j \in free_rows  BY <2>2, Zenon
      <3>2. \A q \in Requests : row'[q] # j <=> row[q] # j
        BY <1>2, <1>4, <2>2, SchedulerConstants, Zenon
      <3>. QED  BY <3>1, <3>2, Zenon DEF RowsOwnedOnce
    <2>. QED  BY <2>1, <2>2, Zenon
  <1>6. ASSUME NEW p \in Requests, NEW q \in Requests
        PROVE  /\ row'[p] # None /\ row'[p] = row'[q] => p = q
               /\ RestoreInFlight(p)' /\ snapshot_restores'[p].row = snapshot_restores'[q].row => p = q
               /\ row'[p] # None => row'[p] # snapshot_restores'[q].row
    BY <1>2, <1>3 DEF RowsOwnedOnce, RestoreInFlight
  <1>7. \A q \in Requests : row'[q] # None <=> state'[q] \in HoldsPages \ {"Restoring"}
    BY <1>1, <1>2, Zenon DEF RowsOwnedOnce, Seated
  <1>. QED  BY <1>5, <1>6, <1>7, Zenon DEF RowsOwnedOnce

\* The rows of S return to the pool with requests that stop running.
LEMMA RowsReturn ==
    ASSUME ResourceTypes, TransferTypes, FreeTypes, RowsOwnedOnce,
           NEW S, S \subseteq Requests,
           row' = [q \in Requests |-> IF q \in S THEN None ELSE row[q]],
           free_rows' = free_rows \cup ({row[q] : q \in S} \ {None}),
           UNCHANGED snapshot_restores,
           \A q \in S : state'[q] \notin Seated,
           \A q \in Requests \ S : state'[q] \in Seated <=> state[q] \in Seated
    PROVE  RowsOwnedOnce'
  <1>1. \A q \in Requests : row'[q] = IF q \in S THEN None ELSE row[q]  BY Zenon
  <1>2. None \notin Rows  BY SchedulerConstants, Zenon
  <1>3. ASSUME NEW j \in Rows
        PROVE  j \in free_rows' <=> \A q \in Requests : row'[q] # j /\ snapshot_restores'[q].row # j
    <2>1. j \in free_rows' <=> j \in free_rows \/ \E q \in S : row[q] = j  BY <1>2, Zenon
    <2>2. j \in free_rows <=> \A q \in Requests : row[q] # j /\ snapshot_restores[q].row # j
      BY Zenon DEF RowsOwnedOnce
    <2>3. \A p \in S, q \in Requests :
            row[p] = j => snapshot_restores[q].row # j /\ (row[q] = j => q = p)
      BY <1>2 DEF RowsOwnedOnce
    <2>. QED  BY <1>1, <1>2, <2>1, <2>2, <2>3, Zenon
  <1>4. ASSUME NEW p \in Requests, NEW q \in Requests
        PROVE  /\ row'[p] # None /\ row'[p] = row'[q] => p = q
               /\ RestoreInFlight(p)' /\ snapshot_restores'[p].row = snapshot_restores'[q].row => p = q
               /\ row'[p] # None => row'[p] # snapshot_restores'[q].row
    BY <1>1, Zenon DEF RowsOwnedOnce, RestoreInFlight
  <1>5. \A q \in Requests : row'[q] # None <=> state'[q] \in HoldsPages \ {"Restoring"}
    BY <1>1, Zenon DEF RowsOwnedOnce, Seated
  <1>. QED  BY <1>3, <1>4, <1>5, Zenon DEF RowsOwnedOnce


\* The slots in somebody's hands, one by one.
LEMMA HeldSlotsElement ==
    ASSUME NEW x
    PROVE  x \in HeldSlots(blob_slot, snapshot_stores, snapshot_restores)
              <=> \E q \in Requests : x \in SlotsOf(q)
  BY Zenon DEF HeldSlots, SlotsOf

\* References to slots are dropped, and none is added.
LEMMA SlotsDrop ==
    ASSUME FreeTypes, SlotsOwnedOnce,
           NEW D, D \subseteq Slots \cup {None}, DropSlots(D),
           \A q \in Requests : SlotsOf(q)' \subseteq SlotsOf(q) \cup {None},
           \A q \in Requests : SlotsOf(q) \subseteq SlotsOf(q)' \cup D
    PROVE  SlotsOwnedOnce' /\ free_slots' \subseteq Slots /\ blob_pages' \in [Slots -> Nat]
  <1>. DEFINE Held == HeldSlots(blob_slot, snapshot_stores, snapshot_restores)
  <1>1. \A x : x \in Held <=> \E q \in Requests : x \in SlotsOf(q)  BY HeldSlotsElement, Zenon
  <1>2. \A x : x \in Held' <=> \E q \in Requests : x \in SlotsOf(q)'  BY Zenon DEF HeldSlots, SlotsOf
  <1>3. None \notin Slots  BY SchedulerConstants, Zenon
  <1>4. free_slots = Slots \ Held  BY Zenon DEF SlotsOwnedOnce
  <1>5. free_slots' = free_slots \cup ((D \ {None}) \ Held')  BY Zenon DEF DropSlots
  <1>6. free_slots' = Slots \ Held'
    <2>. HIDE DEF Held
    <2>1. \A x \in Slots : x \in Held' => x \in Held  BY <1>1, <1>2, <1>3
    <2>2. \A x \in Slots : x \in Held => x \in Held' \/ x \in D  BY <1>1, <1>2, Zenon
    <2>. QED  BY <1>3, <1>4, <1>5, <2>1, <2>2, Zenon
  <1>7. \A p, q \in Requests : p # q => SlotsOf(p)' \cap SlotsOf(q)' \subseteq {None}
    <2>. SUFFICES ASSUME NEW p \in Requests, NEW q \in Requests, p # q
                  PROVE  SlotsOf(p)' \cap SlotsOf(q)' \subseteq {None}
      BY Zenon
    <2>1. SlotsOf(p) \cap SlotsOf(q) \subseteq {None}  BY Zenon DEF SlotsOwnedOnce
    <2>. QED  BY <2>1, Zenon
  <1>8. blob_pages' \in [Slots -> Nat]  BY Zenon DEF DropSlots, FreeTypes
  <1>. QED  BY <1>6, <1>7, <1>8, Zenon DEF SlotsOwnedOnce

-----------------------------------------------------------------------------
(* Each movement of resources keeps the books. *)

\* The bookkeeping includes the types.
LEMMA Typed == IInv => TypeOK
  BY Zenon DEF IInv, Bookkeeping, StoreTypes, TypeOK

\* A step that moves nothing keeps them.
LEMMA NothingMoves ==
    ASSUME Bookkeeping, UNCHANGED <<request, resources, images, transfers, free>>
    PROVE  Bookkeeping'
  <1>. USE DEF Bookkeeping, request, resources, images, transfers, free
  <1>1. StoreTypes'
    BY Zenon DEF StoreTypes, RequestTypes, ResourceTypes, ImageTypes, TransferTypes, FreeTypes
  <1>2. Frontiers'  BY Zenon DEF Frontiers
  <1>3. Tickets'  BY Zenon DEF Tickets, RestoreInFlight
  <1>4. RowsOwnedOnce'  BY Zenon DEF RowsOwnedOnce, RestoreInFlight
  <1>5. PagesOwnedOnce'  BY Zenon DEF PagesOwnedOnce
  <1>6. SlotsOwnedOnce'  BY Zenon DEF SlotsOwnedOnce, SlotsOf
  <1>7. StoresKnown'  BY Zenon DEF StoresKnown, WriteBacksInFlight
  <1>. QED  BY <1>1, <1>2, <1>3, <1>4, <1>5, <1>6, <1>7, Zenon

\* A step of a request that is neither waiting, suspended nor over, and is not
\* afterwards, leaves images and copies as they were: their books stand.
LEMMA ImagesStand ==
    ASSUME Bookkeeping, UNCHANGED <<images, transfers, free_slots, blob_pages>>,
           NEW r \in Requests, \A q \in Requests \ {r} : state'[q] = state[q],
           state[r] \notin {"Retracted", "Restoring", "Finished"},
           state'[r] \notin {"Retracted", "Restoring", "Finished"}
    PROVE  Tickets' /\ SlotsOwnedOnce' /\ StoresKnown' /\ ImageTypes' /\ TransferTypes'
  <1>. USE DEF Bookkeeping, images, transfers
  <1>1. Tickets'  BY Zenon DEF Tickets, RestoreInFlight
  <1>2. SlotsOwnedOnce'  BY Zenon DEF SlotsOwnedOnce, SlotsOf
  <1>3. StoresKnown'  BY Zenon DEF StoresKnown, WriteBacksInFlight
  <1>4. ImageTypes' /\ TransferTypes'  BY Zenon DEF StoreTypes, ImageTypes, TransferTypes
  <1>. QED  BY <1>1, <1>2, <1>3, <1>4, Zenon

\* The sliding-window table of an admitted request covers no less than before.
LEMMA CoverGrows ==
    ASSUME window \in [Requests -> Nat], NEW r \in Requests, NEW c \in Nat,
           window' = [window EXCEPT ![r] = Max2(@, c)]
    PROVE  window' \in [Requests -> Nat]
  BY Zenon DEF Max2

\* A first chunk (schedulePrefillFirstChunk).
LEMMA FirstChunkKeeps ==
    ASSUME IInv, NEW r \in Requests, NEW t \in Nat, t <= prompt[r],
           state[r] = "Submitted", free_rows # {}, Fits(FirstChunkDemand(r, t)),
           FirstChunk(r, t), UNCHANGED <<prompt, max_new_tokens>>
    PROVE  Bookkeeping'
  <1>. DEFINE after == AfterChunk(Role = "D", t = prompt[r], Role = "P")
              fresh == Pick(free_pages, FirstChunkDemand(r, t))
  <1>. USE DEF IInv, Bookkeeping, StoreTypes
  <1>1. PICK i \in Pick(free_rows, 1) : row' = [row EXCEPT ![r] = i] /\ free_rows' = free_rows \ {i}
    BY Zenon DEF FirstChunk, AllocateRow
  <1>2. i \in free_rows  BY PickOne, Zenon DEF FreeTypes
  <1>3. fresh \subseteq free_pages
    <2>1. FirstChunkDemand(r, t) \in Nat  BY Typed, DemandNat, Zenon
    <2>. QED  BY <2>1, PickPages, Zenon
  <1>4. table' = [table EXCEPT ![r] = @ \cup fresh] /\ free_pages' = free_pages \ fresh
    BY Zenon DEF FirstChunk, Admit
  <1>5. after \in {"RemotePrefilling", "Prefilling", "PrefillAwaitingResult", "PrefillDone"}
    BY Zenon DEF AfterChunk
  <1>6. state' = [state EXCEPT ![r] = after] /\ extent' = [extent EXCEPT ![r] = t]
    BY Zenon DEF FirstChunk
  <1>. HIDE DEF after, fresh
  <1>7. state'[r] = after /\ \A q \in Requests \ {r} : state'[q] = state[q]
    BY <1>6, Zenon DEF RequestTypes
  <1>8. Tickets' /\ SlotsOwnedOnce' /\ StoresKnown' /\ ImageTypes' /\ TransferTypes'
    BY <1>5, <1>7, ImagesStand, Zenon DEF FirstChunk
  <1>9. RequestTypes'
    BY <1>5, <1>6, Zenon DEF FirstChunk, RequestTypes, States
  <1>10. ResourceTypes' /\ FreeTypes'
    <2>1. row' \in [Requests -> Rows \cup {None}] /\ free_rows' \subseteq Rows
      BY <1>1, <1>2, Zenon DEF ResourceTypes, FreeTypes
    <2>2. table' \in [Requests -> SUBSET Pages] /\ free_pages' \subseteq Pages
      BY <1>3, <1>4, Zenon DEF ResourceTypes, FreeTypes
    <2>3. extent' \in [Requests -> Nat] /\ results_in_flight' \in [Requests -> Nat]
      BY <1>6 DEF FirstChunk, ResourceTypes
    <2>4. window' \in [Requests -> Nat]
      <3>. DEFINE c == FirstChunkWindow(r, t)
      <3>1. c \in Nat  BY Typed, DemandNat, Zenon
      <3>2. window' = [window EXCEPT ![r] = Max2(@, c)]  BY Zenon DEF FirstChunk, Admit
      <3>. HIDE DEF c
      <3>. QED  BY <3>1, <3>2, CoverGrows, Zenon DEF ResourceTypes
    <2>. QED  BY <2>1, <2>2, <2>3, <2>4, Zenon DEF FirstChunk, ResourceTypes, FreeTypes
  <1>11. Frontiers'
    BY <1>5, <1>6, <1>7 DEF FirstChunk, Frontiers, images, RequestTypes, ResourceTypes
  <1>12. RowsOwnedOnce'
    BY <1>1, <1>2, <1>5, <1>7, RowsTake, Zenon DEF FirstChunk, transfers, Seated, HoldsPages
  <1>13. PagesOwnedOnce'
    BY <1>3, <1>4, <1>5, <1>7, PagesGrow, Zenon DEF FirstChunk, transfers, HoldsPages
  <1>. QED  BY <1>8, <1>9, <1>10, <1>11, <1>12, <1>13, Zenon

\* Rows stay where they are, and so do the requests that own one.
LEMMA RowsStand ==
    ASSUME RowsOwnedOnce, UNCHANGED <<row, free_rows, snapshot_restores>>,
           \A q \in Requests : state'[q] \in Seated <=> state[q] \in Seated
    PROVE  RowsOwnedOnce'
  BY Zenon DEF RowsOwnedOnce, RestoreInFlight, Seated

\* A running request's table grows for its next step.
LEMMA GrowthKeeps ==
    ASSUME IInv, NEW r \in Requests, NEW n \in Nat, NEW c \in Nat, Fits(n), Admit(r, n, c),
           NEW after, after \in {"Prefilling", "PrefillAwaitingResult", "PrefillDone", "Decoding"},
           NEW e \in Nat, after = "Prefilling" => e <= prompt[r],
           state[r] \in {"Prefilling", "PrefillDone", "Decoding"},
           state' = [state EXCEPT ![r] = after], extent' = [extent EXCEPT ![r] = e],
           results_in_flight' \in [Requests -> Nat],
           UNCHANGED <<prompt, max_new_tokens, generated, retraction_count, generated_at_admission,
                       row, images, transfers, free_rows, free_slots, blob_pages>>
    PROVE  Bookkeeping'
  <1>. DEFINE fresh == Pick(free_pages, n)
  <1>. USE DEF IInv, Bookkeeping, StoreTypes
  <1>1. fresh \subseteq free_pages  BY PickPages, Zenon
  <1>2. table' = [table EXCEPT ![r] = @ \cup fresh] /\ free_pages' = free_pages \ fresh
    BY Zenon DEF Admit
  <1>. HIDE DEF fresh
  <1>3. state'[r] = after /\ \A q \in Requests \ {r} : state'[q] = state[q]
    BY Zenon DEF RequestTypes
  <1>4. Tickets' /\ SlotsOwnedOnce' /\ StoresKnown' /\ ImageTypes' /\ TransferTypes'
    BY <1>3, ImagesStand, Zenon
  <1>5. RequestTypes'  BY Zenon DEF RequestTypes, States
  <1>6. ResourceTypes' /\ FreeTypes'
    <2>1. table' \in [Requests -> SUBSET Pages] /\ free_pages' \subseteq Pages
      BY <1>1, <1>2, Zenon DEF ResourceTypes, FreeTypes
    <2>2. window' \in [Requests -> Nat]  BY CoverGrows, Zenon DEF Admit, ResourceTypes
    <2>. QED  BY <2>1, <2>2, Zenon DEF ResourceTypes, FreeTypes
  <1>7. Frontiers'
    BY <1>3, Zenon DEF Frontiers, images, RequestTypes, ResourceTypes
  <1>8. RowsOwnedOnce'
    BY <1>3, RowsStand, Zenon DEF transfers, Seated, HoldsPages
  <1>9. PagesOwnedOnce'
    BY <1>1, <1>2, <1>3, PagesGrow, Zenon DEF transfers, HoldsPages
  <1>. QED  BY <1>4, <1>5, <1>6, <1>7, <1>8, <1>9, Zenon

\* The next chunk of a resident prompt (schedulePrefill).
LEMMA NextChunkKeeps ==
    ASSUME IInv, NEW r \in Requests, NEW t \in Nat, extent[r] + t <= prompt[r],
           state[r] = "Prefilling", Fits(ChunkDemand(r, t)), NextChunk(r, t),
           UNCHANGED <<prompt, max_new_tokens>>
    PROVE  Bookkeeping'
  <1>. DEFINE after == AfterChunk(FALSE, extent[r] + t = prompt[r], Role = "P")
  <1>1. after \in {"Prefilling", "PrefillAwaitingResult", "PrefillDone"}  BY Zenon DEF AfterChunk
  <1>2. ChunkDemand(r, t) \in Nat /\ ChunkReserve(r, t) \in Nat  BY Typed, DemandNat, Zenon
  <1>3. extent \in [Requests -> Nat] /\ results_in_flight \in [Requests -> Nat]
    BY Typed, Zenon DEF TypeOK, ResourceTypes
  <1>4. extent' = [extent EXCEPT ![r] = extent[r] + t] /\ results_in_flight' \in [Requests -> Nat]
    BY <1>3 DEF NextChunk
  <1>5. state' = [state EXCEPT ![r] = after]  BY Zenon DEF NextChunk
  <1>. HIDE DEF after
  <1>6. extent[r] + t \in Nat  BY <1>3
  <1>7. /\ Admit(r, ChunkDemand(r, t), extent[r] + t + ChunkReserve(r, t))
        /\ UNCHANGED <<prompt, max_new_tokens, generated, retraction_count, generated_at_admission,
                       row, images, transfers, free_rows, free_slots, blob_pages>>
    BY Zenon DEF NextChunk
  <1>. DEFINE e == extent[r] + t
              c == extent[r] + t + ChunkReserve(r, t)
  <1>8. e \in Nat /\ e <= prompt[r] /\ extent' = [extent EXCEPT ![r] = e]  BY <1>4, <1>6, Zenon
  <1>9. c \in Nat /\ Admit(r, ChunkDemand(r, t), c)  BY <1>2, <1>6, <1>7
  <1>. HIDE DEF e, c
  <1>. QED  BY <1>1, <1>2, <1>4, <1>5, <1>7, <1>8, <1>9, GrowthKeeps, Zenon

\* A decode (scheduleDecode), of a batch or to the peer.
LEMMA DecodeStepKeeps ==
    ASSUME IInv, NEW r \in Requests, state[r] \in {"PrefillDone", "Decoding"},
           Fits(Missing(r, 1, 0)), DecodeStep(r), UNCHANGED <<prompt, max_new_tokens>>
    PROVE  Bookkeeping'
  <1>1. Missing(r, 1, 0) \in Nat  BY Typed, MissingNat, Zenon
  <1>2. extent \in [Requests -> Nat] /\ results_in_flight \in [Requests -> Nat]
    BY Typed, Zenon DEF TypeOK, ResourceTypes
  <1>3. extent' = [extent EXCEPT ![r] = extent[r] + 1] /\ results_in_flight' \in [Requests -> Nat]
    BY <1>2 DEF DecodeStep
  <1>4. state' = [state EXCEPT ![r] = "Decoding"]  BY Zenon DEF DecodeStep, ScheduleDecodeEvent
  <1>5. extent[r] + 1 \in Nat  BY <1>2
  <1>. QED  BY <1>1, <1>3, <1>4, <1>5, GrowthKeeps, Zenon DEF DecodeStep

\* Leaving the readmission order keeps the other positions in it.
LEMMA EpochsTyped ==
    ASSUME ImageTypes, NEW r \in Requests
    PROVE  WithoutEpoch(r) \in [Requests -> Nat]
  <1>1. ASSUME NEW q \in Requests PROVE WithoutEpoch(r)[q] \in Nat
    <2>1. retraction_epoch[q] \in Nat /\ retraction_epoch[r] \in Nat  BY Zenon DEF ImageTypes
    <2>2. CASE q = r  BY <2>2, Zenon DEF WithoutEpoch
    <2>3. CASE q # r /\ retraction_epoch[r] > 0 /\ retraction_epoch[q] > retraction_epoch[r]
      BY <2>1, <2>3 DEF WithoutEpoch
    <2>4. CASE q # r /\ ~(retraction_epoch[r] > 0 /\ retraction_epoch[q] > retraction_epoch[r])
      BY <2>1, <2>4, Zenon DEF WithoutEpoch
    <2>. QED  BY <2>2, <2>3, <2>4, Zenon
  <1>2. WithoutEpoch(r) = [q \in Requests |-> WithoutEpoch(r)[q]]  BY Zenon DEF WithoutEpoch
  <1>. QED  BY <1>1, <1>2, Zenon

\* Requests of S leave the request pool and the page tables (FreeRequest); a
\* store may take over pages of theirs.
LEMMA LeavingKeeps ==
    ASSUME IInv, NEW S, S \subseteq Requests, FreeRequests(S), UNCHANGED snapshot_restores,
           \A o \in PinnedOps : \/ pinned_stores'[o] = pinned_stores[o]
                                \/ /\ o \in S /\ pinned_stores[o] = {}
                                   /\ pinned_stores'[o] \subseteq table[o],
           \A q \in S : state'[q] \notin HoldsPages,
           \A q \in Requests \ S : state'[q] = state[q] \/ (state[q] \in Seated /\ state'[q] \in Seated)
    PROVE  /\ RowsOwnedOnce' /\ PagesOwnedOnce'
           /\ row' \in [Requests -> Rows \cup {None}] /\ table' \in [Requests -> SUBSET Pages]
           /\ window' \in [Requests -> Nat]
           /\ free_rows' \subseteq Rows /\ free_pages' \subseteq Pages
  <1>. USE DEF IInv, Bookkeeping, StoreTypes
  <1>1. RowsOwnedOnce'
    <2>1. \A q \in S : state'[q] \notin Seated  BY Zenon DEF Seated
    <2>2. \A q \in Requests \ S : state'[q] \in Seated <=> state[q] \in Seated  BY Zenon
    <2>3. /\ row' = [q \in Requests |-> IF q \in S THEN None ELSE row[q]]
          /\ free_rows' = free_rows \cup ({row[q] : q \in S} \ {None})
      BY Zenon DEF FreeRequests
    <2>. QED  BY <2>1, <2>2, <2>3, RowsReturn, Zenon
  <1>2. PagesOwnedOnce'
    <2>1. \A q \in Requests \ S : state[q] \in HoldsPages => state'[q] \in HoldsPages  BY Zenon DEF Seated
    <2>2. /\ table' = [q \in Requests |-> IF q \in S THEN {} ELSE table[q]]
          /\ DropPages(UNION {table[q] : q \in S})
      BY Zenon DEF FreeRequests
    <2>. QED  BY <2>1, <2>2, PagesDrop, Zenon
  <1>3. /\ row' \in [Requests -> Rows \cup {None}] /\ table' \in [Requests -> SUBSET Pages]
        /\ window' \in [Requests -> Nat]
    BY Zenon DEF FreeRequests, ResourceTypes
  <1>4. free_rows' \subseteq Rows  BY Zenon DEF FreeRequests, ResourceTypes, FreeTypes
  <1>5. free_pages' \subseteq Pages  BY <1>2 DEF PagesOwnedOnce
  <1>. QED  BY <1>1, <1>2, <1>3, <1>4, <1>5, Zenon

\* An abort, in whatever state (AbortEvent).
LEMMA AbortKeeps ==
    ASSUME IInv, NEW r \in Requests, AbortEvent(r),
           UNCHANGED <<prompt, max_new_tokens, generated, retraction_count, generated_at_admission>>
    PROVE  Bookkeeping'
  <1>. USE DEF IInv, Bookkeeping, StoreTypes
  <1>1. state' = [state EXCEPT ![r] = "Finished"] /\ UNCHANGED transfers  BY Zenon DEF AbortEvent
  <1>2. state'[r] = "Finished" /\ \A q \in Requests \ {r} : state'[q] = state[q]
    BY <1>1, Zenon DEF RequestTypes
  <1>3. FreeRequests({r}) /\ DropImage(r)  BY Zenon DEF AbortEvent
  <1>4. /\ RowsOwnedOnce' /\ PagesOwnedOnce'
        /\ row' \in [Requests -> Rows \cup {None}] /\ table' \in [Requests -> SUBSET Pages]
        /\ window' \in [Requests -> Nat]
        /\ free_rows' \subseteq Rows /\ free_pages' \subseteq Pages
    <2>. DEFINE S == {r}
    <2>1. S \subseteq Requests /\ FreeRequests(S)  BY <1>3, Zenon
    <2>2. \A q \in S : state'[q] \notin HoldsPages  BY <1>2, Zenon DEF HoldsPages
    <2>3. \A q \in Requests \ S : state'[q] = state[q]  BY <1>2, Zenon
    <2>4. UNCHANGED <<snapshot_restores, pinned_stores>>  BY <1>1, Zenon DEF transfers
    <2>. HIDE DEF S
    <2>. QED  BY <2>1, <2>2, <2>3, <2>4, LeavingKeeps, Zenon
  <1>6. blob_slot' = [blob_slot EXCEPT ![r] = None] /\ DropSlots({blob_slot[r]})
    BY <1>3, Zenon DEF DropImage
  <1>7. blob_slot'[r] = None /\ \A q \in Requests \ {r} : blob_slot'[q] = blob_slot[q]
    BY <1>6, Zenon DEF ImageTypes
  <1>8. SlotsOwnedOnce' /\ free_slots' \subseteq Slots /\ blob_pages' \in [Slots -> Nat]
    <2>1. {blob_slot[r]} \subseteq Slots \cup {None}  BY Zenon DEF ImageTypes
    <2>2. \A q \in Requests : /\ SlotsOf(q)' \subseteq SlotsOf(q) \cup {None}
                              /\ SlotsOf(q) \subseteq SlotsOf(q)' \cup {blob_slot[r]}
      BY <1>1, <1>7, Zenon DEF SlotsOf, transfers
    <2>. QED  BY <1>6, <2>1, <2>2, SlotsDrop, Zenon
  <1>9. RequestTypes'  BY <1>1, Zenon DEF RequestTypes, States
  <1>10. ResourceTypes' /\ FreeTypes'
    <2>1. extent' \in [Requests -> Nat] /\ results_in_flight' \in [Requests -> Nat]
      BY Zenon DEF AbortEvent, ResourceTypes
    <2>. QED  BY <1>4, <1>8, <2>1, Zenon DEF ResourceTypes, FreeTypes
  <1>11. TransferTypes'  BY <1>1, Zenon DEF transfers, TransferTypes
  <1>12. ImageTypes'
    <2>1. retraction_epoch' \in [Requests -> Nat]  BY <1>3, EpochsTyped, Zenon DEF DropImage
    <2>2. /\ blob_slot' \in [Requests -> Slots \cup {None}]
          /\ shape' \in [Requests -> Suspendable \cup {None}]
          /\ resumes_generation' \in [Requests -> BOOLEAN]
          /\ pending_store_ops' \in [Requests -> SUBSET Ops]
      BY <1>3, Zenon DEF DropImage, ImageTypes
    <2>. QED  BY <2>1, <2>2, Zenon DEF ImageTypes
  <1>13. \A q \in Requests \ {r} : /\ extent'[q] = extent[q] /\ shape'[q] = shape[q]
                                   /\ pending_store_ops'[q] = pending_store_ops[q]
    BY Zenon DEF AbortEvent, DropImage, ResourceTypes, ImageTypes
  <1>14. Frontiers'  BY <1>2, <1>13, Zenon DEF Frontiers
  <1>15. Tickets'  BY <1>1, <1>2, <1>7, Zenon DEF Tickets, RestoreInFlight, transfers
  <1>16. StoresKnown'  BY <1>1, <1>2, <1>13, Zenon DEF StoresKnown, WriteBacksInFlight, transfers
  <1>. QED  BY <1>4, <1>8, <1>9, <1>10, <1>11, <1>12, <1>14, <1>15, <1>16

\* A retraction (SnapshotRetractEvent with StartRetractionStores).
LEMMA RetractKeeps ==
    ASSUME IInv, NEW r \in Requests, state[r] \in Suspendable, free_slots # {},
           NEW n \in Nat, NEW leg \in BOOLEAN, NEW earlier, earlier \subseteq WriteBacksInFlight,
           Retract(r, n, leg, earlier), UNCHANGED <<prompt, max_new_tokens>>
    PROVE  Bookkeeping'
  <1>. USE DEF IInv, Bookkeeping, StoreTypes
  <1>1. PICK s \in Pick(free_slots, 1) :
            /\ blob_slot' = [blob_slot EXCEPT ![r] = s]
            /\ snapshot_stores' = [snapshot_stores EXCEPT ![r] = s]
            /\ free_slots' = free_slots \ {s}
            /\ blob_pages' = [blob_pages EXCEPT ![s] = n]
    BY Zenon DEF Retract
  <1>2. s \in free_slots  BY PickOne, Zenon DEF FreeTypes
  <1>3. s \in Slots /\ s # None  BY <1>2, SchedulerConstants, Zenon DEF FreeTypes
  <1>4. state' = [state EXCEPT ![r] = "Retracted"] /\ UNCHANGED <<snapshot_restores, pinned_stores>>
    BY Zenon DEF Retract
  <1>5. state'[r] = "Retracted" /\ \A q \in Requests \ {r} : state'[q] = state[q]
    BY <1>4, Zenon DEF RequestTypes
  <1>6. /\ RowsOwnedOnce' /\ PagesOwnedOnce'
        /\ row' \in [Requests -> Rows \cup {None}] /\ table' \in [Requests -> SUBSET Pages]
        /\ window' \in [Requests -> Nat]
        /\ free_rows' \subseteq Rows /\ free_pages' \subseteq Pages
    <2>. DEFINE S == {r}
    <2>1. S \subseteq Requests /\ FreeRequests(S)  BY Zenon DEF Retract
    <2>2. \A q \in S : state'[q] \notin HoldsPages  BY <1>5, Zenon DEF HoldsPages
    <2>3. \A q \in Requests \ S : state'[q] = state[q]  BY <1>5, Zenon
    <2>. HIDE DEF S
    <2>. QED  BY <1>4, <2>1, <2>2, <2>3, LeavingKeeps, Zenon
  <1>7. /\ blob_slot'[r] = s /\ snapshot_stores'[r] = s
        /\ \A q \in Requests \ {r} : blob_slot'[q] = blob_slot[q] /\ snapshot_stores'[q] = snapshot_stores[q]
    BY <1>1, Zenon DEF ImageTypes, TransferTypes
  <1>8. blob_slot[r] = None /\ snapshot_stores[r] = None /\ snapshot_restores[r] = NoRestore
            /\ r \notin host_stores
    BY Zenon DEF Tickets, Suspendable
  <1>9. SlotsOwnedOnce'
    <2>1. \A x : x \in HeldSlots(blob_slot, snapshot_stores, snapshot_restores)
                  <=> \E q \in Requests : x \in SlotsOf(q)
      BY HeldSlotsElement, Zenon
    <2>2. \A x : x \in HeldSlots(blob_slot, snapshot_stores, snapshot_restores)'
                  <=> \E q \in Requests : x \in SlotsOf(q)'
      BY Zenon DEF HeldSlots, SlotsOf
    <2>3. \A q \in Requests \ {r} : SlotsOf(q)' = SlotsOf(q)  BY <1>4, <1>7, Zenon DEF SlotsOf
    <2>4. SlotsOf(r) = {None} /\ SlotsOf(r)' = {s, None}
      BY <1>4, <1>7, <1>8 DEF SlotsOf, NoRestore
    <2>5. \A q \in Requests : s \notin SlotsOf(q)  BY <1>2, <2>1, Zenon DEF SlotsOwnedOnce
    <2>6. free_slots' = Slots \ HeldSlots(blob_slot, snapshot_stores, snapshot_restores)'
      <3>. DEFINE Held == HeldSlots(blob_slot, snapshot_stores, snapshot_restores)
      <3>1. free_slots = Slots \ Held  BY Zenon DEF SlotsOwnedOnce
      <3>. HIDE DEF Held
      <3>2. None \notin Slots  BY SchedulerConstants, Zenon
      <3>3. \A x \in Slots : x \in SlotsOf(r)' <=> x = s  BY <2>4, <3>2, Zenon
      <3>4. \A x \in Slots : x \notin SlotsOf(r)  BY <2>4, <3>2
      <3>5. \A x \in Slots : (\E q \in Requests : x \in SlotsOf(q)')
                                <=> x = s \/ \E q \in Requests : x \in SlotsOf(q)
        BY <2>3, <3>3, <3>4, Zenon
      <3>6. \A x \in Slots : x \in Held' <=> x \in Held \/ x = s  BY <2>1, <2>2, <3>5 DEF Held
      <3>7. free_slots' = Slots \ Held'  BY <1>1, <3>1, <3>6, Zenon
      <3>. QED  BY <3>7, Zenon DEF Held
    <2>7. \A p, q \in Requests : p # q => SlotsOf(p)' \cap SlotsOf(q)' \subseteq {None}
      BY <2>3, <2>4, <2>5 DEF SlotsOwnedOnce
    <2>. QED  BY <2>6, <2>7, Zenon DEF SlotsOwnedOnce
  <1>10. RequestTypes'  BY <1>4 DEF Retract, RequestTypes, States
  <1>11. ResourceTypes' /\ FreeTypes'
    <2>1. free_slots' \subseteq Slots /\ blob_pages' \in [Slots -> Nat]
      BY <1>1, Zenon DEF FreeTypes
    <2>. QED  BY <1>6, <2>1, Zenon DEF Retract, ResourceTypes, FreeTypes
  <1>12. host_stores' = (IF leg THEN host_stores \cup {r} ELSE host_stores) /\ TransferTypes'
    BY <1>1, <1>3, <1>4, Zenon DEF Retract, TransferTypes
  <1>13. /\ pending_store_ops'[r] = earlier \cup {SnapshotOp(r)} \cup (IF leg THEN {HostOp(r)} ELSE {})
         /\ \A q \in Requests \ {r} : pending_store_ops'[q] = pending_store_ops[q]
    BY Zenon DEF Retract, ImageTypes
  <1>14. ImageTypes'
    <2>1. Cardinality({q \in Requests : retraction_epoch[q] > 0}) \in Nat
      BY SchedulerConstants, FS_Subset, FS_CardinalityType, Zenon
    <2>2. retraction_epoch' \in [Requests -> Nat]
      BY <2>1 DEF Retract, NextRetractionEpoch, ImageTypes
    <2>3. WriteBacksInFlight \subseteq Ops  BY Zenon DEF WriteBacksInFlight, Ops, TransferTypes
    <2>4. earlier \cup {SnapshotOp(r)} \cup (IF leg THEN {HostOp(r)} ELSE {}) \subseteq Ops
      BY <2>3, Zenon DEF Ops
    <2>5. pending_store_ops' \in [Requests -> SUBSET Ops]
      BY <2>4, Zenon DEF Retract, ImageTypes
    <2>6. /\ blob_slot' \in [Requests -> Slots \cup {None}]
          /\ shape' \in [Requests -> Suspendable \cup {None}]
          /\ resumes_generation' \in [Requests -> BOOLEAN]
      BY <1>1, <1>3 DEF Retract, ImageTypes
    <2>. QED  BY <2>2, <2>5, <2>6, Zenon DEF ImageTypes
  <1>15. Frontiers'
    <2>1. shape'[r] = state[r] /\ \A q \in Requests \ {r} : shape'[q] = shape[q]
      BY Zenon DEF Retract, ImageTypes
    <2>. QED  BY <1>5, <2>1, Zenon DEF Retract, Frontiers
  <1>16. Tickets'
    <2>1. ASSUME NEW q \in Requests \ {r}
          PROVE  /\ RestoreInFlight(q)' => state'[q] \in {"Restoring", "Finished"}
                 /\ ~RestoreInFlight(q)' => snapshot_restores'[q] = NoRestore
                 /\ blob_slot'[q] # None => state'[q] \in {"Retracted", "Restoring"}
                 /\ snapshot_stores'[q] # None \/ q \in host_stores' => state'[q] \in {"Retracted", "Finished"}
                 /\ pinned_stores'[q] # {} => state'[q] = "Finished"
      BY <1>4, <1>5, <1>7, <1>12, Zenon DEF Tickets, RestoreInFlight
    <2>2. pinned_stores[r] = {}  BY Zenon DEF Tickets, Suspendable
    <2>3. ~RestoreInFlight(r)' /\ snapshot_restores'[r] = NoRestore
      BY <1>4, <1>8 DEF RestoreInFlight, NoRestore
    <2>. QED  BY <1>4, <1>5, <2>1, <2>2, <2>3, Zenon DEF Tickets
  <1>17. StoresKnown'
    <2>1. WriteBacksInFlight \subseteq WriteBacksInFlight'
      BY <1>4, <1>12, Zenon DEF WriteBacksInFlight
    <2>2. leg => HostOp(r) \in WriteBacksInFlight'  BY <1>12, Zenon DEF WriteBacksInFlight
    <2>3. ASSUME NEW q \in Requests \ {r}
          PROVE  /\ state'[q] = "Restoring" => pending_store_ops'[q] = {}
                 /\ state'[q] = "Retracted" =>
                      /\ snapshot_stores'[q] # None <=> SnapshotOp(q) \in pending_store_ops'[q]
                      /\ q \in host_stores' => HostOp(q) \in pending_store_ops'[q]
                      /\ pending_store_ops'[q] \subseteq WriteBacksInFlight' \cup {SnapshotOp(q)}
      BY <1>5, <1>7, <1>12, <1>13, <2>1, <2>3 DEF StoresKnown
    <2>4. /\ SnapshotOp(r) \in pending_store_ops'[r]
          /\ r \in host_stores' => HostOp(r) \in pending_store_ops'[r]
          /\ pending_store_ops'[r] \subseteq WriteBacksInFlight' \cup {SnapshotOp(r)}
      BY <1>8, <1>12, <1>13, <2>1, <2>2, Zenon
    <2>. QED  BY <1>3, <1>5, <1>7, <2>3, <2>4, Zenon DEF StoresKnown
  <1>. QED  BY <1>6, <1>9, <1>10, <1>11, <1>12, <1>14, <1>15, <1>16, <1>17
=============================================================================
