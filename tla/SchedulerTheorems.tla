-------------------------- MODULE SchedulerTheorems --------------------------
(***************************************************************************)
(* Every action keeps the inductive invariant, and what follows from it.   *)
(***************************************************************************)
EXTENDS SchedulerProofs

-----------------------------------------------------------------------------
(* Results and notifications. *)

\* The results of a batch settle some requests and leave the others in place
\* (Advance with ExtendResult, Finish, Abort and settleFinishedRequests).
LEMMA CommitSettles ==
    ASSUME IInv, Commit
    PROVE  \E S \in SUBSET Requests : Settlement(S)
  <1>. USE DEF IInv, Bookkeeping, StoreTypes
  <1>. DEFINE kind == [r \in {x[1] : x \in Head(in_flight)} |->
                          (CHOOSE x \in Head(in_flight) : x[1] = r)[2]]
              R == DOMAIN kind
              holds == {r \in R : state[r] \in HoldsPages}
              after(v) == [r \in R |-> RowEvents(state[r], kind[r], v[r])]
              settled(v) == {r \in holds : after(v)[r] = "Finishing" /\ results_in_flight[r] = 1}
              leaves(v) == settled(v) \cup {r \in holds : after(v)[r] = "Finished"}
  <1>1. PICK v \in [R -> {"land", "go_on", "finish", "abort"}] :
          /\ state' = [r \in Requests |->
                  CASE r \in leaves(v) -> "Finished"
                    [] r \in R \ leaves(v) /\ after(v)[r] # Invalid -> after(v)[r]
                    [] OTHER -> state[r]]
          /\ generated' = [r \in Requests |->
                  IF r \in R /\ kind[r] # "chunk" /\ r \notin ended
                  THEN generated[r] + 1 ELSE generated[r]]
          /\ results_in_flight' = [r \in Requests |->
                  CASE r \in leaves(v) -> 0
                    [] r \in holds \ leaves(v) -> Max2(0, results_in_flight[r] - 1)
                    [] OTHER -> results_in_flight[r]]
          /\ extent' = [r \in Requests |-> IF r \in leaves(v) THEN 0 ELSE extent[r]]
          /\ \E stored \in SUBSET (IF StreamsDeviceCacheToHost THEN settled(v) ELSE {}) :
                  pinned_stores' = [o \in PinnedOps |->
                      IF o \in stored THEN CompletedPages(o) ELSE pinned_stores[o]]
          /\ UNCHANGED <<snapshot_stores, snapshot_restores, host_stores>>
          /\ FreeRequests(leaves(v))
    BY Zenon DEF Commit
  <1>2. UNCHANGED <<prompt, max_new_tokens, retraction_count, generated_at_admission, images,
                    free_slots, blob_pages>>
    BY Zenon DEF Commit
  <1>3. R \subseteq Requests
    <2>1. in_flight \in Seq(SUBSET (Requests \X Kinds)) /\ Len(in_flight) > 0
      <3>1. Len(in_flight) > Uncommitted  BY Zenon DEF Commit
      <3>2. Uncommitted \in Nat  BY SchedulerConstants, Zenon DEF Uncommitted
      <3>3. in_flight \in Seq(SUBSET (Requests \X Kinds))  BY Zenon DEF ControlTypes
      <3>. QED  BY <3>1, <3>2, <3>3
    <2>2. Head(in_flight) \subseteq Requests \X Kinds  BY <2>1
    <2>. QED  BY <2>2, Zenon
  <1>. DEFINE S == leaves(v)
              next(r) == RowEvents(state[r], kind[r], v[r])
  <1>4. \A r \in R : after(v)[r] = next(r)  BY Zenon
  <1>. HIDE DEF kind, R
  <1>5. \A r \in R :
            /\ next(r) \in States \cup {Invalid}
            /\ state[r] \in Seated => next(r) \in Seated \cup {"Finished", Invalid}
            /\ next(r) = "Prefilling" => state[r] = "Prefilling"
            /\ state[r] = "Restoring" => next(r) = Invalid
            /\ state[r] \notin HoldsPages =>
                  next(r) = Invalid \/ (next(r) = "Finished" /\ state[r] = "Finished")
    <2>1. \A r \in R : state[r] \in States \cup {"New"}  BY <1>3, Zenon DEF RequestTypes
    <2>. QED  BY <2>1, RowEventsReach, Zenon
  <1>. HIDE DEF next
  <1>6. /\ S \subseteq Requests /\ S \subseteq R
        /\ \A r \in S : state[r] \in HoldsPages /\ next(r) \in {"Finishing", "Finished"}
        /\ \A r \in R \ S : state[r] \in HoldsPages => next(r) # "Finished"
    BY <1>3, <1>4, Zenon
  <1>7. state' = [r \in Requests |-> IF r \in S THEN "Finished"
                                     ELSE IF r \in R /\ next(r) # Invalid THEN next(r) ELSE state[r]]
    BY <1>1, <1>4, Zenon
  <1>8. settled(v) \subseteq S  BY Zenon
  <1>9. FreeRequests(S) /\ extent' = [q \in Requests |-> IF q \in S THEN 0 ELSE extent[q]]
    BY <1>1, Zenon
  <1>10. results_in_flight' \in [Requests -> Nat]
    <2>. DEFINE landed(r) == CASE r \in S -> 0
                               [] r \in holds \ S -> Max2(0, results_in_flight[r] - 1)
                               [] OTHER -> results_in_flight[r]
    <2>1. results_in_flight' = [r \in Requests |-> landed(r)]  BY <1>1, Zenon
    <2>2. ASSUME NEW r \in Requests PROVE landed(r) \in Nat
      <3>1. results_in_flight[r] \in Nat  BY Zenon DEF ResourceTypes
      <3>2. Max2(0, results_in_flight[r] - 1) \in Nat  BY <3>1 DEF Max2
      <3>. HIDE DEF S, holds
      <3>. QED  BY <3>1, <3>2, Zenon
    <2>. HIDE DEF landed
    <2>. QED  BY <2>1, <2>2, Zenon
  <1>11. /\ pinned_stores' \in [PinnedOps -> SUBSET Pages]
         /\ \A o \in PinnedOps : \/ pinned_stores'[o] = pinned_stores[o]
                                 \/ o \in S /\ pinned_stores'[o] \subseteq table[o]
    <2>1. PICK stored \in SUBSET S :
              pinned_stores' = [o \in PinnedOps |->
                      IF o \in stored THEN CompletedPages(o) ELSE pinned_stores[o]]
      BY <1>1, <1>8, Zenon
    <2>2. \A o \in stored : CompletedPages(o) \subseteq table[o] /\ table[o] \subseteq Pages
      BY <1>6, Typed, CompletedPagesOwn, Zenon DEF ResourceTypes
    <2>. HIDE DEF S
    <2>. QED  BY <2>1, <2>2, Zenon DEF TransferTypes
  <1>. HIDE DEF S
  <1>12. /\ \A q \in S : state[q] \in Seated /\ state'[q] = "Finished"
         /\ state' \in [Requests -> States \cup {"New"}]
    <2>1. \A q \in S : state[q] \in Seated  BY <1>5, <1>6, Zenon DEF Seated, Invalid
    <2>2. state' \in [Requests -> States \cup {"New"}]
      BY <1>5, <1>7, Zenon DEF RequestTypes, States
    <2>. QED  BY <1>6, <1>7, <2>1, <2>2, Zenon
  <1>13. \A q \in Requests \ S :
          \/ state'[q] = state[q]
          \/ state[q] \in Seated /\ state'[q] \in Seated \ {"Prefilling"}
    <2>. SUFFICES ASSUME NEW q \in Requests \ S, state'[q] # state[q]
                  PROVE  state[q] \in Seated /\ state'[q] \in Seated \ {"Prefilling"}
      BY Zenon
    <2>1. q \in R /\ next(q) # Invalid /\ state'[q] = next(q)  BY <1>7, Zenon
    <2>2. state[q] \in HoldsPages  BY <1>5, <2>1, Zenon
    <2>3. state[q] \in Seated  BY <1>5, <2>1, <2>2, Zenon DEF Seated
    <2>. QED  BY <1>5, <1>6, <2>1, <2>2, <2>3, Zenon
  <1>14. generated' \in [Requests -> Nat]  BY <1>1 DEF RequestTypes
  <1>. QED  BY <1>1, <1>2, <1>6, <1>9, <1>10, <1>11, <1>12, <1>13, <1>14 DEF Settlement

\* So does a request's end on a peer's notification (FinishEvent followed by
\* settleFinishedRequests).
LEMMA FinishSettles ==
    ASSUME IInv, NEW r \in Requests, NEW finishing, finishing \in Seated \ {"Prefilling"},
           state[r] \in Seated, FinishNow(r, finishing),
           generated' \in [Requests -> Nat],
           UNCHANGED <<prompt, max_new_tokens, retraction_count, generated_at_admission,
                       results_in_flight, images, free_slots, blob_pages>>
    PROVE  \E S \in SUBSET Requests : Settlement(S)
  <1>. USE DEF IInv, Bookkeeping, StoreTypes
  <1>. DEFINE settles == results_in_flight[r] = 0
              S == IF settles THEN {r} ELSE {}
  <1>1. S \in SUBSET Requests /\ \A q \in S : q = r /\ settles  BY Zenon
  <1>2. FreeRequests(S) /\ UNCHANGED <<snapshot_stores, snapshot_restores, host_stores>>
    BY Zenon DEF FinishNow
  <1>3. extent' = [q \in Requests |-> IF q \in S THEN 0 ELSE extent[q]]
    BY Zenon DEF FinishNow, ResourceTypes
  <1>4. /\ pinned_stores' \in [PinnedOps -> SUBSET Pages]
        /\ \A o \in PinnedOps : \/ pinned_stores'[o] = pinned_stores[o]
                                \/ o \in S /\ pinned_stores'[o] \subseteq table[o]
    <2>1. CompletedPages(r) \subseteq table[r] /\ table[r] \subseteq Pages
      BY Typed, CompletedPagesOwn, Zenon DEF ResourceTypes
    <2>2. \/ pinned_stores' = pinned_stores
          \/ r \in S /\ pinned_stores' = [pinned_stores EXCEPT ![r] = CompletedPages(r)]
      BY Zenon DEF FinishNow
    <2>. HIDE DEF S
    <2>. QED  BY <2>1, <2>2, Zenon DEF TransferTypes
  <1>5. state' = [state EXCEPT ![r] = IF settles THEN "Finished" ELSE finishing]
    BY Zenon DEF FinishNow
  <1>6. state' \in [Requests -> States \cup {"New"}]
    BY <1>5, Zenon DEF RequestTypes, States, Seated, HoldsPages
  <1>7. /\ \A q \in S : state[q] \in Seated /\ state'[q] = "Finished"
        /\ \A q \in Requests \ S :
             \/ state'[q] = state[q]
             \/ state[q] \in Seated /\ state'[q] \in Seated \ {"Prefilling"}
    BY <1>5, Zenon DEF RequestTypes
  <1>8. results_in_flight' \in [Requests -> Nat]  BY Zenon DEF ResourceTypes
  <1>. HIDE DEF S
  <1>. QED  BY <1>1, <1>2, <1>3, <1>4, <1>6, <1>7, <1>8, Zenon DEF Settlement

\* pd::SucceededEvent.
LEMMA SucceededKeeps ==
    ASSUME IInv, NEW r \in Requests, Succeeded(r)
    PROVE  Bookkeeping'
  <1>. DEFINE finishing == FinishEvent(state[r])
  <1>1. state[r] = "Decoding" /\ FinishNow(r, finishing)  BY Zenon DEF Succeeded
  <1>2. finishing \in Seated \ {"Prefilling"} /\ state[r] \in Seated
    BY <1>1, Zenon DEF FinishEvent, Seated, HoldsPages
  <1>3. UNCHANGED <<prompt, max_new_tokens, generated, retraction_count, generated_at_admission,
                    results_in_flight, images, free_slots, blob_pages>>
    BY Zenon DEF Succeeded
  <1>4. generated' \in [Requests -> Nat]
    BY <1>3, Zenon DEF IInv, Bookkeeping, StoreTypes, RequestTypes
  <1>. HIDE DEF finishing
  <1>5. PICK S \in SUBSET Requests : Settlement(S)  BY <1>1, <1>2, <1>3, <1>4, FinishSettles
  <1>. QED  BY <1>5, SettlementKeeps, Zenon

\* pd::RemotePrefillDoneEvent: the bootstrap token ends the request, or it
\* decodes from here on.
LEMMA RemotePrefillDoneKeeps ==
    ASSUME IInv, NEW r \in Requests, RemotePrefillDone(r)
    PROVE  Bookkeeping'
  <1>. USE DEF IInv, Bookkeeping, StoreTypes
  <1>1. /\ state[r] = "RemotePrefilling"
        /\ generated' = [generated EXCEPT ![r] = @ + 1]
        /\ UNCHANGED <<prompt, max_new_tokens, retraction_count, generated_at_admission,
                       results_in_flight, images, free_slots, blob_pages>>
    BY Zenon DEF RemotePrefillDone
  <1>2. generated' \in [Requests -> Nat]  BY <1>1 DEF RequestTypes
  <1>3. CASE /\ state' = [state EXCEPT ![r] = RemotePrefillDoneEvent(@)]
             /\ UNCHANGED <<extent, row, table, window, transfers, free_rows, free_pages, ended>>
    <2>1. state' = [state EXCEPT ![r] = "PrefillDone"]
      BY <1>1, <1>3, Zenon DEF RemotePrefillDoneEvent, RequestTypes
    <2>2. \A q \in Requests \ {r} : state'[q] = state[q]  BY <2>1, Zenon DEF RequestTypes
    <2>3. state'[r] = "PrefillDone"  BY <2>1, Zenon DEF RequestTypes
    <2>4. RequestTypes'  BY <1>1, <1>2, <2>1, Zenon DEF RequestTypes, States
    <2>5. ResourceTypes' /\ FreeTypes'  BY <1>1, <1>3, Zenon DEF ResourceTypes, FreeTypes
    <2>6. Tickets' /\ SlotsOwnedOnce' /\ StoresKnown' /\ ImageTypes' /\ TransferTypes'
      BY <1>1, <1>3, <2>2, <2>3, ImagesStand, Zenon
    <2>7. RowsOwnedOnce'
      BY <1>1, <1>3, <2>2, <2>3, RowsStand, Zenon DEF transfers, Seated, HoldsPages
    <2>8. PagesOwnedOnce'
      BY <1>1, <1>3, <2>2, <2>3 DEF PagesOwnedOnce, transfers, HoldsPages
    <2>9. Frontiers'  BY <1>1, <1>3, <2>2, <2>3, Zenon DEF Frontiers, images
    <2>. QED  BY <2>4, <2>5, <2>6, <2>7, <2>8, <2>9, Zenon
  <1>4. CASE FinishNow(r, FinishEvent(RemotePrefillDoneEvent(state[r])))
    <2>. DEFINE finishing == FinishEvent(RemotePrefillDoneEvent(state[r]))
    <2>1. finishing \in Seated \ {"Prefilling"} /\ state[r] \in Seated
      BY <1>1, Zenon DEF FinishEvent, RemotePrefillDoneEvent, Seated, HoldsPages
    <2>2. FinishNow(r, finishing)  BY <1>4
    <2>. HIDE DEF finishing
    <2>3. PICK S \in SUBSET Requests : Settlement(S)  BY <1>1, <1>2, <2>1, <2>2, FinishSettles, Zenon
    <2>. QED  BY <2>3, SettlementKeeps, Zenon
  <1>. QED  BY <1>3, <1>4, Zenon DEF RemotePrefillDone

\* One request waits to be admitted, or waits on: nothing else moves.
LEMMA WaitingKeeps ==
    ASSUME IInv, NEW r \in Requests, state[r] \in {"New", "Bootstrapping"},
           NEW after, after \in {"Bootstrapping", "Submitted"}, state' = [state EXCEPT ![r] = after],
           RequestTypes', \A q \in Requests \ {r} : prompt'[q] = prompt[q],
           UNCHANGED <<resources, images, transfers, free>>
    PROVE  Bookkeeping'
  <1>. USE DEF IInv, Bookkeeping, StoreTypes
  <1>1. UNCHANGED <<row, table, extent, free_rows, free_slots, free_pages, blob_pages>>
    BY Zenon DEF resources, free
  <1>2. state'[r] = after /\ \A q \in Requests \ {r} : state'[q] = state[q]  BY Zenon DEF RequestTypes
  <1>3. ResourceTypes' /\ FreeTypes'  BY Zenon DEF ResourceTypes, resources, FreeTypes, free
  <1>4. Tickets' /\ SlotsOwnedOnce' /\ StoresKnown' /\ ImageTypes' /\ TransferTypes'
    BY <1>1, <1>2, ImagesStand
  <1>5. RowsOwnedOnce'  BY <1>1, <1>2, RowsStand, Zenon DEF transfers, Seated, HoldsPages
  <1>6. PagesOwnedOnce'  BY <1>1, <1>2, Zenon DEF PagesOwnedOnce, transfers, HoldsPages
  <1>7. Frontiers'  BY <1>1, <1>2, Zenon DEF Frontiers, images
  <1>. QED  BY <1>3, <1>4, <1>5, <1>6, <1>7, Zenon

\* SubmitRequests.
LEMMA SubmitKeeps ==
    ASSUME IInv, NEW r \in Requests, SubmitRequest(r)
    PROVE  Bookkeeping'
  <1>. USE DEF IInv, Bookkeeping, StoreTypes
  <1>. DEFINE after == IF Role = "Fused" THEN "Submitted" ELSE "Bootstrapping"
  <1>1. /\ state[r] = "New" /\ state' = [state EXCEPT ![r] = after]
        /\ UNCHANGED <<generated, retraction_count, generated_at_admission, resources, images,
                       transfers, free>>
    BY Zenon DEF SubmitRequest
  <1>2. PICK p \in PromptSizes, b \in Budgets :
            prompt' = [prompt EXCEPT ![r] = p] /\ max_new_tokens' = [max_new_tokens EXCEPT ![r] = b]
    BY Zenon DEF SubmitRequest
  <1>3. p \in Nat /\ b \in Nat /\ after \in {"Bootstrapping", "Submitted"}  BY SchedulerConstants, Zenon
  <1>. HIDE DEF after
  <1>4. RequestTypes'  BY <1>1, <1>2, <1>3, Zenon DEF RequestTypes, States
  <1>5. \A q \in Requests \ {r} : prompt'[q] = prompt[q]  BY <1>2, Zenon DEF RequestTypes
  <1>. QED  BY <1>1, <1>3, <1>4, <1>5, WaitingKeeps, Zenon

\* pd::BootstrappedEvent.
LEMMA BootstrappedKeeps ==
    ASSUME IInv, NEW r \in Requests, Bootstrapped(r)
    PROVE  Bookkeeping'
  <1>. USE DEF IInv, Bookkeeping, StoreTypes
  <1>1. /\ state[r] = "Bootstrapping" /\ state' = [state EXCEPT ![r] = BootstrappedEvent(@)]
        /\ UNCHANGED <<prompt, max_new_tokens, generated, retraction_count, generated_at_admission,
                       resources, images, transfers, free>>
    BY Zenon DEF Bootstrapped
  <1>2. state' = [state EXCEPT ![r] = "Submitted"]
    BY <1>1, Zenon DEF BootstrappedEvent, RequestTypes
  <1>3. RequestTypes'  BY <1>1, <1>2, Zenon DEF RequestTypes, States
  <1>. QED  BY <1>1, <1>2, <1>3, WaitingKeeps, Zenon

-----------------------------------------------------------------------------
(* The round. *)

\* The plan is closed: its rows are dispatched, and pages a scheduled request
\* has completed may start a store, which shares them with its table.
LEMMA EndRoundKeeps ==
    ASSUME IInv, EndRound
    PROVE  IInv'
  <1>. USE DEF IInv, Bookkeeping, StoreTypes
  <1>1. UNCHANGED <<request, resources, images, snapshot_stores, snapshot_restores, host_stores,
                    free, ended, failed>>
    BY Zenon DEF EndRound
  <1>2. round' \in Rounds
    <2>1. round' = [IdleRound EXCEPT !.stalled = Stalled, !.ran = round.rows # {}]  BY Zenon DEF EndRound
    <2>2. \A stalled, ran \in BOOLEAN : [IdleRound EXCEPT !.stalled = stalled, !.ran = ran] \in Rounds
      BY IdleRoundType DEF Rounds
    <2>3. Stalled \in BOOLEAN /\ (round.rows # {}) \in BOOLEAN  BY Zenon DEF Stalled
    <2>. QED  BY <2>1, <2>2, <2>3, Zenon
  <1>3. ControlTypes'
    <2>1. round.rows \in SUBSET (Requests \X Kinds)  BY Zenon DEF Rounds
    <2>2. in_flight' = in_flight \/ in_flight' = Append(in_flight, round.rows)  BY Zenon DEF EndRound
    <2>3. UNCHANGED <<ended, failed>>  BY <1>1, Zenon
    <2>. DEFINE Batches == SUBSET (Requests \X Kinds)
    <2>4. in_flight \in Seq(Batches) /\ round.rows \in Batches  BY <2>1, Zenon DEF ControlTypes
    <2>. HIDE DEF Batches
    <2>5. Append(in_flight, round.rows) \in Seq(Batches)  BY <2>4
    <2>6. in_flight' \in Seq(Batches)  BY <2>2, <2>4, <2>5, Zenon
    <2>. USE DEF Batches
    <2>. QED  BY <2>3, <2>6, Zenon DEF ControlTypes
  <1>4. CASE pinned_stores' = pinned_stores
    <2>1. UNCHANGED <<request, resources, images, transfers, free>>  BY <1>1, <1>4, Zenon DEF transfers
    <2>. QED  BY <1>2, <1>3, <2>1, NothingMoves
  <1>5. ASSUME NEW r \in round.scheduled, pinned_stores[Boundary] = {},
               pinned_stores' = [pinned_stores EXCEPT ![Boundary] = CompletedPages(r)]
        PROVE  Bookkeeping'
    <2>1. r \in Requests  BY Zenon DEF Rounds
    <2>2. CompletedPages(r) \subseteq table[r] /\ table[r] \subseteq Pages
      BY <2>1, Typed, CompletedPagesOwn, Zenon DEF ResourceTypes
    <2>3. Boundary \notin Requests /\ Boundary \in PinnedOps /\ Requests \subseteq PinnedOps
      BY SchedulerConstants, Zenon DEF Boundary, PinnedOps
    <2>4. /\ \A q \in Requests : pinned_stores'[q] = pinned_stores[q]
          /\ \A o \in PinnedOps : \/ pinned_stores'[o] = pinned_stores[o]
                                  \/ o = Boundary /\ pinned_stores'[o] = CompletedPages(r)
      BY <1>5, <2>3, Zenon DEF TransferTypes
    <2>5. UNCHANGED <<state, prompt, row, table, extent, snapshot_stores, snapshot_restores,
                      host_stores, free_rows, free_slots, free_pages, blob_pages, images>>
      BY <1>1, Zenon DEF request, resources, free
    <2>6. RequestTypes' /\ ResourceTypes' /\ ImageTypes' /\ FreeTypes'
      BY <1>1 DEF request, resources, images, free, RequestTypes, ResourceTypes, ImageTypes, FreeTypes
    <2>7. TransferTypes'  BY <1>5, <2>2, <2>5, Zenon DEF TransferTypes
    <2>8. Tickets'  BY <2>4, <2>5 DEF Tickets, RestoreInFlight, images
    <2>9. PagesOwnedOnce'
      <3>1. HeldPages(table, snapshot_restores, pinned_stores')
              = HeldPages(table, snapshot_restores, pinned_stores)
        <4>1. \A x : (\E o \in PinnedOps : x \in pinned_stores'[o]) =>
                        \/ \E o \in PinnedOps : x \in pinned_stores[o]
                        \/ \E q \in Requests : x \in table[q]
          BY <2>1, <2>2, <2>4, Zenon
        <4>2. \A x : (\E o \in PinnedOps : x \in pinned_stores[o]) =>
                        \E o \in PinnedOps : x \in pinned_stores'[o]
          BY <1>5, <2>4, Zenon
        <4>3. \A x : x \in HeldPages(table, snapshot_restores, pinned_stores')
                       <=> x \in HeldPages(table, snapshot_restores, pinned_stores)
          <5>. TAKE x
          <5>1. /\ (\E o \in PinnedOps : x \in pinned_stores'[o]) =>
                        \/ \E o \in PinnedOps : x \in pinned_stores[o]
                        \/ \E q \in Requests : x \in table[q]
                /\ (\E o \in PinnedOps : x \in pinned_stores[o]) =>
                        \E o \in PinnedOps : x \in pinned_stores'[o]
            BY <4>1, <4>2, Zenon
          <5>. QED  BY <5>1, HeldPagesElement, Zenon
        <4>. QED  BY <4>3, Zenon
      <3>. QED  BY <2>4, <2>5, <3>1, Zenon DEF PagesOwnedOnce
    <2>10. RowsOwnedOnce' /\ SlotsOwnedOnce' /\ Frontiers'
      BY <2>5, Zenon DEF RowsOwnedOnce, RestoreInFlight, SlotsOwnedOnce, SlotsOf, Frontiers, images
    <2>11. StoresKnown'
      <3>1. WriteBacksInFlight \subseteq WriteBacksInFlight'
        BY <1>5, <2>4, <2>5, Zenon DEF WriteBacksInFlight
      <3>. QED  BY <2>5, <3>1, Zenon DEF StoresKnown, images
    <2>. QED  BY <2>6, <2>7, <2>8, <2>9, <2>10, <2>11
  <1>. QED  BY <1>2, <1>3, <1>4, <1>5, Zenon DEF EndRound

\* What a step of the round owes the invariant besides its movement of resources.
LEMMA PlanKeeps ==
    ASSUME IInv, Bookkeeping', round' \in Rounds, UNCHANGED <<control, failed>>
    PROVE  IInv'
  BY Zenon DEF IInv, control, ControlTypes

\* The candidates of a phase are requests in the states its loop looks for.
LEMMA CandidateStates ==
    ASSUME NEW r \in Untried
    PROVE  /\ r \in Requests
           /\ round.phase = "readmit" => state[r] = "Retracted" /\ pending_store_ops[r] = {}
           /\ round.phase \in {"decode", "empty_decode", "handoff"} => state[r] \in {"PrefillDone", "Decoding"}
           /\ round.phase = "resident" => state[r] = "Prefilling"
           /\ round.phase \in {"prompts", "remote"} => state[r] = "Submitted"
  BY Zenon DEF Untried, PhaseCandidates, In, Landed

\* A chunk lies inside the prompt (PrefillChunk).
LEMMA ChunkInsidePrompt ==
    ASSUME IInv, NEW r \in Requests, state[r] \in {"Submitted", "Prefilling"}, ~Full
    PROVE  /\ ChunkTokens(r, round.token_budget) \in Nat
           /\ extent[r] + ChunkTokens(r, round.token_budget) <= prompt[r]
  <1>. USE DEF IInv, Bookkeeping, StoreTypes
  <1>1. extent[r] \in Nat /\ prompt[r] \in Nat /\ extent[r] <= prompt[r]
    BY DEF Frontiers, ResourceTypes, RequestTypes
  <1>2. round.token_budget \in Int /\ round.token_budget > 0  BY DEF Full, Rounds
  <1>. QED  BY <1>1, <1>2 DEF ChunkTokens, Min2

\* A phase ends without moving a request.
LEMMA PhaseEndKeeps ==
    ASSUME IInv, StartRound \/ EndPhase \/ StopRetracting
    PROVE  IInv'
  <1>. USE DEF IInv
  <1>1. UNCHANGED <<request, resources, images, transfers, free>> /\ UNCHANGED <<control, failed>>
    BY Zenon DEF StartRound, EndPhase, StopRetracting
  <1>2. round' \in Rounds
    <2>1. CASE StartRound
      <3>1. FirstPhase \in Phases /\ MaxScheduledTokens \in Int
        BY SchedulerConstants DEF FirstPhase, Phases
      <3>. QED  BY <2>1, <3>1, IdleRoundType, Zenon DEF StartRound, Rounds
    <2>2. CASE EndPhase
      <3>1. AfterPrefillWork(round) \in Phases /\ Leave(round) \in Rounds  BY NextPhase, Zenon
      <3>2. \A phase \in Phases : LeaveFor(round, phase) \in Rounds  BY Zenon DEF LeaveFor, Rounds
      <3>. QED  BY <2>2, <3>1, <3>2, Zenon DEF EndPhase
    <2>3. CASE StopRetracting
      BY <2>3, Zenon DEF StopRetracting, LeaveFor, Rounds, Phases
    <2>. QED  BY <2>1, <2>2, <2>3, Zenon
  <1>. QED  BY <1>1, <1>2, NothingMoves, PlanKeeps, Zenon

\* scheduleReadmission.
LEMMA ScheduleReadmissionKeeps ==
    ASSUME IInv, ScheduleReadmission
    PROVE  IInv'
  <1>. USE DEF IInv
  <1>1. UNCHANGED <<prompt, max_new_tokens>> /\ UNCHANGED <<control, failed>>
    BY Zenon DEF ScheduleReadmission, Elsewhere
  <1>2. PICK r \in NextReadmission :
           \/ /\ free_rows = {}
              /\ round' = Leave(round)
              /\ UNCHANGED <<request, resources, images, transfers, free>>
           \/ /\ free_rows # {} /\ ~Fits(RestoreDemand(r))
              /\ round' = [Tried(round, r) EXCEPT !.sealed = TRUE]
              /\ UNCHANGED <<request, resources, images, transfers, free>>
           \/ /\ free_rows # {} /\ Fits(RestoreDemand(r))
              /\ StartRestore(r)
              /\ round' = Leave([round EXCEPT !.scheduled = @ \cup {r}, !.restored = TRUE, !.cache_ops = TRUE])
    BY Zenon DEF ScheduleReadmission
  <1>3. r \in Requests /\ state[r] = "Retracted" /\ pending_store_ops[r] = {}
    BY CandidateStates DEF NextReadmission, ScheduleReadmission
  <1>4. Bookkeeping'
    BY <1>1, <1>2, <1>3, NothingMoves, StartRestoreKeeps, Zenon
  <1>5. round' \in Rounds
    <2>1. Tried(round, r) \in Rounds
          /\ [round EXCEPT !.scheduled = @ \cup {r}, !.restored = TRUE, !.cache_ops = TRUE] \in Rounds
      BY <1>3, TriedRound, RestoreRound, Zenon
    <2>2. [Tried(round, r) EXCEPT !.sealed = TRUE] \in Rounds  BY <1>3, <2>1, RestoreRound
    <2>. QED  BY <1>2, <2>1, <2>2, NextPhase
  <1>. QED  BY <1>1, <1>4, <1>5, PlanKeeps, Zenon

\* scheduleDecodeBatch, and the hand-off to the peer.
LEMMA DecodesKeep ==
    ASSUME IInv, ScheduleDecodeBatch \/ HandOff
    PROVE  IInv'
  <1>. USE DEF IInv
  <1>1. UNCHANGED <<prompt, max_new_tokens>> /\ UNCHANGED <<control, failed>>
    BY Zenon DEF ScheduleDecodeBatch, HandOff, Elsewhere
  <1>2. PICK r \in FirstOf(Untried) :
           /\ \/ Fits(Missing(r, 1, 0)) /\ DecodeStep(r)
              \/ UNCHANGED <<request, resources, images, transfers, free>>
           /\ round' \in {PushDecode(round, r), PushRemote(round, r), Tried(round, r),
                          NoteCapacityBlocked(Tried(round, r), r)}
    BY Zenon DEF ScheduleDecodeBatch, HandOff
  <1>3. r \in Requests /\ state[r] \in {"PrefillDone", "Decoding"}
    BY CandidateStates DEF FirstOf, ScheduleDecodeBatch, HandOff
  <1>4. Bookkeeping'  BY <1>1, <1>2, <1>3, NothingMoves, DecodeStepKeeps, Zenon
  <1>5. round' \in Rounds
    <2>1. Tried(round, r) \in Rounds  BY <1>3, TriedRound, Zenon
    <2>2. NoteCapacityBlocked(Tried(round, r), r) \in Rounds  BY <1>3, <2>1, BlockedRound
    <2>3. PushDecode(round, r) \in Rounds /\ PushRemote(round, r) \in Rounds
      BY <1>3, DecodeRound, RemoteRound, Zenon
    <2>. QED  BY <1>2, <2>1, <2>2, <2>3
  <1>. QED  BY <1>1, <1>4, <1>5, PlanKeeps, Zenon

\* A prompt chunk is pushed, and an incomplete one ends the tier.
LEMMA PushedRound ==
    ASSUME NEW rd \in Rounds, NEW r \in Requests, NEW t \in Int, NEW kind \in Kinds
    PROVE  LET pushed == PushPrefill(rd, r, t, kind)
           IN  pushed \in Rounds /\ LeaveFor(pushed, AfterPrefillWork(pushed)) \in Rounds
  <1>. DEFINE pushed == PushPrefill(rd, r, t, kind)
  <1>1. pushed \in Rounds  BY PrefillRound, Zenon
  <1>. HIDE DEF pushed
  <1>2. AfterPrefillWork(pushed) \in Phases  BY <1>1, NextPhase
  <1>3. LeaveFor(pushed, AfterPrefillWork(pushed)) \in Rounds  BY <1>1, <1>2, LeftRound, Zenon
  <1>. QED  BY <1>1, <1>3, Zenon DEF pushed

\* scheduleLocalPrefillWork, resident tier.
LEMMA ScheduleResidentKeeps ==
    ASSUME IInv, ScheduleResident
    PROVE  IInv'
  <1>. USE DEF IInv
  <1>. DEFINE tokens(r) == ChunkTokens(r, round.token_budget)
  <1>1. UNCHANGED <<prompt, max_new_tokens>> /\ UNCHANGED <<control, failed>>
    BY Zenon DEF ScheduleResident, Elsewhere
  <1>2. PICK r \in FirstOf(Untried), kind \in Kinds :
           \/ /\ Fits(ChunkDemand(r, tokens(r))) /\ NextChunk(r, tokens(r))
              /\ \/ round' = PushPrefill(round, r, tokens(r), kind)
                 \/ round' = LeaveFor(PushPrefill(round, r, tokens(r), kind),
                                      AfterPrefillWork(PushPrefill(round, r, tokens(r), kind)))
           \/ /\ round' = LeaveFor(NoteCapacityBlocked(round, r),
                                   AfterPrefillWork(NoteCapacityBlocked(round, r)))
              /\ UNCHANGED <<request, resources, images, transfers, free>>
    BY Zenon DEF ScheduleResident, Kinds
  <1>3. r \in Requests /\ state[r] = "Prefilling"
    BY CandidateStates, Zenon DEF FirstOf, ScheduleResident
  <1>4. ~Full  BY DEF ScheduleResident, LoopStops
  <1>5. tokens(r) \in Nat /\ extent[r] + tokens(r) <= prompt[r]  BY <1>3, <1>4, ChunkInsidePrompt, Zenon
  <1>. HIDE DEF tokens
  <1>6. Bookkeeping'  BY <1>1, <1>2, <1>3, <1>5, NothingMoves, NextChunkKeeps
  <1>7. round' \in Rounds
    <2>1. NoteCapacityBlocked(round, r) \in Rounds  BY <1>3, BlockedRound, Zenon
    <2>2. AfterPrefillWork(NoteCapacityBlocked(round, r)) \in Phases  BY <2>1, NextPhase, Zenon
    <2>3. LeaveFor(NoteCapacityBlocked(round, r), AfterPrefillWork(NoteCapacityBlocked(round, r))) \in Rounds
      BY <2>1, <2>2, LeftRound
    <2>. DEFINE pushed == PushPrefill(round, r, tokens(r), kind)
    <2>4. pushed \in Rounds /\ LeaveFor(pushed, AfterPrefillWork(pushed)) \in Rounds
      BY <1>3, <1>5, PushedRound
    <2>. QED  BY <1>2, <2>3, <2>4, Zenon
  <1>. QED  BY <1>1, <1>6, <1>7, PlanKeeps

\* ... and its new-prompt tier.
LEMMA SchedulePromptKeeps ==
    ASSUME IInv, SchedulePrompt
    PROVE  IInv'
  <1>. USE DEF IInv
  <1>. DEFINE tokens(r) == ChunkTokens(r, round.token_budget)
  <1>1. UNCHANGED <<prompt, max_new_tokens>> /\ UNCHANGED <<control, failed>>
    BY Zenon DEF SchedulePrompt, Elsewhere
  <1>2. PICK r \in FirstOf(Untried), kind \in Kinds :
           \/ /\ free_rows # {} /\ Fits(FirstChunkDemand(r, tokens(r))) /\ FirstChunk(r, tokens(r))
              /\ \/ round' = PushPrefill(round, r, tokens(r), kind)
                 \/ round' = LeaveFor(PushPrefill(round, r, tokens(r), kind),
                                      AfterPrefillWork(PushPrefill(round, r, tokens(r), kind)))
           \/ /\ round' \in {Tried(round, r), NoteCapacityBlocked(Tried(round, r), r)}
              /\ UNCHANGED <<request, resources, images, transfers, free>>
    BY Zenon DEF SchedulePrompt, Kinds
  <1>3. r \in Requests /\ state[r] = "Submitted"
    BY CandidateStates, Zenon DEF FirstOf, SchedulePrompt
  <1>4. ~Full  BY Zenon DEF SchedulePrompt, LoopStops
  <1>5. tokens(r) \in Nat /\ tokens(r) <= prompt[r]
    <2>1. extent[r] \in Nat /\ prompt[r] \in Nat
      BY <1>3, Zenon DEF Bookkeeping, StoreTypes, ResourceTypes, RequestTypes
    <2>2. tokens(r) \in Nat /\ extent[r] + tokens(r) <= prompt[r]  BY <1>3, <1>4, ChunkInsidePrompt
    <2>. HIDE DEF tokens, IInv
    <2>. QED  BY <2>1, <2>2
  <1>. HIDE DEF tokens
  <1>6. Bookkeeping'  BY <1>1, <1>2, <1>3, <1>5, NothingMoves, FirstChunkKeeps, Zenon
  <1>7. round' \in Rounds
    <2>1. Tried(round, r) \in Rounds  BY <1>3, TriedRound, Zenon
    <2>2. NoteCapacityBlocked(Tried(round, r), r) \in Rounds  BY <1>3, <2>1, BlockedRound
    <2>. DEFINE pushed == PushPrefill(round, r, tokens(r), kind)
    <2>3. pushed \in Rounds /\ LeaveFor(pushed, AfterPrefillWork(pushed)) \in Rounds
      BY <1>3, <1>5, PushedRound
    <2>. QED  BY <1>2, <2>1, <2>2, <2>3, Zenon
  <1>. QED  BY <1>1, <1>6, <1>7, PlanKeeps, Zenon

\* The remote admission of a D node.
LEMMA ScheduleRemotePromptKeeps ==
    ASSUME IInv, ScheduleRemotePrompt
    PROVE  IInv'
  <1>. USE DEF IInv
  <1>1. UNCHANGED <<prompt, max_new_tokens>> /\ UNCHANGED <<control, failed>>
    BY Zenon DEF ScheduleRemotePrompt, Elsewhere
  <1>2. PICK r \in FirstOf(Untried) :
           \/ /\ free_rows # {} /\ Fits(FirstChunkDemand(r, prompt[r])) /\ FirstChunk(r, prompt[r])
              /\ round' = Leave(PushRemote(round, r))
           \/ /\ round' \in {Tried(round, r), NoteCapacityBlocked(Tried(round, r), r)}
              /\ UNCHANGED <<request, resources, images, transfers, free>>
    BY Zenon DEF ScheduleRemotePrompt
  <1>3. r \in Requests /\ state[r] = "Submitted"
    BY CandidateStates, Zenon DEF FirstOf, ScheduleRemotePrompt
  <1>4. prompt[r] \in Nat /\ prompt[r] <= prompt[r]
    BY <1>3 DEF Bookkeeping, StoreTypes, RequestTypes
  <1>5. Bookkeeping'  BY <1>1, <1>2, <1>3, <1>4, NothingMoves, FirstChunkKeeps
  <1>6. round' \in Rounds
    <2>1. Tried(round, r) \in Rounds /\ PushRemote(round, r) \in Rounds
      BY <1>3, TriedRound, RemoteRound, Zenon
    <2>2. NoteCapacityBlocked(Tried(round, r), r) \in Rounds  BY <1>3, <2>1, BlockedRound
    <2>. QED  BY <1>2, <2>1, <2>2, NextPhase
  <1>. QED  BY <1>1, <1>5, <1>6, PlanKeeps, Zenon

-----------------------------------------------------------------------------
(* Capacity retraction. *)

\* A victim runs (SnapshotRetractEvent is defined for its state), and the
\* pages go to a request.
LEMMA VictimAndBeneficiary ==
    ASSUME round \in Rounds, NEW victim \in chooseVictim
    PROVE  /\ victim \in Requests /\ state[victim] \in Suspendable
           /\ FittingVictims # {} => free_slots # {}
           /\ Beneficiary(victim) \subseteq Requests \cup {None}
  <1>1. victim \in Victims  BY Zenon DEF chooseVictim, FittingVictims
  <1>2. victim \in Requests /\ state[victim] \in Suspendable
    BY <1>1, Zenon DEF Victims, Retractable, In
  <1>3. FittingVictims # {} => free_slots # {}  BY Zenon DEF FittingVictims, imageFits
  <1>4. Beneficiary(victim) \subseteq Requests \cup {None}
    <2>1. round.blocker \in Requests \cup {None}  BY Zenon DEF Rounds
    <2>2. \A i \in DOMAIN round.blocked : round.blocked[i] \in Requests
      <3>1. round.blocked \in Seq(Requests)  BY Zenon DEF Rounds
      <3>. QED  BY <3>1
    <2>. QED  BY <1>2, <2>1, <2>2, Zenon DEF Beneficiary, FirstOf, In
  <1>. QED  BY <1>2, <1>3, <1>4, Zenon

\* The next round of the retraction loop is a round.
LEMMA ServeNextRound ==
    ASSUME NEW rd \in Rounds, NEW b \in Requests \cup {None}
    PROVE  ServeNext(rd, b) \in Rounds
  <1>. DEFINE served == [rd EXCEPT !.blocker = b]
              phase == IF EmptyRound THEN "empty_decode" ELSE "grant"
  <1>1. served \in Rounds /\ phase \in Phases  BY VictimRound, Zenon DEF Phases
  <1>. HIDE DEF served, phase
  <1>2. LeaveFor(served, phase) \in Rounds  BY <1>1, LeftRound
  <1>. QED  BY <1>2, Zenon DEF ServeNext, served, phase

\* retractVictim.
LEMMA RetractVictimKeeps ==
    ASSUME IInv, RetractVictim
    PROVE  IInv'
  <1>. USE DEF IInv
  <1>1. UNCHANGED <<prompt, max_new_tokens>> /\ UNCHANGED <<control, failed>> /\ FittingVictims # {}
    BY Zenon DEF RetractVictim, Elsewhere
  <1>2. PICK victim \in chooseVictim, b \in Requests \cup {None} :
           /\ \E n \in IF HasHostPool THEN 0 .. PagesFor(extent[victim]) ELSE {PagesFor(extent[victim])},
                 leg \in BOOLEAN, earlier \in SUBSET WriteBacksInFlight :
                 Retract(victim, n, leg, earlier)
           /\ round' = ServeNext([round EXCEPT !.cache_ops = TRUE], b)
    <2>1. \A v \in chooseVictim : Beneficiary(v) \subseteq Requests \cup {None}
      BY VictimAndBeneficiary, Zenon
    <2>. QED  BY <2>1, Zenon DEF RetractVictim
  <1>3. /\ victim \in Requests /\ state[victim] \in Suspendable /\ free_slots # {}
    BY <1>1, VictimAndBeneficiary, Zenon
  <1>4. PICK n \in IF HasHostPool THEN 0 .. PagesFor(extent[victim]) ELSE {PagesFor(extent[victim])},
             leg \in BOOLEAN, earlier \in SUBSET WriteBacksInFlight :
             Retract(victim, n, leg, earlier)
    BY <1>2, Zenon
  <1>5. n \in Nat
    <2>1. extent[victim] \in Nat  BY <1>3, Zenon DEF Bookkeeping, StoreTypes, ResourceTypes
    <2>2. PagesFor(extent[victim]) \in Nat  BY <2>1, WindowMonotone DEF PagesFor
    <2>. QED  BY <2>2
  <1>6. Bookkeeping'  BY <1>1, <1>3, <1>4, <1>5, RetractKeeps, Zenon
  <1>7. round' \in Rounds
    <2>1. [round EXCEPT !.cache_ops = TRUE] \in Rounds  BY <1>3, VictimRound, Zenon
    <2>. QED  BY <1>2, <2>1, ServeNextRound, Zenon
  <1>. QED  BY <1>1, <1>6, <1>7, PlanKeeps, Zenon

\* onImageDoesNotFit.
LEMMA AbortVictimKeeps ==
    ASSUME IInv, AbortVictim
    PROVE  IInv'
  <1>. USE DEF IInv
  <1>1. UNCHANGED <<prompt, max_new_tokens, generated, retraction_count, generated_at_admission,
                    in_flight, failed>>
    BY Zenon DEF AbortVictim
  <1>2. PICK victim \in chooseVictim, b \in Requests \cup {None} :
           /\ AbortEvent(victim)
           /\ ended' = ended \cup {victim}
           /\ round' = ServeNext([round EXCEPT !.aborted = TRUE], b)
    <2>1. \A v \in chooseVictim : Beneficiary(v) \subseteq Requests \cup {None}
      BY VictimAndBeneficiary, Zenon
    <2>. QED  BY <2>1, Zenon DEF AbortVictim
  <1>3. victim \in Requests  BY VictimAndBeneficiary, Zenon
  <1>4. Bookkeeping'  BY <1>1, <1>2, <1>3, AbortKeeps, Zenon
  <1>5. round' \in Rounds
    <2>1. [round EXCEPT !.aborted = TRUE] \in Rounds  BY <1>3, VictimRound, Zenon
    <2>. QED  BY <1>2, <2>1, ServeNextRound
  <1>6. ControlTypes'  BY <1>1, <1>2, <1>3 DEF ControlTypes
  <1>. QED  BY <1>4, <1>5, <1>6, Zenon

\* The blocked admission is retried on the victim's pages.
LEMMA GrantKeeps ==
    ASSUME IInv, Grant
    PROVE  IInv'
  <1>. USE DEF IInv
  <1>. DEFINE tokens(r) == ChunkTokens(r, round.token_budget)
  <1>1. UNCHANGED <<prompt, max_new_tokens>> /\ UNCHANGED <<control, failed>>
    BY Zenon DEF Grant, Elsewhere
  <1>2. PICK b \in Requests, kind \in Kinds :
           \/ /\ round' \in {LeaveFor(round, "end"), LeaveFor(round, "retract")}
              /\ UNCHANGED <<request, resources, images, transfers, free>>
           \/ /\ state[b] \in {"PrefillDone", "Decoding"} /\ Fits(Missing(b, 1, 0))
              /\ DecodeStep(b)
              /\ round' = LeaveFor(PushDecode(round, b), "end")
           \/ /\ ~GrantStops /\ b = round.blocker /\ state[b] = "Prefilling" /\ Fits(ChunkDemand(b, tokens(b)))
              /\ NextChunk(b, tokens(b))
              /\ round' = LeaveFor(PushPrefill(round, b, tokens(b), kind), "end")
           \/ /\ ~GrantStops /\ b = round.blocker /\ state[b] = "Submitted"
              /\ Fits(FirstChunkDemand(b, tokens(b)))
              /\ FirstChunk(b, tokens(b))
              /\ \/ round' = LeaveFor(PushRemote(round, b), "end")
                 \/ round' = LeaveFor(PushPrefill(round, b, tokens(b), kind), "end")
    BY Zenon DEF Grant, Kinds
  <1>3. ~GrantStops => ~Full  BY Zenon DEF GrantStops
  <1>4. ~GrantStops /\ state[b] \in {"Submitted", "Prefilling"} =>
            tokens(b) \in Nat /\ extent[b] + tokens(b) <= prompt[b]
    BY <1>3, ChunkInsidePrompt, Zenon
  <1>5. ~GrantStops /\ b = round.blocker /\ state[b] = "Submitted" => free_rows # {}
    BY Zenon DEF GrantStops
  <1>6. extent[b] \in Nat /\ prompt[b] \in Nat
    BY Zenon DEF Bookkeeping, StoreTypes, ResourceTypes, RequestTypes
  <1>. HIDE DEF tokens
  <1>7. ~GrantStops /\ state[b] = "Submitted" => tokens(b) <= prompt[b]  BY <1>4, <1>6
  <1>8. Bookkeeping'
    BY <1>1, <1>2, <1>4, <1>5, <1>7, NothingMoves, DecodeStepKeeps, NextChunkKeeps, FirstChunkKeeps
  <1>9. round' \in Rounds
    <2>1. "end" \in Phases /\ "retract" \in Phases  BY Zenon DEF Phases
    <2>2. PushDecode(round, b) \in Rounds /\ PushRemote(round, b) \in Rounds
      BY DecodeRound, RemoteRound, Zenon
    <2>3. tokens(b) \in Nat => PushPrefill(round, b, tokens(b), kind) \in Rounds  BY PrefillRound
    <2>4. \A rd \in Rounds : LeaveFor(rd, "end") \in Rounds /\ LeaveFor(rd, "retract") \in Rounds
      BY <2>1, LeftRound, Zenon
    <2>. QED  BY <1>2, <1>4, <2>2, <2>3, <2>4, Zenon
  <1>. QED  BY <1>1, <1>8, <1>9, PlanKeeps, Zenon

-----------------------------------------------------------------------------
(* The induction. *)

\* The books are in order before the first request.
LEMMA InitBooks == Init => IInv
  <1>. SUFFICES ASSUME Init PROVE IInv  BY Zenon
  <1>. USE DEF Init
  <1>1. RequestTypes /\ ResourceTypes  BY Zenon DEF RequestTypes, ResourceTypes
  <1>2. ImageTypes  BY Zenon DEF ImageTypes
  <1>3. NoRestore \in Restores  BY Zenon DEF NoRestore, Restores
  <1>4. TransferTypes /\ FreeTypes  BY <1>3, Zenon DEF TransferTypes, FreeTypes
  <1>5. \A r \in Requests : /\ snapshot_restores[r].row = None /\ snapshot_restores[r].slot = None
                            /\ \A x : x \notin snapshot_restores[r].pages
    BY Zenon DEF NoRestore
  <1>6. Frontiers  BY Zenon DEF Frontiers
  <1>7. Tickets  BY <1>5 DEF Tickets, RestoreInFlight, PinnedOps
  <1>8. RowsOwnedOnce
    BY <1>5, SchedulerConstants, Zenon DEF RowsOwnedOnce, RestoreInFlight, HoldsPages
  <1>9. PagesOwnedOnce
    <2>1. \A x : x \notin HeldPages(table, snapshot_restores, pinned_stores)
      <3>. TAKE x
      <3>1. /\ ~ \E q \in Requests : x \in table[q]
            /\ ~ \E q \in Requests : x \in snapshot_restores[q].pages
            /\ ~ \E o \in PinnedOps : x \in pinned_stores[o]
        BY <1>5, Zenon
      <3>. QED  BY <3>1, HeldPagesNow, Zenon
    <2>2. free_pages = Pages \ HeldPages(table, snapshot_restores, pinned_stores)  BY <2>1, Zenon
    <2>. QED  BY <1>5, <2>2 DEF PagesOwnedOnce, PinnedOps
  <1>10. SlotsOwnedOnce
    <2>1. \A q \in Requests : SlotsOf(q) = {None}  BY <1>5 DEF SlotsOf
    <2>2. \A x \in Slots : x \notin HeldSlots(blob_slot, snapshot_stores, snapshot_restores)
      BY <2>1, HeldSlotsElement, SchedulerConstants, Zenon
    <2>3. free_slots = Slots \ HeldSlots(blob_slot, snapshot_stores, snapshot_restores)  BY <2>2, Zenon
    <2>. QED  BY <2>1, <2>3, Zenon DEF SlotsOwnedOnce
  <1>11. StoresKnown  BY Zenon DEF StoresKnown
  <1>12. round \in Rounds /\ ControlTypes  BY IdleRoundType DEF ControlTypes
  <1>. QED  BY <1>1, <1>2, <1>4, <1>6, <1>7, <1>8, <1>9, <1>10, <1>11, <1>12
            DEF IInv, Bookkeeping, StoreTypes

\* The round keeps them, one phase at a time.
LEMMA PlanStepKeeps == IInv /\ PlanStep => IInv'
  BY PhaseEndKeeps, ScheduleReadmissionKeeps, DecodesKeep, ScheduleResidentKeeps, SchedulePromptKeeps,
     ScheduleRemotePromptKeeps, RetractVictimKeeps, AbortVictimKeeps, GrantKeeps, EndRoundKeeps
     DEF PlanStep

\* The results of a batch keep them.
LEMMA CommitKeeps == IInv /\ Commit => IInv'
  <1>. SUFFICES ASSUME IInv, Commit PROVE IInv'  BY Zenon
  <1>1. PICK S \in SUBSET Requests : Settlement(S)  BY CommitSettles, Zenon
  <1>2. Bookkeeping'  BY <1>1, SettlementKeeps, Zenon
  <1>3. round' \in Rounds  BY Zenon DEF Commit, IInv
  <1>. DEFINE Batches == SUBSET (Requests \X Kinds)
              batch == Head(in_flight)
              committed == {x[1] : x \in batch}
  <1>4. in_flight \in Seq(Batches) /\ Len(in_flight) > 0
    <2>1. Len(in_flight) > Uncommitted  BY Zenon DEF Commit
    <2>2. Uncommitted \in Nat  BY SchedulerConstants, Zenon DEF Uncommitted
    <2>3. in_flight \in Seq(SUBSET (Requests \X Kinds))  BY Zenon DEF IInv, ControlTypes
    <2>. QED  BY <2>1, <2>2, <2>3
  <1>5. in_flight' = Tail(in_flight)  BY Zenon DEF Commit
  <1>6. Tail(in_flight) \in Seq(Batches) /\ batch \in Batches
    <2>. HIDE DEF Batches
    <2>. QED  BY <1>4
  <1>7. committed \subseteq Requests  BY <1>6, Zenon
  <1>8. ended' \subseteq ended \cup committed
    BY Zenon DEF Commit
  <1>9. failed' \subseteq failed \cup {"undefined transition", "result not in flight"}
    BY Zenon DEF Commit
  <1>10. ended \subseteq Requests /\ failed \subseteq {"undefined transition", "result not in flight"}
    BY Zenon DEF IInv, ControlTypes
  <1>. HIDE DEF batch, committed
  <1>11. ended' \subseteq Requests  BY <1>7, <1>8, <1>10
  <1>12. ControlTypes'  BY <1>5, <1>6, <1>9, <1>10, <1>11, Zenon DEF ControlTypes
  <1>. QED  BY <1>2, <1>3, <1>12, Zenon DEF IInv

\* So do acknowledgements, notifications, submissions and aborts.
LEMMA EventsKeep ==
    IInv /\ (Acknowledge \/ PeerNotifies \/ \E r \in Requests : SubmitRequest(r) \/ Abort(r)) => IInv'
  <1>. SUFFICES ASSUME IInv PROVE
         /\ Acknowledge => IInv'
         /\ PeerNotifies => IInv'
         /\ (\E r \in Requests : SubmitRequest(r) \/ Abort(r)) => IInv'
    BY Zenon
  <1>1. ASSUME NEW r \in Requests,
               SnapshotDone(r) \/ HostStoreDone(r) \/ RestoreDone(r) \/ Bootstrapped(r) \/ SubmitRequest(r)
        PROVE  IInv'
    <2>1. Bookkeeping'
      BY <1>1, SnapshotDoneKeeps, HostStoreDoneKeeps, RestoreDoneKeeps, BootstrappedKeeps, SubmitKeeps, Zenon
    <2>2. UNCHANGED <<round, control, failed>>
      BY <1>1 DEF SnapshotDone, HostStoreDone, RestoreDone, Bootstrapped, SubmitRequest
    <2>. QED  BY <2>1, <2>2, PlanKeeps DEF IInv
  <1>2. ASSUME NEW o \in PinnedOps, PinnedStoreDone(o)
        PROVE  IInv'
    <2>1. UNCHANGED <<round, control, failed>>  BY <1>2 DEF PinnedStoreDone
    <2>. QED  BY <1>2, <2>1, PinnedStoreDoneKeeps, PlanKeeps, Zenon DEF IInv
  <1>3. ASSUME NEW r \in Requests, Succeeded(r) \/ RemotePrefillDone(r) \/ Abort(r)
        PROVE  IInv'
    <2>1. Bookkeeping'
      <3>1. CASE Abort(r)
        <4>1. AbortEvent(r) /\ UNCHANGED <<prompt, max_new_tokens, generated, retraction_count,
                                           generated_at_admission>>
          BY <3>1, Zenon DEF Abort
        <4>. QED  BY <4>1, AbortKeeps, Zenon
      <3>. QED  BY <1>3, <3>1, SucceededKeeps, RemotePrefillDoneKeeps
    <2>2. UNCHANGED <<round, in_flight, failed>>
      BY <1>3, Zenon DEF Succeeded, RemotePrefillDone, Abort
    <2>3. ended' \subseteq ended \cup {r}
      BY <1>3, Zenon DEF Succeeded, RemotePrefillDone, Abort, FinishNow
    <2>. QED  BY <2>1, <2>2, <2>3, Zenon DEF IInv, ControlTypes
  <1>. QED  BY <1>1, <1>2, <1>3, Zenon DEF Acknowledge, PeerNotifies

\* The invariant is inductive.
THEOREM Induction == Spec => []IInv
  <1>1. IInv /\ [Next]_vars => IInv'
    <2>1. IInv /\ UNCHANGED vars => IInv'
      <3>. SUFFICES ASSUME IInv, UNCHANGED vars PROVE IInv'  BY Zenon
      <3>1. UNCHANGED <<request, resources, images, transfers, free>> /\ UNCHANGED <<round, control, failed>>
        BY Zenon DEF vars
      <3>. QED  BY <3>1, NothingMoves, PlanKeeps, Zenon DEF IInv
    <2>. QED  BY <2>1, PlanStepKeeps, CommitKeeps, EventsKeep DEF Next
  <1>. QED  BY <1>1, InitBooks, PTL DEF Spec

\* The state keeps the shape of the code's types, whatever the size of the
\* pools, the role, the budgets and the order of events.
THEOREM TypeCorrect == Spec => []TypeOK
  BY Induction, Typed, PTL

\* No row of the request pool is lost, or in two hands, across aborts,
\* retractions and restores in flight.
THEOREM RowsAreOwnedOnce == Spec => []RowsOwnedOnce
  <1>1. IInv => RowsOwnedOnce  BY DEF IInv, Bookkeeping
  <1>. QED  BY <1>1, Induction, PTL

\* No Device page is lost, or granted while a table or a copy in flight still
\* refers to it.
THEOREM PagesAreOwnedOnce == Spec => []PagesOwnedOnce
  <1>1. IInv => PagesOwnedOnce  BY Zenon DEF IInv, Bookkeeping
  <1>. QED  BY <1>1, Induction, PTL

\* No blob slot is lost, or reused while a store or a restore still reads or
\* writes it.
THEOREM SlotsAreOwnedOnce == Spec => []SlotsOwnedOnce
  <1>1. IInv => SlotsOwnedOnce  BY Zenon DEF IInv, Bookkeeping
  <1>. QED  BY <1>1, Induction, PTL

\* An image is restored only when every store of it has landed.
THEOREM RestoresAreOfLandedImages == Spec => []RestoresLandedImages
  <1>1. IInv => RestoresLandedImages
    BY Zenon DEF IInv, Bookkeeping, Tickets, StoresKnown, RestoresLandedImages
  <1>. QED  BY <1>1, Induction, PTL
=============================================================================
