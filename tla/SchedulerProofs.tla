--------------------------- MODULE SchedulerProofs ---------------------------
(***************************************************************************)
(* Every step of the scheduler keeps the books: the types, and that rows,  *)
(* pages and blob slots have one owner, for every number of requests,      *)
(* pages, rows and slots, every role and every budget.                     *)
(***************************************************************************)
EXTENDS SchedulerLemmas

-----------------------------------------------------------------------------
(* Restores and acknowledgements. *)

\* The pages an image is copied into are among those the restore admitted.
LEMMA RestorePages ==
    ASSUME IInv, NEW r \in Requests, state[r] = "Retracted", Fits(RestoreDemand(r))
    PROVE  /\ Pick(free_pages, RestoreDemand(r)) \subseteq free_pages
           /\ Pick(Pick(free_pages, RestoreDemand(r)), PagesFor(extent[r]))
                 \subseteq Pick(free_pages, RestoreDemand(r))
  <1>. DEFINE n == RestoreDemand(r)
              fresh == Pick(free_pages, n)
  <1>. USE DEF IInv, Bookkeeping, StoreTypes
  <1>1. shape[r] = "Prefilling" => extent[r] <= prompt[r]  BY Zenon DEF Frontiers
  <1>2. n \in Nat /\ PagesFor(extent[r]) <= n
    <2>1. 0 \in Nat  BY Zenon
    <2>. QED  BY <1>1, <2>1, Typed, DemandNat, Zenon
  <1>3. extent[r] \in Nat  BY Zenon DEF ResourceTypes
  <1>4. PagesFor(extent[r]) \in Nat  BY <1>3, WindowMonotone DEF PagesFor
  <1>. HIDE DEF n
  <1>6. fresh \subseteq free_pages /\ Cardinality(fresh) = n  BY <1>2, PickPages, Zenon DEF n
  <1>. HIDE DEF fresh
  <1>7. fresh \in SUBSET Pages /\ PagesFor(extent[r]) \in 0 .. Cardinality(fresh)
    BY <1>2, <1>4, <1>6 DEF FreeTypes
  <1>8. Pick(fresh, PagesFor(extent[r])) \subseteq fresh  BY <1>7, PickGrants, Zenon
  <1>. QED  BY <1>6, <1>8, Zenon DEF fresh, n

\* A restore starts (scheduleRestore): the ticket takes the row.
LEMMA StartRestoreKeeps ==
    ASSUME IInv, NEW r \in Requests, state[r] = "Retracted", pending_store_ops[r] = {},
           free_rows # {}, Fits(RestoreDemand(r)), StartRestore(r),
           UNCHANGED <<prompt, max_new_tokens>>
    PROVE  Bookkeeping'
  <1>. DEFINE fresh == Pick(free_pages, RestoreDemand(r))
              imaged == Pick(fresh, PagesFor(extent[r]))
  <1>. USE DEF IInv, Bookkeeping, StoreTypes
  <1>1. fresh \subseteq free_pages /\ imaged \subseteq fresh  BY RestorePages, Zenon
  <1>2. PICK i \in Pick(free_rows, 1) :
            /\ free_rows' = free_rows \ {i}
            /\ snapshot_restores' = [snapshot_restores EXCEPT ![r] =
                  [slot |-> blob_slot[r], row |-> i, pages |-> imaged]]
    BY Zenon DEF StartRestore
  <1>3. table' = [table EXCEPT ![r] = fresh] /\ free_pages' = free_pages \ fresh
    BY Zenon DEF StartRestore
  <1>. HIDE DEF fresh, imaged
  <1>4. i \in free_rows /\ i \in Rows /\ i # None
    BY PickOne, SchedulerConstants DEF FreeTypes
  <1>5. state' = [state EXCEPT ![r] = "Restoring"]  BY Zenon DEF StartRestore
  <1>6. state'[r] = "Restoring" /\ \A q \in Requests \ {r} : state'[q] = state[q]
    BY <1>5, Zenon DEF RequestTypes
  <1>7. /\ snapshot_restores'[r] = [slot |-> blob_slot[r], row |-> i, pages |-> imaged]
        /\ \A q \in Requests \ {r} : snapshot_restores'[q] = snapshot_restores[q]
    BY <1>2, Zenon DEF TransferTypes
  <1>8. snapshot_restores[r] = NoRestore /\ snapshot_stores[r] = None /\ r \notin host_stores
            /\ pinned_stores[r] = {}
    BY Zenon DEF Tickets, StoresKnown
  <1>9. UNCHANGED <<row, extent, results_in_flight, blob_slot, shape, resumes_generation,
                    pending_store_ops, snapshot_stores, host_stores, pinned_stores, free_slots, blob_pages>>
    BY Zenon DEF StartRestore
  <1>10. RequestTypes'  BY <1>5, Zenon DEF StartRestore, RequestTypes, States
  <1>11. ResourceTypes' /\ FreeTypes'
    <2>1. window' \in [Requests -> Nat]
      <3>1. shape[r] = "Prefilling" => extent[r] <= prompt[r]  BY Zenon DEF Frontiers
      <3>2. 0 \in Nat  BY Zenon
      <3>3. RestoreWindow(r) \in Nat  BY <3>1, <3>2, Typed, DemandNat, Zenon
      <3>4. window' = [window EXCEPT ![r] = RestoreWindow(r)]  BY Zenon DEF StartRestore
      <3>. QED  BY <3>3, <3>4, Zenon DEF ResourceTypes
    <2>. QED  BY <1>1, <1>2, <1>3, <1>9, <2>1, Zenon DEF ResourceTypes, FreeTypes
  <1>12. ImageTypes'
    <2>1. retraction_epoch' \in [Requests -> Nat]  BY EpochsTyped, Zenon DEF StartRestore
    <2>. QED  BY <1>9, <2>1, Zenon DEF ImageTypes
  <1>13. TransferTypes'
    <2>1. imaged \in SUBSET Pages /\ blob_slot[r] \in Slots \cup {None}
      BY <1>1, Zenon DEF FreeTypes, ImageTypes
    <2>2. [slot |-> blob_slot[r], row |-> i, pages |-> imaged] \in Restores
      BY <1>4, <2>1, Zenon DEF Restores
    <2>. QED  BY <1>2, <1>9, <2>2, Zenon DEF TransferTypes
  <1>14. Frontiers'  BY <1>6, <1>9, Zenon DEF Frontiers
  <1>15. Tickets'
    BY <1>4, <1>6, <1>7, <1>8, <1>9 DEF Tickets, RestoreInFlight
  <1>16. StoresKnown'
    <2>1. WriteBacksInFlight' = WriteBacksInFlight  BY <1>9, Zenon DEF WriteBacksInFlight
    <2>. QED  BY <1>6, <1>9, <2>1, Zenon DEF StoresKnown
  <1>17. SlotsOwnedOnce'
    <2>1. \A q \in Requests : SlotsOf(q)' \subseteq SlotsOf(q) /\ SlotsOf(q) \subseteq SlotsOf(q)' \cup {None}
      BY <1>7, <1>8, <1>9 DEF SlotsOf, NoRestore
    <2>2. \A x : x \in HeldSlots(blob_slot, snapshot_stores, snapshot_restores)
                  <=> \E q \in Requests : x \in SlotsOf(q)
      BY HeldSlotsElement, Zenon
    <2>3. \A x : x \in HeldSlots(blob_slot, snapshot_stores, snapshot_restores)'
                  <=> \E q \in Requests : x \in SlotsOf(q)'
      BY Zenon DEF HeldSlots, SlotsOf
    <2>. DEFINE Held == HeldSlots(blob_slot, snapshot_stores, snapshot_restores)
    <2>4. free_slots = Slots \ Held  BY Zenon DEF SlotsOwnedOnce
    <2>. HIDE DEF Held
    <2>5. None \notin Slots  BY SchedulerConstants, Zenon
    <2>6. \A x \in Slots : x \in Held <=> x \in Held'  BY <2>1, <2>2, <2>3, <2>5 DEF Held
    <2>7. free_slots' = Slots \ Held'  BY <1>9, <2>4, <2>6, Zenon
    <2>8. \A p, q \in Requests : p # q => SlotsOf(p)' \cap SlotsOf(q)' \subseteq {None}
      BY <2>1, Zenon DEF SlotsOwnedOnce
    <2>. QED  BY <2>7, <2>8, Zenon DEF SlotsOwnedOnce, Held
  <1>18. RowsOwnedOnce'
    <2>1. \A q \in Requests : row[q] # i /\ snapshot_restores[q].row # i  BY <1>4, Zenon DEF RowsOwnedOnce
    <2>2. snapshot_restores'[r].row = i /\ snapshot_restores[r].row = None  BY <1>7, <1>8 DEF NoRestore
    <2>3. ASSUME NEW j \in Rows
          PROVE  j \in free_rows' <=> \A q \in Requests : row'[q] # j /\ snapshot_restores'[q].row # j
      <3>1. CASE j = i  BY <1>2, <2>2, <3>1, Zenon
      <3>2. CASE j # i
        <4>1. j \in free_rows' <=> j \in free_rows  BY <1>2, <3>2, Zenon
        <4>2. \A q \in Requests : snapshot_restores'[q].row # j <=> snapshot_restores[q].row # j
          BY <1>7, <2>2, <3>2, SchedulerConstants
        <4>. QED  BY <1>9, <4>1, <4>2, Zenon DEF RowsOwnedOnce
      <3>. QED  BY <3>1, <3>2, Zenon
    <2>4. ASSUME NEW p \in Requests, NEW q \in Requests
          PROVE  /\ row'[p] # None /\ row'[p] = row'[q] => p = q
                 /\ RestoreInFlight(p)' /\ snapshot_restores'[p].row = snapshot_restores'[q].row => p = q
                 /\ row'[p] # None => row'[p] # snapshot_restores'[q].row
      BY <1>7, <1>9, <2>1, <2>2 DEF RowsOwnedOnce, RestoreInFlight
    <2>5. \A q \in Requests : row'[q] # None <=> state'[q] \in HoldsPages \ {"Restoring"}
      <3>1. row[r] = None  BY Zenon DEF RowsOwnedOnce, HoldsPages
      <3>. QED  BY <1>6, <1>9, <3>1, Zenon DEF RowsOwnedOnce
    <2>. QED  BY <2>3, <2>4, <2>5, Zenon DEF RowsOwnedOnce
  <1>19. PagesOwnedOnce'
    <2>1. table[r] = {}  BY Zenon DEF PagesOwnedOnce, HoldsPages
    <2>2. table'[r] = fresh /\ \A q \in Requests \ {r} : table'[q] = table[q]
      BY <1>3, Zenon DEF ResourceTypes
    <2>3. snapshot_restores'[r].pages = imaged /\ \A x : x \notin snapshot_restores[r].pages
      <3>1. \A x : x \notin NoRestore.pages  BY Zenon DEF NoRestore
      <3>. QED  BY <1>7, <1>8, <3>1
    <2>. DEFINE Held == HeldPages(table, snapshot_restores, pinned_stores)
                HeldNext == HeldPages(table', snapshot_restores', pinned_stores')
    <2>4. ASSUME NEW x PROVE x \in HeldNext <=> x \in Held \/ x \in fresh
      <3>1. x \in Held <=> \/ \E q \in Requests : x \in table[q]
                           \/ \E q \in Requests : x \in snapshot_restores[q].pages
                           \/ \E o \in PinnedOps : x \in pinned_stores[o]
        BY HeldPagesNow, Zenon
      <3>2. x \in HeldNext <=> \/ \E q \in Requests : x \in table'[q]
                               \/ \E q \in Requests : x \in snapshot_restores'[q].pages
                               \/ \E o \in PinnedOps : x \in pinned_stores'[o]
        BY HeldPagesThen, Zenon
      <3>3. (\E q \in Requests : x \in table'[q]) <=> (\E q \in Requests : x \in table[q]) \/ x \in fresh
        BY <2>1, <2>2, Zenon
      <3>4. (\E q \in Requests : x \in snapshot_restores'[q].pages)
                <=> (\E q \in Requests : x \in snapshot_restores[q].pages) \/ x \in imaged
        BY <1>7, <2>3, Zenon
      <3>. HIDE DEF Held, HeldNext
      <3>. QED  BY <1>1, <1>9, <3>1, <3>2, <3>3, <3>4, Zenon
    <2>5. free_pages = Pages \ Held  BY Zenon DEF PagesOwnedOnce
    <2>6. \A q \in Requests : /\ fresh \cap table[q] = {}
                              /\ fresh \cap snapshot_restores[q].pages = {}
                              /\ fresh \cap pinned_stores[q] = {}
      <3>1. \A x \in fresh : x \notin Held  BY <1>1, <2>5, Zenon DEF Held
      <3>. QED  BY <3>1, HeldPagesElement, Zenon DEF PinnedOps
    <2>7. free_pages' = Pages \ HeldNext
      <3>. HIDE DEF Held, HeldNext
      <3>. QED  BY <1>3, <2>4, <2>5, Zenon
    <2>8. ASSUME NEW p \in Requests, NEW q \in Requests, p # q
          PROVE  /\ table'[p] \cap table'[q] = {}
                 /\ snapshot_restores'[p].pages \cap table'[q] = {}
                 /\ snapshot_restores'[p].pages \cap snapshot_restores'[q].pages = {}
                 /\ pinned_stores'[p] \cap table'[q] = {}
      <3>1. /\ table[p] \cap table[q] = {}
            /\ snapshot_restores[p].pages \cap table[q] = {}
            /\ snapshot_restores[p].pages \cap snapshot_restores[q].pages = {}
            /\ pinned_stores[p] \cap table[q] = {}
        BY <2>8, Zenon DEF PagesOwnedOnce
      <3>. QED  BY <1>1, <1>7, <1>9, <2>2, <2>3, <2>6, <2>8, <3>1
    <2>9. \A q \in Requests : table'[q] # {} => state'[q] \in HoldsPages
      BY <1>6, <2>2 DEF PagesOwnedOnce, HoldsPages
    <2>. QED  BY <2>7, <2>8, <2>9, Zenon DEF PagesOwnedOnce
  <1>. QED  BY <1>10, <1>11, <1>12, <1>13, <1>14, <1>15, <1>16, <1>17, <1>18, <1>19

\* A snapshot store lands (cache::SnapshotDone).
LEMMA SnapshotDoneKeeps ==
    ASSUME IInv, NEW r \in Requests, SnapshotDone(r)
    PROVE  Bookkeeping'
  <1>. USE DEF IInv, Bookkeeping, StoreTypes
  <1>1. /\ snapshot_stores' = [snapshot_stores EXCEPT ![r] = None]
        /\ pending_store_ops' = [pending_store_ops EXCEPT ![r] = @ \ {SnapshotOp(r)}]
        /\ DropSlots({snapshot_stores[r]}) /\ snapshot_stores[r] # None
    BY Zenon DEF SnapshotDone
  <1>2. UNCHANGED <<request, resources, blob_slot, shape, resumes_generation, retraction_epoch,
                    snapshot_restores, host_stores, pinned_stores, free_rows, free_pages>>
    BY Zenon DEF SnapshotDone
  <1>3. snapshot_stores'[r] = None /\ \A q \in Requests \ {r} : snapshot_stores'[q] = snapshot_stores[q]
    BY <1>1, Zenon DEF TransferTypes
  <1>4. /\ pending_store_ops'[r] = pending_store_ops[r] \ {SnapshotOp(r)}
        /\ \A q \in Requests \ {r} : pending_store_ops'[q] = pending_store_ops[q]
    BY <1>1, Zenon DEF ImageTypes
  <1>5. SlotsOwnedOnce' /\ free_slots' \subseteq Slots /\ blob_pages' \in [Slots -> Nat]
    <2>1. {snapshot_stores[r]} \subseteq Slots \cup {None}  BY Zenon DEF TransferTypes
    <2>2. \A q \in Requests : /\ SlotsOf(q)' \subseteq SlotsOf(q) \cup {None}
                              /\ SlotsOf(q) \subseteq SlotsOf(q)' \cup {snapshot_stores[r]}
      BY <1>2, <1>3 DEF SlotsOf
    <2>. QED  BY <1>1, <2>1, <2>2, SlotsDrop, Zenon
  <1>6. StoreTypes'
    <2>1. RequestTypes' /\ ResourceTypes'  BY <1>2, Zenon DEF request, resources, RequestTypes, ResourceTypes
    <2>2. ImageTypes'  BY <1>1, <1>2, Zenon DEF ImageTypes
    <2>3. TransferTypes'  BY <1>1, <1>2, Zenon DEF TransferTypes
    <2>4. FreeTypes'  BY <1>2, <1>5, Zenon DEF FreeTypes
    <2>. QED  BY <2>1, <2>2, <2>3, <2>4, Zenon
  <1>7. Frontiers'  BY <1>2, Zenon DEF Frontiers, request, resources
  <1>8. Tickets'  BY <1>2, <1>3, Zenon DEF Tickets, RestoreInFlight, request
  <1>9. RowsOwnedOnce'  BY <1>2, Zenon DEF RowsOwnedOnce, RestoreInFlight, request, resources
  <1>10. PagesOwnedOnce'  BY <1>2, Zenon DEF PagesOwnedOnce, request, resources
  <1>11. StoresKnown'
    <2>1. WriteBacksInFlight' = WriteBacksInFlight  BY <1>2, Zenon DEF WriteBacksInFlight
    <2>2. HostOp(r) # SnapshotOp(r)  BY Zenon DEF HostOp, SnapshotOp
    <2>. QED  BY <1>2, <1>3, <1>4, <2>1, <2>2, Zenon DEF StoresKnown, request
  <1>. QED  BY <1>5, <1>6, <1>7, <1>8, <1>9, <1>10, <1>11, Zenon

\* The stores of a request are different operations, and so are those of two
\* requests (cache op ids are never reused).
LEMMA OpsDiffer ==
    /\ \A q \in Requests, o \in PinnedOps : HostOp(q) # PinnedOp(o) /\ SnapshotOp(q) # PinnedOp(o)
    /\ \A q, p \in Requests : SnapshotOp(q) # HostOp(p) /\ (HostOp(q) = HostOp(p) => q = p)
    /\ \A o, p \in PinnedOps : PinnedOp(o) = PinnedOp(p) => o = p
  BY Zenon DEF HostOp, PinnedOp, SnapshotOp

\* A write-back op is acknowledged: nobody waits for it any longer, and every
\* other is still known to those who do.
LEMMA StoreLandedKeeps ==
    ASSUME IInv, NEW op, op \notin {SnapshotOp(q) : q \in Requests}, StoreLanded(op),
           UNCHANGED <<state, snapshot_stores>>,
           WriteBacksInFlight \ {op} \subseteq WriteBacksInFlight',
           host_stores' \subseteq host_stores, \A q \in host_stores' : HostOp(q) # op
    PROVE  StoresKnown' /\ pending_store_ops' \in [Requests -> SUBSET Ops]
  <1>. USE DEF IInv, Bookkeeping, StoreTypes
  <1>1. pending_store_ops \in [Requests -> SUBSET Ops]  BY Zenon DEF ImageTypes
  <1>2. \A q \in Requests : pending_store_ops'[q] =
          IF state[q] = "Retracted" THEN pending_store_ops[q] \ {op} ELSE pending_store_ops[q]
    BY Zenon DEF StoreLanded
  <1>3. ASSUME NEW q \in Requests
        PROVE  /\ state'[q] = "Restoring" => pending_store_ops'[q] = {}
               /\ state'[q] = "Retracted" =>
                    /\ snapshot_stores'[q] # None <=> SnapshotOp(q) \in pending_store_ops'[q]
                    /\ q \in host_stores' => HostOp(q) \in pending_store_ops'[q]
                    /\ pending_store_ops'[q] \subseteq WriteBacksInFlight' \cup {SnapshotOp(q)}
    <2>1. CASE state[q] = "Restoring"  BY <1>2, <2>1, Zenon DEF StoresKnown
    <2>2. CASE state[q] = "Retracted"
      <3>1. SnapshotOp(q) # op  BY Zenon
      <3>2. /\ snapshot_stores[q] # None <=> SnapshotOp(q) \in pending_store_ops[q]
            /\ q \in host_stores => HostOp(q) \in pending_store_ops[q]
            /\ pending_store_ops[q] \subseteq WriteBacksInFlight \cup {SnapshotOp(q)}
        BY <2>2, Zenon DEF StoresKnown
      <3>3. pending_store_ops'[q] = pending_store_ops[q] \ {op}  BY <1>2, <2>2, Zenon
      <3>. QED  BY <2>2, <3>1, <3>2, <3>3, Zenon
    <2>. QED  BY <2>1, <2>2, Zenon
  <1>4. pending_store_ops' \in [Requests -> SUBSET Ops]  BY <1>1, Zenon DEF StoreLanded
  <1>. QED  BY <1>3, <1>4, Zenon DEF StoresKnown

\* Copies let go of pages; what nobody else holds is free again.
LEMMA CopiesDropPages ==
    ASSUME PagesOwnedOnce, NEW D, D \subseteq Pages, DropPages(D), UNCHANGED table,
           \A q \in Requests : /\ snapshot_restores'[q].pages \subseteq snapshot_restores[q].pages
                               /\ snapshot_restores[q].pages \subseteq snapshot_restores'[q].pages \cup D,
           \A o \in PinnedOps : /\ pinned_stores'[o] \subseteq pinned_stores[o]
                                /\ pinned_stores[o] \subseteq pinned_stores'[o] \cup D,
           \A q \in Requests : state[q] \in HoldsPages => state'[q] \in HoldsPages
    PROVE  PagesOwnedOnce' /\ free_pages' \subseteq Pages
  <1>. DEFINE Held == HeldPages(table, snapshot_restores, pinned_stores)
              HeldNext == HeldPages(table', snapshot_restores', pinned_stores')
  <1>1. ASSUME NEW x PROVE /\ x \in HeldNext => x \in Held
                           /\ x \in Held => x \in HeldNext \/ x \in D
    <2>1. x \in Held <=> \/ \E q \in Requests : x \in table[q]
                         \/ \E q \in Requests : x \in snapshot_restores[q].pages
                         \/ \E o \in PinnedOps : x \in pinned_stores[o]
      BY HeldPagesNow, Zenon
    <2>2. x \in HeldNext <=> \/ \E q \in Requests : x \in table'[q]
                             \/ \E q \in Requests : x \in snapshot_restores'[q].pages
                             \/ \E o \in PinnedOps : x \in pinned_stores'[o]
      BY HeldPagesThen, Zenon
    <2>. HIDE DEF Held, HeldNext
    <2>. QED  BY <2>1, <2>2, Zenon
  <1>2. free_pages = Pages \ Held  BY Zenon DEF PagesOwnedOnce
  <1>3. free_pages' = free_pages \cup (D \ HeldNext)  BY Zenon DEF DropPages
  <1>4. free_pages' = Pages \ HeldNext
    <2>. HIDE DEF Held, HeldNext
    <2>. QED  BY <1>1, <1>2, <1>3, Zenon
  <1>5. ASSUME NEW p \in Requests, NEW q \in Requests, p # q
        PROVE  /\ table'[p] \cap table'[q] = {}
               /\ snapshot_restores'[p].pages \cap table'[q] = {}
               /\ snapshot_restores'[p].pages \cap snapshot_restores'[q].pages = {}
               /\ pinned_stores'[p] \cap table'[q] = {}
    <2>1. /\ table[p] \cap table[q] = {}
          /\ snapshot_restores[p].pages \cap table[q] = {}
          /\ snapshot_restores[p].pages \cap snapshot_restores[q].pages = {}
          /\ pinned_stores[p] \cap table[q] = {}
      BY <1>5, Zenon DEF PagesOwnedOnce
    <2>2. p \in PinnedOps  BY Zenon DEF PinnedOps
    <2>. QED  BY <2>1, <2>2, Zenon
  <1>6. \A q \in Requests : table'[q] # {} => state'[q] \in HoldsPages  BY DEF PagesOwnedOnce
  <1>. QED  BY <1>4, <1>5, <1>6, Zenon DEF PagesOwnedOnce

\* An image's L2 leg lands (cache::WriteBackDone).
LEMMA HostStoreDoneKeeps ==
    ASSUME IInv, NEW r \in Requests, HostStoreDone(r)
    PROVE  Bookkeeping'
  <1>. USE DEF IInv, Bookkeeping, StoreTypes
  <1>1. host_stores' = host_stores \ {r} /\ StoreLanded(HostOp(r))  BY Zenon DEF HostStoreDone
  <1>2. UNCHANGED <<request, resources, blob_slot, shape, resumes_generation, retraction_epoch,
                    snapshot_stores, snapshot_restores, pinned_stores, free>>
    BY Zenon DEF HostStoreDone
  <1>3. host_stores \subseteq Requests  BY DEF TransferTypes
  <1>4. StoresKnown' /\ pending_store_ops' \in [Requests -> SUBSET Ops]
    <2>1. HostOp(r) \notin {SnapshotOp(q) : q \in Requests}  BY OpsDiffer, Zenon
    <2>2. WriteBacksInFlight \ {HostOp(r)} \subseteq WriteBacksInFlight'
      BY <1>1, <1>2, Zenon DEF WriteBacksInFlight
    <2>3. \A q \in host_stores' : HostOp(q) # HostOp(r)  BY <1>1, <1>3, OpsDiffer, Zenon
    <2>4. UNCHANGED <<state, snapshot_stores>>  BY <1>2, Zenon DEF request
    <2>5. host_stores' \subseteq host_stores  BY <1>1, Zenon
    <2>. QED  BY <1>1, <2>1, <2>2, <2>3, <2>4, <2>5, StoreLandedKeeps, Zenon
  <1>5. StoreTypes'
    <2>1. RequestTypes' /\ ResourceTypes' /\ FreeTypes'
      BY <1>2, Zenon DEF request, resources, free, RequestTypes, ResourceTypes, FreeTypes
    <2>2. ImageTypes' /\ TransferTypes'  BY <1>1, <1>2, <1>4, Zenon DEF ImageTypes, TransferTypes
    <2>. QED  BY <2>1, <2>2, Zenon
  <1>6. Frontiers'  BY <1>2, Zenon DEF Frontiers, request, resources
  <1>7. Tickets'  BY <1>1, <1>2, Zenon DEF Tickets, RestoreInFlight, request
  <1>8. RowsOwnedOnce'  BY <1>2, Zenon DEF RowsOwnedOnce, RestoreInFlight, request, resources, free
  <1>9. PagesOwnedOnce'  BY <1>2, Zenon DEF PagesOwnedOnce, request, resources, free
  <1>10. SlotsOwnedOnce'  BY <1>2 DEF SlotsOwnedOnce, SlotsOf, free
  <1>. QED  BY <1>4, <1>5, <1>6, <1>7, <1>8, <1>9, <1>10, Zenon

\* A pinned write-back lands (cache::WriteBackDone).
LEMMA PinnedStoreDoneKeeps ==
    ASSUME IInv, NEW o \in PinnedOps, PinnedStoreDone(o)
    PROVE  Bookkeeping'
  <1>. USE DEF IInv, Bookkeeping, StoreTypes
  <1>1. /\ pinned_stores' = [pinned_stores EXCEPT ![o] = {}] /\ StoreLanded(PinnedOp(o))
        /\ DropPages(pinned_stores[o])
    BY Zenon DEF PinnedStoreDone
  <1>2. UNCHANGED <<request, resources, blob_slot, shape, resumes_generation, retraction_epoch,
                    snapshot_stores, snapshot_restores, host_stores, free_rows, free_slots, blob_pages>>
    BY Zenon DEF PinnedStoreDone, resources
  <1>3. pinned_stores \in [PinnedOps -> SUBSET Pages] /\ host_stores \subseteq Requests
    BY Zenon DEF TransferTypes
  <1>4. pinned_stores'[o] = {} /\ \A p \in PinnedOps \ {o} : pinned_stores'[p] = pinned_stores[p]
    BY <1>1, <1>3, Zenon
  <1>5. StoresKnown' /\ pending_store_ops' \in [Requests -> SUBSET Ops]
    <2>1. PinnedOp(o) \notin {SnapshotOp(q) : q \in Requests}  BY OpsDiffer, Zenon
    <2>2. WriteBacksInFlight \ {PinnedOp(o)} \subseteq WriteBacksInFlight'
      BY <1>2, <1>4, Zenon DEF WriteBacksInFlight
    <2>3. \A q \in host_stores' : HostOp(q) # PinnedOp(o)  BY <1>2, <1>3, OpsDiffer, Zenon
    <2>4. UNCHANGED <<state, snapshot_stores>> /\ host_stores' \subseteq host_stores
      BY <1>2, Zenon DEF request
    <2>. QED  BY <1>1, <2>1, <2>2, <2>3, <2>4, StoreLandedKeeps, Zenon
  <1>6. PagesOwnedOnce' /\ free_pages' \subseteq Pages
    <2>. DEFINE D == pinned_stores[o]
    <2>1. D \subseteq Pages /\ DropPages(D)  BY <1>1, <1>3, Zenon
    <2>2. UNCHANGED <<table, state, snapshot_restores>>  BY <1>2, Zenon DEF request, resources
    <2>3. \A p \in PinnedOps : /\ pinned_stores'[p] \subseteq pinned_stores[p]
                               /\ pinned_stores[p] \subseteq pinned_stores'[p] \cup D
      BY <1>4, Zenon
    <2>. HIDE DEF D
    <2>. QED  BY <2>1, <2>2, <2>3, CopiesDropPages, Zenon
  <1>7. StoreTypes'
    <2>1. RequestTypes' /\ ResourceTypes'
      BY <1>2, Zenon DEF request, resources, RequestTypes, ResourceTypes
    <2>2. FreeTypes'  BY <1>2, <1>6, Zenon DEF FreeTypes
    <2>3. ImageTypes'  BY <1>2, <1>5, Zenon DEF ImageTypes
    <2>4. TransferTypes'  BY <1>1, <1>2, Zenon DEF TransferTypes
    <2>. QED  BY <2>1, <2>2, <2>3, <2>4, Zenon
  <1>8. Frontiers'  BY <1>2, Zenon DEF Frontiers, request, resources
  <1>9. Tickets'
    <2>1. \A q \in Requests : pinned_stores'[q] # {} => pinned_stores[q] # {}
      BY <1>4, Zenon DEF PinnedOps
    <2>. QED  BY <1>2, <2>1, Zenon DEF Tickets, RestoreInFlight, request
  <1>10. RowsOwnedOnce'  BY <1>2, Zenon DEF RowsOwnedOnce, RestoreInFlight, request, resources
  <1>11. SlotsOwnedOnce'  BY <1>2, Zenon DEF SlotsOwnedOnce, SlotsOf
  <1>. QED  BY <1>5, <1>6, <1>7, <1>8, <1>9, <1>10, <1>11, Zenon

\* An empty restore ticket names nothing.
LEMMA NoRestoreFields == NoRestore.row = None /\ NoRestore.slot = None /\ NoRestore.pages = {}
  BY Zenon DEF NoRestore

\* A restore lands (cache::RestoreDone): the request resumes in the ticket's
\* row or, when it is gone, the row returns.
LEMMA RestoreDoneKeeps ==
    ASSUME IInv, NEW r \in Requests, RestoreDone(r)
    PROVE  Bookkeeping'
  <1>. DEFINE ticket == snapshot_restores[r]
              resumes == state[r] = "Restoring"
  <1>. USE DEF IInv, Bookkeeping, StoreTypes
  <1>1. /\ RestoreInFlight(r)
        /\ snapshot_restores' = [snapshot_restores EXCEPT ![r] = NoRestore]
        /\ state' = IF resumes THEN [state EXCEPT ![r] = shape[r]] ELSE state
        /\ row' = IF resumes THEN [row EXCEPT ![r] = ticket.row] ELSE row
        /\ free_rows' = IF resumes THEN free_rows ELSE free_rows \cup {ticket.row}
        /\ blob_slot' = [blob_slot EXCEPT ![r] = None]
        /\ shape' = [shape EXCEPT ![r] = None]
        /\ resumes_generation' = [resumes_generation EXCEPT ![r] = FALSE]
        /\ DropPages(ticket.pages) /\ DropSlots({ticket.slot, blob_slot[r]})
    BY Zenon DEF RestoreDone
  <1>2. UNCHANGED <<prompt, max_new_tokens, generated, retraction_count, generated_at_admission,
                    table, window, extent, results_in_flight, retraction_epoch, pending_store_ops,
                    snapshot_stores, host_stores, pinned_stores>>
    BY Zenon DEF RestoreDone
  <1>3. /\ ticket.slot \in Slots \cup {None} /\ ticket.row \in Rows /\ ticket.pages \in SUBSET Pages
        /\ ticket.row # None
    BY <1>1, Zenon DEF TransferTypes, Restores, RestoreInFlight
  <1>4. state[r] \in {"Restoring", "Finished"}  BY <1>1, Zenon DEF Tickets
  <1>5. resumes => shape[r] \in Suspendable  BY Zenon DEF Frontiers
  <1>6. /\ snapshot_restores'[r] = NoRestore
        /\ \A q \in Requests \ {r} : snapshot_restores'[q] = snapshot_restores[q]
    BY <1>1, Zenon DEF TransferTypes
  <1>6a. snapshot_restores'[r].row = None /\ snapshot_restores'[r].slot = None
    BY <1>6, NoRestoreFields, Zenon
  <1>7. /\ state'[r] = (IF resumes THEN shape[r] ELSE "Finished")
        /\ \A q \in Requests \ {r} : state'[q] = state[q]
    BY <1>1, <1>4, Zenon DEF RequestTypes
  <1>8. /\ row'[r] = (IF resumes THEN ticket.row ELSE row[r])
        /\ \A q \in Requests \ {r} : row'[q] = row[q]
    BY <1>1, Zenon DEF ResourceTypes
  <1>9. /\ blob_slot'[r] = None /\ shape'[r] = None
        /\ \A q \in Requests \ {r} : blob_slot'[q] = blob_slot[q] /\ shape'[q] = shape[q]
    BY <1>1, Zenon DEF ImageTypes
  <1>10. PagesOwnedOnce' /\ free_pages' \subseteq Pages
    <2>. DEFINE D == ticket.pages
    <2>1. D \subseteq Pages /\ DropPages(D) /\ UNCHANGED <<table, pinned_stores>>  BY <1>1, <1>2, <1>3, Zenon
    <2>2. \A x : x \notin NoRestore.pages  BY NoRestoreFields, Zenon
    <2>3. \A q \in Requests : /\ snapshot_restores'[q].pages \subseteq snapshot_restores[q].pages
                              /\ snapshot_restores[q].pages \subseteq snapshot_restores'[q].pages \cup D
      BY <1>6, <2>2, Zenon
    <2>4. \A q \in Requests : state[q] \in HoldsPages => state'[q] \in HoldsPages
      BY <1>4, <1>5, <1>7, Zenon DEF HoldsPages, Suspendable
    <2>. HIDE DEF D
    <2>. QED  BY <2>1, <2>3, <2>4, CopiesDropPages, Zenon
  <1>11. SlotsOwnedOnce' /\ free_slots' \subseteq Slots /\ blob_pages' \in [Slots -> Nat]
    <2>. DEFINE D == {ticket.slot, blob_slot[r]}
    <2>1. D \subseteq Slots \cup {None} /\ DropSlots(D)  BY <1>1, <1>3, Zenon DEF ImageTypes
    <2>2. ASSUME NEW q \in Requests
          PROVE  /\ SlotsOf(q)' \subseteq SlotsOf(q) \cup {None}
                 /\ SlotsOf(q) \subseteq SlotsOf(q)' \cup D
      <3>1. CASE q = r
        <4>1. SlotsOf(q)' = {None, snapshot_stores[q], None}  BY <1>2, <1>6a, <1>9, <3>1, Zenon DEF SlotsOf
        <4>2. SlotsOf(q) = {blob_slot[r], snapshot_stores[q], ticket.slot}  BY <3>1, Zenon DEF SlotsOf
        <4>. QED  BY <4>1, <4>2, Zenon
      <3>2. CASE q # r
        <4>1. SlotsOf(q)' = SlotsOf(q)  BY <1>2, <1>6, <1>9, <3>2, Zenon DEF SlotsOf
        <4>. QED  BY <4>1, Zenon
      <3>. QED  BY <3>1, <3>2, Zenon
    <2>. HIDE DEF D
    <2>. QED  BY <2>1, <2>2, SlotsDrop, Zenon
  <1>12. StoreTypes'
    <2>1. RequestTypes'
      <3>1. state' \in [Requests -> States \cup {"New"}]
        BY <1>1, <1>5, Zenon DEF RequestTypes, Suspendable, States
      <3>. QED  BY <1>2, <3>1, Zenon DEF RequestTypes
    <2>2. ResourceTypes'  BY <1>1, <1>2, <1>3, Zenon DEF ResourceTypes
    <2>3. ImageTypes'  BY <1>1, <1>2, Zenon DEF ImageTypes
    <2>4. TransferTypes'
      <3>1. NoRestore \in Restores  BY Zenon DEF NoRestore, Restores
      <3>. QED  BY <1>1, <1>2, <3>1, Zenon DEF TransferTypes
    <2>5. FreeTypes'  BY <1>1, <1>3, <1>10, <1>11, Zenon DEF FreeTypes
    <2>. QED  BY <2>1, <2>2, <2>3, <2>4, <2>5
  <1>13. Frontiers'
    <2>1. resumes /\ shape[r] = "Prefilling" => extent[r] <= prompt[r]  BY Zenon DEF Frontiers
    <2>. QED  BY <1>2, <1>4, <1>5, <1>7, <1>9, <2>1 DEF Frontiers, Suspendable
  <1>14. Tickets'
    <2>1. ~RestoreInFlight(r)'  BY <1>6a, Zenon DEF RestoreInFlight
    <2>2. resumes => snapshot_stores[r] = None /\ r \notin host_stores /\ pinned_stores[r] = {}
      BY Zenon DEF Tickets
    <2>. QED  BY <1>2, <1>6, <1>7, <1>9, <2>1, <2>2 DEF Tickets, RestoreInFlight
  <1>15. StoresKnown'
    <2>1. WriteBacksInFlight' = WriteBacksInFlight  BY <1>2, Zenon DEF WriteBacksInFlight
    <2>2. state'[r] \notin {"Restoring", "Retracted"}  BY <1>5, <1>7, Zenon DEF Suspendable
    <2>. QED  BY <1>2, <1>7, <2>1, <2>2, Zenon DEF StoresKnown
  <1>16. RowsOwnedOnce'
    <2>1. row[r] = None  BY <1>4, Zenon DEF RowsOwnedOnce, HoldsPages
    <2>2. \A q \in Requests : /\ row[q] # ticket.row
                              /\ snapshot_restores[q].row = ticket.row => q = r
      BY <1>1, <1>3, Zenon DEF RowsOwnedOnce, RestoreInFlight
    <2>3. snapshot_restores'[r].row = None  BY <1>6a, Zenon
    <2>. DEFINE i == ticket.row
    <2>4. i \in Rows /\ i # None /\ snapshot_restores[r].row = i  BY <1>3, Zenon
    <2>. HIDE DEF i, ticket
    <2>5. ASSUME NEW j \in Rows
          PROVE  j \in free_rows' <=> \A q \in Requests : row'[q] # j /\ snapshot_restores'[q].row # j
      <3>1. j \in free_rows <=> \A q \in Requests : row[q] # j /\ snapshot_restores[q].row # j
        BY Zenon DEF RowsOwnedOnce
      <3>2. j # None  BY SchedulerConstants, Zenon
      <3>3. CASE j = i
        <4>1. j \notin free_rows  BY <2>4, <3>1, <3>3, Zenon
        <4>2. j \in free_rows' <=> ~resumes  BY <1>1, <3>3, <4>1, Zenon DEF i
        <4>3. resumes => row'[r] = j  BY <1>8, <3>3, Zenon DEF i
        <4>4. ~resumes => \A q \in Requests : row'[q] # j /\ snapshot_restores'[q].row # j
          BY <1>6, <1>8, <2>1, <2>2, <2>3, <3>2, <3>3 DEF i
        <4>. QED  BY <4>2, <4>3, <4>4, Zenon
      <3>4. CASE j # i
        <4>1. j \in free_rows' <=> j \in free_rows  BY <1>1, <3>4 DEF i
        <4>2. \A q \in Requests : row'[q] # j <=> row[q] # j  BY <1>8, <2>1, <3>2, <3>4, Zenon DEF i
        <4>3. \A q \in Requests : snapshot_restores'[q].row # j <=> snapshot_restores[q].row # j
          BY <1>6, <2>3, <2>4, <3>2, <3>4
        <4>. QED  BY <3>1, <4>1, <4>2, <4>3, Zenon
      <3>. QED  BY <3>3, <3>4, Zenon
    <2>6. ASSUME NEW p \in Requests, NEW q \in Requests
          PROVE  /\ row'[p] # None /\ row'[p] = row'[q] => p = q
                 /\ RestoreInFlight(p)' /\ snapshot_restores'[p].row = snapshot_restores'[q].row => p = q
                 /\ row'[p] # None => row'[p] # snapshot_restores'[q].row
      <3>1. row'[p] # None /\ row'[p] = row'[q] => p = q
        BY <1>8, <2>1, <2>2 DEF RowsOwnedOnce
      <3>2. RestoreInFlight(p)' /\ snapshot_restores'[p].row = snapshot_restores'[q].row => p = q
        BY <1>6, <2>3 DEF RowsOwnedOnce, RestoreInFlight
      <3>3. row'[p] # None => row'[p] # snapshot_restores'[q].row
        <4>1. CASE q = r  BY <2>3, <4>1, Zenon
        <4>2. CASE q # r /\ p = r
          <5>1. row'[p] = None \/ row'[p] = i  BY <1>8, <2>1, <4>2, Zenon DEF i
          <5>2. snapshot_restores'[q].row # i  BY <1>6, <2>2, <4>2, Zenon DEF i
          <5>. QED  BY <5>1, <5>2, Zenon
        <4>3. CASE q # r /\ p # r
          <5>1. row[p] # None => row[p] # snapshot_restores[q].row  BY Zenon DEF RowsOwnedOnce
          <5>. QED  BY <1>6, <1>8, <4>3, <5>1, Zenon
        <4>. QED  BY <4>1, <4>2, <4>3, Zenon
      <3>. QED  BY <3>1, <3>2, <3>3, Zenon
    <2>7. \A q \in Requests : row'[q] # None <=> state'[q] \in HoldsPages \ {"Restoring"}
      BY <1>5, <1>7, <1>8, <2>1, <2>4 DEF RowsOwnedOnce, HoldsPages, Suspendable, i
    <2>. QED  BY <2>5, <2>6, <2>7, Zenon DEF RowsOwnedOnce
  <1>. QED  BY <1>10, <1>11, <1>12, <1>13, <1>14, <1>15, <1>16, Zenon

-----------------------------------------------------------------------------
(* Requests that end: Finish and the settling that follows it. *)

\* What a batch of results, and a peer's notification, do to the books: the
\* requests of S settle, their pages released or handed to a store; the others
\* keep their places.
Settlement(S) ==
    /\ FreeRequests(S)
    /\ UNCHANGED <<prompt, max_new_tokens, retraction_count, generated_at_admission, images,
                   snapshot_stores, snapshot_restores, host_stores, free_slots, blob_pages>>
    /\ generated' \in [Requests -> Nat] /\ results_in_flight' \in [Requests -> Nat]
    /\ extent' = [q \in Requests |-> IF q \in S THEN 0 ELSE extent[q]]
    /\ pinned_stores' \in [PinnedOps -> SUBSET Pages]
    /\ \A o \in PinnedOps : \/ pinned_stores'[o] = pinned_stores[o]
                            \/ o \in S /\ pinned_stores'[o] \subseteq table[o]
    /\ state' \in [Requests -> States \cup {"New"}]
    /\ \A q \in S : state[q] \in Seated /\ state'[q] = "Finished"
    /\ \A q \in Requests \ S :
          \/ state'[q] = state[q]
          \/ state[q] \in Seated /\ state'[q] \in Seated \ {"Prefilling"}

\* Settling finished requests keeps the books: a page handed to a pinned store
\* stays held, every other page and row of a settled request becomes free.
LEMMA SettlementKeeps ==
    ASSUME IInv, NEW S \in SUBSET Requests, Settlement(S)
    PROVE  Bookkeeping'
  <1>. USE DEF IInv, Bookkeeping, StoreTypes
  <1>1. /\ FreeRequests(S)
        /\ UNCHANGED <<prompt, max_new_tokens, retraction_count, generated_at_admission, images,
                       snapshot_stores, snapshot_restores, host_stores, free_slots, blob_pages>>
        /\ \A q \in S : state[q] \in Seated /\ state'[q] = "Finished"
    BY Zenon DEF Settlement
  <1>2. \A q \in Requests \ S :
          \/ state'[q] = state[q]
          \/ state[q] \in Seated /\ state'[q] \in Seated \ {"Prefilling"}
    BY Zenon DEF Settlement
  <1>3. \A q \in S : pinned_stores[q] = {}  BY <1>1, Zenon DEF Tickets, Seated, HoldsPages
  <1>4. \A o \in PinnedOps : \/ pinned_stores'[o] = pinned_stores[o]
                             \/ o \in S /\ pinned_stores[o] = {} /\ pinned_stores'[o] \subseteq table[o]
    BY <1>3, Zenon DEF Settlement
  <1>5. /\ RowsOwnedOnce' /\ PagesOwnedOnce'
        /\ row' \in [Requests -> Rows \cup {None}] /\ table' \in [Requests -> SUBSET Pages]
        /\ window' \in [Requests -> Nat]
        /\ free_rows' \subseteq Rows /\ free_pages' \subseteq Pages
    <2>1. \A q \in S : state'[q] \notin HoldsPages  BY <1>1, Zenon DEF HoldsPages
    <2>2. \A q \in Requests \ S : state'[q] = state[q] \/ (state[q] \in Seated /\ state'[q] \in Seated)
      BY <1>2, Zenon
    <2>3. UNCHANGED snapshot_restores  BY <1>1, Zenon
    <2>. QED  BY <1>1, <1>4, <2>1, <2>2, <2>3, LeavingKeeps, Zenon
  <1>6. StoreTypes'
    <2>1. RequestTypes'  BY <1>1, Zenon DEF Settlement, RequestTypes
    <2>2. extent' \in [Requests -> Nat]  BY Zenon DEF Settlement, ResourceTypes
    <2>3. ResourceTypes'  BY <1>5, <2>2, Zenon DEF Settlement, ResourceTypes
    <2>4. ImageTypes'  BY <1>1, Zenon DEF images, ImageTypes
    <2>5. TransferTypes'  BY <1>1, Zenon DEF Settlement, TransferTypes
    <2>6. FreeTypes'  BY <1>1, <1>5, Zenon DEF FreeTypes
    <2>. QED  BY <2>1, <2>3, <2>4, <2>5, <2>6, Zenon
  <1>7. Frontiers'
    <2>1. \A q \in Requests \ S : extent'[q] = extent[q]  BY Zenon DEF Settlement
    <2>. QED  BY <1>1, <1>2, <2>1, Zenon DEF Frontiers, images, Seated, HoldsPages
  <1>8. Tickets'
    <2>1. \A q \in Requests : q \in PinnedOps  BY Zenon DEF PinnedOps
    <2>. QED  BY <1>1, <1>2, <1>4, <2>1, Zenon DEF Tickets, RestoreInFlight, images, Seated, HoldsPages
  <1>9. SlotsOwnedOnce'  BY <1>1, Zenon DEF SlotsOwnedOnce, SlotsOf, images
  <1>10. StoresKnown'
    <2>1. WriteBacksInFlight \subseteq WriteBacksInFlight'
      BY <1>1, <1>4, Zenon DEF WriteBacksInFlight
    <2>2. \A q \in Requests : state'[q] \in {"Retracted", "Restoring"} => state'[q] = state[q]
      BY <1>1, <1>2, Zenon DEF Seated, HoldsPages
    <2>3. UNCHANGED <<pending_store_ops, snapshot_stores, host_stores>>  BY <1>1, Zenon DEF images
    <2>. QED  BY <2>1, <2>2, <2>3, Zenon DEF StoresKnown
  <1>. QED  BY <1>5, <1>6, <1>7, <1>8, <1>9, <1>10, Zenon

\* Where the events of one committed row can take a request.
LEMMA RowEventsReach ==
    ASSUME NEW s \in States \cup {"New"}, NEW kind, NEW verdict
    PROVE  LET e == RowEvents(s, kind, verdict)
           IN  /\ e \in States \cup {Invalid}
               /\ s \in Seated => e \in Seated \cup {"Finished", Invalid}
               /\ e = "Prefilling" => s = "Prefilling"
               /\ s = "Restoring" => e = Invalid
               /\ s \notin HoldsPages => e = Invalid \/ (e = "Finished" /\ s = "Finished")
  <1>. DEFINE landed == ExtendResultEvent(s, kind # "chunk")
              e == RowEvents(s, kind, verdict)
  <1>1. /\ landed \in States \cup {Invalid}
        /\ s \in Seated => landed \in Seated \cup {Invalid}
        /\ landed = "Prefilling" => s = "Prefilling"
        /\ s = "Restoring" => landed = Invalid
        /\ s \notin HoldsPages => landed = Invalid \/ (landed = "Finished" /\ s = "Finished")
    BY Zenon DEF ExtendResultEvent, States, Invalid, Seated, HoldsPages
  <1>2. e \in {Invalid, "Finished", FinishEvent(landed), UpdateReserveNumTokensEvent(landed), landed}
          /\ (landed = Invalid => e = Invalid)
    BY Zenon DEF RowEvents
  <1>3. /\ FinishEvent(landed) \in {"Finishing", "Finished", Invalid}
        /\ landed = "Finished" => FinishEvent(landed) = "Finished"
        /\ UpdateReserveNumTokensEvent(landed) \in {landed, Invalid}
    BY Zenon DEF FinishEvent, UpdateReserveNumTokensEvent
  <1>. HIDE DEF landed, e
  <1>4. /\ e \in States \cup {Invalid}
        /\ s \in Seated => e \in Seated \cup {"Finished", Invalid}
        /\ e = "Prefilling" => s = "Prefilling"
        /\ s = "Restoring" => e = Invalid
        /\ s \notin HoldsPages => e = Invalid \/ (e = "Finished" /\ s = "Finished")
    BY <1>1, <1>2, <1>3, Zenon DEF States, Invalid, Seated, HoldsPages
  <1>. QED  BY <1>4, Zenon DEF e
=============================================================================
