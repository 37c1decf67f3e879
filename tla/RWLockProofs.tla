---------------------------- MODULE RWLockProofs ----------------------------
(***************************************************************************)
(* The reader-writer lock, for any number of tasks: its counters say who   *)
(* is inside, it implements SharedExclusive, and nobody is stranded in it  *)
(* as long as no writer is cancelled while it waits.                       *)
(*                                                                         *)
(* CountersExact is what makes the rest inductive: a writer that finds     *)
(* `readers` at zero and the flag down is alone only because the counter   *)
(* and the flag say who is inside.                                         *)
(***************************************************************************)
EXTENDS RWLock, FiniteSetTheorems, TLAPS

LockTypeOK ==
    /\ readers \in Int
    /\ waiting_writers \in Int
    /\ writer_active \in BOOLEAN
    /\ task \in [Tasks -> Places]
    /\ notified \subseteq Tasks

\* A writer inside is alone.
WriterAlone ==
    \A t, u \in Tasks : task[t] = "write" /\ task[u] \in {"read", "write"} => t = u

LockInv == LockTypeOK /\ CountersExact /\ WriterAlone

\* The tasks that a function from tasks to places puts at one of them.
AtPlace(f, q) == {u \in Tasks : f[u] = q}

\* The function after one of its tasks has moved to place p.
Moved(f, t, p) == [f EXCEPT ![t] = p]

\* Moving a task from one place to another takes one from the first and adds
\* one to the second: the counters of aio_rwlock.py follow every assignment.
LEMMA MoveCounts ==
    \A f \in [Tasks -> Places], t \in Tasks, p \in Places : \A q :
        Cardinality(AtPlace(Moved(f, t, p), q)) =
            Cardinality(AtPlace(f, q)) + (IF p = q THEN 1 ELSE 0) - (IF f[t] = q THEN 1 ELSE 0)
<1> TAKE f \in [Tasks -> Places], t \in Tasks, p \in Places
<1> TAKE q
<1>1. IsFiniteSet(AtPlace(f, q))
  BY TasksFinite, FS_Subset, Zenon DEF AtPlace
<1>2. Cardinality(AtPlace(f, q)) \in Nat
  BY <1>1, FS_CardinalityType, Zenon
<1>3. t \in AtPlace(f, q) <=> f[t] = q
  BY Zenon DEF AtPlace
<1>4. CASE p = q
  <2>1. AtPlace(Moved(f, t, p), q) = AtPlace(f, q) \cup {t}
    BY <1>4 DEF AtPlace, Moved
  <2>2. Cardinality(AtPlace(f, q) \cup {t}) =
            IF t \in AtPlace(f, q) THEN Cardinality(AtPlace(f, q)) ELSE Cardinality(AtPlace(f, q)) + 1
    BY <1>1, FS_AddElement, Zenon
  <2>3. Cardinality(AtPlace(Moved(f, t, p), q)) =
            IF f[t] = q THEN Cardinality(AtPlace(f, q)) ELSE Cardinality(AtPlace(f, q)) + 1
    BY <1>3, <2>1, <2>2, Zenon
  <2> QED
    BY <1>2, <1>4, <2>3
<1>5. CASE p # q
  <2>1. AtPlace(Moved(f, t, p), q) = AtPlace(f, q) \ {t}
    BY <1>5 DEF AtPlace, Moved
  <2>2. Cardinality(AtPlace(f, q) \ {t}) =
            IF t \in AtPlace(f, q) THEN Cardinality(AtPlace(f, q)) - 1 ELSE Cardinality(AtPlace(f, q))
    BY <1>1, FS_RemoveElement, Zenon
  <2>3. Cardinality(AtPlace(Moved(f, t, p), q)) =
            IF f[t] = q THEN Cardinality(AtPlace(f, q)) - 1 ELSE Cardinality(AtPlace(f, q))
    BY <1>3, <2>1, <2>2, Zenon
  <2> QED
    BY <1>2, <1>5, <2>3
<1> QED
  BY <1>4, <1>5, Zenon

\* The counter of readers never goes below zero.
LEMMA CountersCount ==
    ASSUME LockInv
    PROVE  readers \in Nat
<1>1. IsFiniteSet(Inside("read"))
  BY TasksFinite, FS_Subset, Zenon DEF Inside
<1> QED
  BY <1>1, FS_CardinalityType, Zenon DEF LockInv, CountersExact

\* No task is inside as a reader exactly when the counter says so.
LEMMA NoReaders ==
    ASSUME LockInv, readers = 0
    PROVE  \A t \in Tasks : task[t] # "read"
<1>1. IsFiniteSet(Inside("read"))
  BY TasksFinite, FS_Subset, Zenon DEF Inside
<1>2. Inside("read") = {}
  BY <1>1, FS_EmptySet, Zenon DEF LockInv, CountersExact
<1> QED
  BY <1>2 DEF Inside

\* The flag and the counters in terms of AtPlace, before and after a step.
LEMMA CountersByPlace ==
    /\ CountersExact <=> /\ readers = Cardinality(AtPlace(task, "read"))
                         /\ waiting_writers = Cardinality(AtPlace(task, "wait_write"))
                         /\ writer_active <=> (\E u \in Tasks : task[u] = "write")
    /\ CountersExact' <=> /\ readers' = Cardinality(AtPlace(task', "read"))
                          /\ waiting_writers' = Cardinality(AtPlace(task', "wait_write"))
                          /\ writer_active' <=> (\E u \in Tasks : task'[u] = "write")
<1>1. (Inside("write") # {}) <=> (\E u \in Tasks : task[u] = "write")
  BY Zenon DEF Inside
<1>2. (Inside("write")' # {}) <=> (\E u \in Tasks : task'[u] = "write")
  BY Zenon DEF Inside
<1> QED
  BY <1>1, <1>2, Zenon DEF CountersExact, Inside, AtPlace

\* A step that moves one task and counts it out of its old place and into its
\* new one keeps the counters exact.
LEMMA CountersStep ==
    ASSUME LockInv, NEW t \in Tasks, NEW p \in Places,
           task' = [task EXCEPT ![t] = p],
           readers' = readers + (IF p = "read" THEN 1 ELSE 0) - (IF task[t] = "read" THEN 1 ELSE 0),
           waiting_writers' = waiting_writers + (IF p = "wait_write" THEN 1 ELSE 0) - (IF task[t] = "wait_write" THEN 1 ELSE 0),
           writer_active' <=> (\E u \in Tasks : task'[u] = "write")
    PROVE  CountersExact'
<1>1. task \in [Tasks -> Places]
  BY Zenon DEF LockInv, LockTypeOK
<1>2. /\ readers = Cardinality(AtPlace(task, "read"))
      /\ waiting_writers = Cardinality(AtPlace(task, "wait_write"))
  BY CountersByPlace, Zenon DEF LockInv
<1>3. \A q : Cardinality(AtPlace(Moved(task, t, p), q)) =
                 Cardinality(AtPlace(task, q)) + (IF p = q THEN 1 ELSE 0) - (IF task[t] = q THEN 1 ELSE 0)
  BY <1>1, MoveCounts, Zenon
<1>4. \A q : Cardinality(AtPlace(task', q)) =
                 Cardinality(AtPlace(task, q)) + (IF p = q THEN 1 ELSE 0) - (IF task[t] = q THEN 1 ELSE 0)
  BY <1>3, Zenon DEF Moved
<1>5. /\ readers' = Cardinality(AtPlace(task', "read"))
      /\ waiting_writers' = Cardinality(AtPlace(task', "wait_write"))
  BY <1>2, <1>4, Zenon
<1> QED
  BY <1>5, CountersByPlace, Zenon

\* acquire_reader, one turn of its loop: the reader that enters is counted,
\* and it enters only past the flag.
LEMMA ReaderTurnInv ==
    ASSUME LockInv, NEW t \in Tasks, task[t] \in {"outside", "wait_read"}, ReaderTurn(t)
    PROVE  LockInv'
<1> USE DEF LockInv, LockTypeOK
<1>1. CASE ReaderBlocked
  <2>1. /\ task' = [task EXCEPT ![t] = "wait_read"]
        /\ readers' = readers /\ UNCHANGED <<writer_active, waiting_writers>>
        /\ notified' = notified \ {t}
    BY <1>1, Zenon DEF ReaderTurn
  <2>2. LockTypeOK'
    BY <2>1 DEF Places
  <2>3. CountersExact'
    <3>1. /\ readers' = readers + (IF "wait_read" = "read" THEN 1 ELSE 0) - (IF task[t] = "read" THEN 1 ELSE 0)
          /\ waiting_writers' = waiting_writers + (IF "wait_read" = "wait_write" THEN 1 ELSE 0)
                                               - (IF task[t] = "wait_write" THEN 1 ELSE 0)
      BY <2>1
    <3>2. writer_active' <=> (\E u \in Tasks : task'[u] = "write")
      BY <2>1, CountersByPlace
    <3>3. "wait_read" \in Places
      BY Zenon DEF Places
    <3> QED
      BY <2>1, <3>1, <3>2, <3>3, CountersStep, Zenon
  <2>4. WriterAlone'
    BY <2>1 DEF WriterAlone
  <2> QED
    BY <2>2, <2>3, <2>4
<1>2. CASE ~ReaderBlocked
  <2>1. /\ task' = [task EXCEPT ![t] = "read"]
        /\ readers' = readers + 1 /\ UNCHANGED <<writer_active, waiting_writers>>
        /\ notified' = notified \ {t}
        /\ ~writer_active
    BY <1>2, Zenon DEF ReaderTurn, ReaderBlocked
  <2>2. LockTypeOK'
    BY <2>1 DEF Places
  <2>3. CountersExact'
    <3>1. /\ readers' = readers + (IF "read" = "read" THEN 1 ELSE 0) - (IF task[t] = "read" THEN 1 ELSE 0)
          /\ waiting_writers' = waiting_writers + (IF "read" = "wait_write" THEN 1 ELSE 0)
                                               - (IF task[t] = "wait_write" THEN 1 ELSE 0)
      BY <2>1
    <3>2. writer_active' <=> (\E u \in Tasks : task'[u] = "write")
      BY <2>1, CountersByPlace
    <3>3. "read" \in Places
      BY Zenon DEF Places
    <3> QED
      BY <2>1, <3>1, <3>2, <3>3, CountersStep, Zenon
  <2>4. WriterAlone'
    BY <2>1, CountersByPlace DEF WriterAlone
  <2> QED
    BY <2>2, <2>3, <2>4
<1> QED
  BY <1>1, <1>2

\* acquire_writer, one turn of its loop: the queue is counted, and the writer
\* that enters finds nobody inside.
LEMMA WriterTurnInv ==
    ASSUME LockInv, NEW t \in Tasks, NEW joining \in {0, 1}, WriterTurn(t, joining),
           task[t] = IF joining = 1 THEN "outside" ELSE "wait_write"
    PROVE  LockInv'
<1> USE DEF LockInv, LockTypeOK
<1>1. CASE WriterBlocked
  <2>1. /\ task' = [task EXCEPT ![t] = "wait_write"]
        /\ waiting_writers' = waiting_writers + joining /\ UNCHANGED <<writer_active, readers>>
        /\ notified' = notified \ {t}
    BY <1>1, Zenon DEF WriterTurn
  <2>2. LockTypeOK'
    BY <2>1 DEF Places
  <2>3. CountersExact'
    <3>1. /\ readers' = readers + (IF "wait_write" = "read" THEN 1 ELSE 0) - (IF task[t] = "read" THEN 1 ELSE 0)
          /\ waiting_writers' = waiting_writers + (IF "wait_write" = "wait_write" THEN 1 ELSE 0)
                                               - (IF task[t] = "wait_write" THEN 1 ELSE 0)
      BY <2>1
    <3>2. writer_active' <=> (\E u \in Tasks : task'[u] = "write")
      BY <2>1, CountersByPlace
    <3>3. "wait_write" \in Places
      BY Zenon DEF Places
    <3> QED
      BY <2>1, <3>1, <3>2, <3>3, CountersStep, Zenon
  <2>4. WriterAlone'
    BY <2>1 DEF WriterAlone
  <2> QED
    BY <2>2, <2>3, <2>4
<1>2. CASE ~WriterBlocked
  <2>1. /\ task' = [task EXCEPT ![t] = "write"]
        /\ waiting_writers' = waiting_writers + joining - 1
        /\ readers' = readers /\ writer_active' = TRUE
        /\ notified' = notified \ {t}
        /\ ~writer_active /\ ~(readers > 0)
    BY <1>2, Zenon DEF WriterTurn, WriterBlocked
  <2>2. LockTypeOK'
    BY <2>1 DEF Places
  <2>3. readers = 0
    BY <2>1, CountersCount
  <2>4. CountersExact'
    <3>1. /\ readers' = readers + (IF "write" = "read" THEN 1 ELSE 0) - (IF task[t] = "read" THEN 1 ELSE 0)
          /\ waiting_writers' = waiting_writers + (IF "write" = "wait_write" THEN 1 ELSE 0)
                                               - (IF task[t] = "wait_write" THEN 1 ELSE 0)
      BY <2>1
    <3>2. writer_active' <=> (\E u \in Tasks : task'[u] = "write")
      BY <2>1, CountersByPlace
    <3>3. "write" \in Places
      BY Zenon DEF Places
    <3> QED
      BY <2>1, <3>1, <3>2, <3>3, CountersStep, Zenon
  <2>5. WriterAlone'
    BY <2>1, <2>3, NoReaders, CountersByPlace DEF WriterAlone
  <2> QED
    BY <2>2, <2>4, <2>5
<1> QED
  BY <1>1, <1>2

\* release_reader, release_writer and the two cancellations.
LEMMA LeaveInv ==
    ASSUME LockInv, NEW t \in Tasks,
           ReleaseReader(t) \/ ReleaseWriter(t) \/ CancelReader(t) \/ CancelWriter(t)
    PROVE  LockInv'
<1> USE DEF LockInv, LockTypeOK
<1>0. task' = [task EXCEPT ![t] = "outside"]
  BY Zenon DEF ReleaseReader, ReleaseWriter, CancelReader, CancelWriter
<1>1. WriterAlone'
  BY <1>0 DEF WriterAlone
<1>2. LockTypeOK'
  <2>1. task' \in [Tasks -> Places]
    BY <1>0 DEF Places
  <2>2. notified' \subseteq Tasks
    BY DEF Waiters, ReleaseReader, ReleaseWriter, CancelReader, CancelWriter
  <2>3. readers' \in Int /\ waiting_writers' \in Int
    BY DEF ReleaseReader, ReleaseWriter, CancelReader, CancelWriter
  <2>4. writer_active' \in BOOLEAN
    BY Zenon DEF ReleaseReader, ReleaseWriter, CancelReader, CancelWriter
  <2> QED
    BY <2>1, <2>2, <2>3, <2>4, Zenon
<1>3. CASE ReleaseReader(t)
  <2>1. /\ readers' = readers + (IF "outside" = "read" THEN 1 ELSE 0) - (IF task[t] = "read" THEN 1 ELSE 0)
        /\ waiting_writers' = waiting_writers + (IF "outside" = "wait_write" THEN 1 ELSE 0)
                                             - (IF task[t] = "wait_write" THEN 1 ELSE 0)
    BY <1>0, <1>3 DEF ReleaseReader
  <2>2. writer_active' <=> (\E u \in Tasks : task'[u] = "write")
    BY <1>0, <1>3, CountersByPlace DEF ReleaseReader
  <2>3. "outside" \in Places
    BY Zenon DEF Places
  <2> QED
    BY <1>0, <1>3, <2>1, <2>2, <2>3, CountersStep, <1>1, <1>2, Zenon
<1>4. CASE ReleaseWriter(t)
  <2>0. \A u \in Tasks : task'[u] # "write"
    BY <1>0, <1>4 DEF ReleaseWriter, WriterAlone
  <2>1. /\ readers' = readers + (IF "outside" = "read" THEN 1 ELSE 0) - (IF task[t] = "read" THEN 1 ELSE 0)
        /\ waiting_writers' = waiting_writers + (IF "outside" = "wait_write" THEN 1 ELSE 0)
                                             - (IF task[t] = "wait_write" THEN 1 ELSE 0)
    BY <1>0, <1>4, <2>0 DEF ReleaseWriter
  <2>2. writer_active' <=> (\E u \in Tasks : task'[u] = "write")
    BY <1>0, <1>4, <2>0, CountersByPlace DEF ReleaseWriter
  <2>3. "outside" \in Places
    BY Zenon DEF Places
  <2> QED
    BY <1>0, <1>4, <2>0, <2>1, <2>2, <2>3, CountersStep, <1>1, <1>2, Zenon
<1>5. CASE CancelReader(t)
  <2>1. /\ readers' = readers + (IF "outside" = "read" THEN 1 ELSE 0) - (IF task[t] = "read" THEN 1 ELSE 0)
        /\ waiting_writers' = waiting_writers + (IF "outside" = "wait_write" THEN 1 ELSE 0)
                                             - (IF task[t] = "wait_write" THEN 1 ELSE 0)
    BY <1>0, <1>5 DEF CancelReader
  <2>2. writer_active' <=> (\E u \in Tasks : task'[u] = "write")
    BY <1>0, <1>5, CountersByPlace DEF CancelReader
  <2>3. "outside" \in Places
    BY Zenon DEF Places
  <2> QED
    BY <1>0, <1>5, <2>1, <2>2, <2>3, CountersStep, <1>1, <1>2, Zenon
<1>6. CASE CancelWriter(t)
  <2>1. /\ readers' = readers + (IF "outside" = "read" THEN 1 ELSE 0) - (IF task[t] = "read" THEN 1 ELSE 0)
        /\ waiting_writers' = waiting_writers + (IF "outside" = "wait_write" THEN 1 ELSE 0)
                                             - (IF task[t] = "wait_write" THEN 1 ELSE 0)
    BY <1>0, <1>6 DEF CancelWriter
  <2>2. writer_active' <=> (\E u \in Tasks : task'[u] = "write")
    BY <1>0, <1>6, CountersByPlace DEF CancelWriter
  <2>3. "outside" \in Places
    BY Zenon DEF Places
  <2> QED
    BY <1>0, <1>6, <2>1, <2>2, <2>3, CountersStep, <1>1, <1>2, Zenon
<1> QED
  BY <1>3, <1>4, <1>5, <1>6

\* Every step of the lock, a cancelled writer's included, keeps LockInv.
LEMMA StepInv ==
    ASSUME LockInv, NEW t \in Tasks, LockStep(t) \/ CancelWriter(t)
    PROVE  LockInv'
<1>1. CASE AcquireReader(t) \/ ResumeReader(t)
  BY <1>1, ReaderTurnInv, Zenon DEF AcquireReader, ResumeReader
<1>2. CASE AcquireWriter(t)
  <2>1. task[t] = (IF 1 = 1 THEN "outside" ELSE "wait_write") /\ WriterTurn(t, 1) /\ 1 \in {0, 1}
    BY <1>2, Zenon DEF AcquireWriter
  <2> QED
    BY <2>1, WriterTurnInv, Zenon
<1>3. CASE ResumeWriter(t)
  <2>1. task[t] = (IF 0 = 1 THEN "outside" ELSE "wait_write") /\ WriterTurn(t, 0) /\ 0 \in {0, 1}
    BY <1>3 DEF ResumeWriter
  <2> QED
    BY <2>1, WriterTurnInv, Zenon
<1>4. CASE ReleaseReader(t) \/ ReleaseWriter(t) \/ CancelReader(t) \/ CancelWriter(t)
  BY <1>4, LeaveInv, Zenon
<1> QED
  BY <1>1, <1>2, <1>3, <1>4, Zenon DEF LockStep

\* A stuttering step keeps it too.
LEMMA StutterInv ==
    ASSUME LockInv, UNCHANGED lock_vars
    PROVE  LockInv'
BY Zenon DEF LockInv, LockTypeOK, CountersExact, WriterAlone, Inside, lock_vars

\* At the start nobody is inside and the counters are zero.
LEMMA InitInv ==
    ASSUME LockInit
    PROVE  LockInv
<1>1. LockTypeOK
  <2>1. readers \in Int /\ waiting_writers \in Int /\ notified \subseteq Tasks
    BY DEF LockInit
  <2>2. task \in [Tasks -> Places] /\ writer_active \in BOOLEAN
    BY Zenon DEF LockInit, Places
  <2> QED
    BY <2>1, <2>2, Zenon DEF LockTypeOK
<1>2. Inside("read") = {} /\ Inside("wait_write") = {} /\ Inside("write") = {}
  BY DEF LockInit, Inside
<1>3. CountersExact
  BY <1>2, FS_EmptySet, Zenon DEF LockInit, CountersExact
<1>4. WriterAlone
  BY DEF LockInit, WriterAlone
<1> QED
  BY <1>1, <1>3, <1>4, Zenon DEF LockInv

\* For any number of tasks, under any use of the lock and any cancellation,
\* _readers, _waiting_writers and _writer_active say exactly who is inside
\* and who is in the queue.
THEOREM LockCountersExact == LockSpec => []CountersExact
<1>1. LockInit => LockInv
  BY InitInv
<1>2. LockInv /\ [LockNext]_lock_vars => LockInv'
  <2> SUFFICES ASSUME LockInv, [LockNext]_lock_vars
               PROVE  LockInv'
    OBVIOUS
  <2>1. CASE UNCHANGED lock_vars
    BY <2>1, StutterInv, Zenon
  <2>2. CASE LockNext
    BY <2>2, StepInv, Zenon DEF LockNext
  <2> QED
    BY <2>1, <2>2, Zenon
<1>3. LockInv => CountersExact
  BY Zenon DEF LockInv
<1> QED
  BY <1>1, <1>2, <1>3, PTL DEF LockSpec

-----------------------------------------------------------------------------
(* The lock implements SharedExclusive                                     *)

\* The abstract mode of a place.
ModeOf(place) ==
    CASE place = "read"  -> "shared"
      [] place = "write" -> "exclusive"
      [] OTHER           -> "outside"

\* The places that readers, writers and everybody else are in.
LEMMA ModeFacts ==
    /\ ModeOf("read") = "shared"
    /\ ModeOf("write") = "exclusive"
    /\ ModeOf("outside") = "outside" /\ ModeOf("wait_read") = "outside" /\ ModeOf("wait_write") = "outside"
    /\ \A p \in Places : /\ ModeOf(p) = "shared" <=> p = "read"
                         /\ ModeOf(p) = "exclusive" <=> p = "write"
                         /\ ModeOf(p) = "outside" <=> p \in {"outside", "wait_read", "wait_write"}
BY DEF ModeOf, Places

\* The mapping, before and after a step that moves one task.
LEMMA ModeMoves ==
    ASSUME LockTypeOK, NEW t \in Tasks, NEW p \in Places, task' = [task EXCEPT ![t] = p]
    PROVE  /\ \A u \in Tasks : Mode[u] = ModeOf(task[u])
           /\ Mode' = [Mode EXCEPT ![t] = ModeOf(p)]
<1>1. Mode = [u \in Tasks |-> ModeOf(task[u])] /\ Mode' = [u \in Tasks |-> ModeOf(task'[u])]
  BY Zenon DEF Mode, ModeOf
<1>2. \A u \in Tasks : ModeOf(task'[u]) = IF u = t THEN ModeOf(p) ELSE ModeOf(task[u])
  BY Zenon DEF LockTypeOK
<1>3. Mode' = [u \in Tasks |-> IF u = t THEN ModeOf(p) ELSE ModeOf(task[u])]
  BY <1>1, <1>2
<1> QED
  BY <1>1, <1>3

\* Every step of the lock is a step of SharedExclusive or leaves it alone.
LEMMA StepImplements ==
    ASSUME LockInv, NEW t \in Tasks, LockStep(t) \/ CancelWriter(t)
    PROVE  Promise!Next \/ UNCHANGED Mode
<1> USE DEF LockInv
<1>0. task \in [Tasks -> Places]
  BY Zenon DEF LockTypeOK
<1>1. ASSUME NEW p \in {"outside", "wait_read", "wait_write"}, task' = [task EXCEPT ![t] = p],
             task[t] \in {"outside", "wait_read", "wait_write"}
      PROVE  UNCHANGED Mode
  <2>1. Mode' = [Mode EXCEPT ![t] = "outside"] /\ Mode[t] = "outside"
    BY <1>0, <1>1, ModeMoves, ModeFacts DEF Places
  <2> QED
    BY <2>1 DEF Mode
<1>2. CASE /\ AcquireReader(t) \/ ResumeReader(t)
           /\ ReaderBlocked
  BY <1>1, <1>2 DEF AcquireReader, ResumeReader, ReaderTurn
<1>3. CASE /\ AcquireReader(t) \/ ResumeReader(t)
           /\ ~ReaderBlocked
  <2>1. task' = [task EXCEPT ![t] = "read"] /\ task[t] \in {"outside", "wait_read"} /\ ~writer_active
    BY <1>3, Zenon DEF AcquireReader, ResumeReader, ReaderTurn, ReaderBlocked
  <2>2. \A u \in Tasks : task[u] # "write"
    BY <2>1, CountersByPlace, Zenon
  <2>3. /\ Mode' = [Mode EXCEPT ![t] = "shared"] /\ Mode[t] = "outside"
        /\ \A u \in Tasks : Mode[u] # "exclusive"
    BY <1>0, <2>1, <2>2, ModeMoves, ModeFacts DEF Places
  <2> QED
    BY <2>3, Zenon DEF Promise!Next, Promise!EnterShared
<1>4. CASE /\ AcquireWriter(t) \/ ResumeWriter(t)
           /\ WriterBlocked
  BY <1>1, <1>4 DEF AcquireWriter, ResumeWriter, WriterTurn
<1>5. CASE /\ AcquireWriter(t) \/ ResumeWriter(t)
           /\ ~WriterBlocked
  <2>1. task' = [task EXCEPT ![t] = "write"] /\ ~writer_active /\ ~(readers > 0)
    BY <1>5, Zenon DEF AcquireWriter, ResumeWriter, WriterTurn, WriterBlocked
  <2>2. readers = 0
    BY <2>1, CountersCount
  <2>3. \A u \in Tasks : task[u] # "write" /\ task[u] # "read"
    BY <2>1, <2>2, NoReaders, CountersByPlace, Zenon
  <2>4. /\ Mode' = [Mode EXCEPT ![t] = "exclusive"]
        /\ \A u \in Tasks : Mode[u] = "outside"
    BY <1>0, <2>1, <2>3, ModeMoves, ModeFacts DEF Places
  <2> QED
    BY <2>4, Zenon DEF Promise!Next, Promise!EnterExclusive
<1>6. CASE ReleaseReader(t) \/ ReleaseWriter(t)
  <2>1. task' = [task EXCEPT ![t] = "outside"] /\ task[t] \in {"read", "write"}
    BY <1>6, Zenon DEF ReleaseReader, ReleaseWriter
  <2>2. Mode' = [Mode EXCEPT ![t] = "outside"] /\ Mode[t] # "outside"
    BY <1>0, <2>1, ModeMoves, ModeFacts DEF Places
  <2> QED
    BY <2>2, Zenon DEF Promise!Next, Promise!Leave
<1>7. CASE CancelReader(t) \/ CancelWriter(t)
  BY <1>1, <1>7 DEF CancelReader, CancelWriter
<1> QED
  BY <1>2, <1>3, <1>4, <1>5, <1>6, <1>7, Zenon DEF LockStep

\* For any number of tasks and under any cancellation the lock is a
\* reader-writer lock: it implements SharedExclusive.
THEOREM LockImplementsSharedExclusive == LockSpec => ImplementsSharedExclusive
<1>1. LockInit => LockInv /\ Promise!Init
  <2>1. LockInit => Mode = [t \in Tasks |-> "outside"]
    BY DEF LockInit, Mode
  <2> QED
    BY <2>1, InitInv, Zenon DEF Promise!Init
<1>2. LockInv /\ [LockNext]_lock_vars => LockInv' /\ [Promise!Next]_(Promise!vars)
  <2> SUFFICES ASSUME LockInv, [LockNext]_lock_vars
               PROVE  LockInv' /\ (Promise!Next \/ UNCHANGED Mode)
    BY Zenon DEF Promise!vars
  <2>1. CASE UNCHANGED lock_vars
    <3>1. UNCHANGED Mode
      BY <2>1, Zenon DEF Mode, lock_vars
    <3> QED
      BY <2>1, <3>1, StutterInv, Zenon
  <2>2. CASE LockNext
    BY <2>2, StepInv, StepImplements, Zenon DEF LockNext
  <2> QED
    BY <2>1, <2>2, Zenon
<1> QED
  BY <1>1, <1>2, PTL DEF LockSpec, ImplementsSharedExclusive, Promise!Spec

-----------------------------------------------------------------------------
(* Nobody is stranded                                                      *)

\* The steps of a lock whose waiting writers are not cancelled keep every
\* waiter either scheduled or behind something that will wake it: what a
\* waiter waits for goes away only in release_reader or release_writer, which
\* notify everybody, or by a waiting writer becoming the active one.
LEMMA StepStrandsNobody ==
    ASSUME LockInv, NobodyStranded, NEW t \in Tasks, LockStep(t)
    PROVE  NobodyStranded'
<1> USE DEF LockInv
<1>0. /\ task \in [Tasks -> Places] /\ readers \in Nat /\ waiting_writers \in Nat
      /\ task[t] = "wait_write" => waiting_writers > 0
  <2>1. readers \in Nat
    BY CountersCount
  <2>2. IsFiniteSet(Inside("wait_write"))
    BY TasksFinite, FS_Subset, Zenon DEF Inside
  <2>3. waiting_writers \in Nat
    BY <2>2, FS_CardinalityType, Zenon DEF CountersExact
  <2>4. ASSUME task[t] = "wait_write" PROVE waiting_writers # 0
    BY <2>2, <2>4, FS_EmptySet, Zenon DEF CountersExact, Inside
  <2> QED
    BY <2>1, <2>3, <2>4 DEF LockTypeOK
<1>1. SUFFICES ASSUME NEW u \in Tasks, task'[u] \in {"wait_read", "wait_write"}, u \notin notified'
               PROVE  \/ writer_active'
                      \/ task'[u] = "wait_read" /\ waiting_writers' > 0
                      \/ task'[u] = "wait_write" /\ readers' > 0
  BY Zenon DEF NobodyStranded, Waiters
<1>2. ASSUME u # t, u \notin notified, task'[u] = task[u]
      PROVE  \/ writer_active
             \/ task[u] = "wait_read" /\ waiting_writers > 0
             \/ task[u] = "wait_write" /\ readers > 0
  BY <1>1, <1>2, Zenon DEF NobodyStranded, Waiters
<1>3. CASE AcquireReader(t) \/ ResumeReader(t)
  <2>1. CASE u = t
    BY <1>0, <1>1, <1>3, <2>1 DEF AcquireReader, ResumeReader, ReaderTurn, ReaderBlocked
  <2>2. CASE u # t
    BY <1>0, <1>1, <1>2, <1>3, <2>2 DEF AcquireReader, ResumeReader, ReaderTurn
  <2> QED
    BY <2>1, <2>2
<1>4. CASE AcquireWriter(t) \/ ResumeWriter(t)
  <2>1. CASE u = t
    BY <1>0, <1>1, <1>4, <2>1 DEF AcquireWriter, ResumeWriter, WriterTurn, WriterBlocked
  <2>2. CASE u # t
    BY <1>0, <1>1, <1>2, <1>4, <2>2 DEF AcquireWriter, ResumeWriter, WriterTurn
  <2> QED
    BY <2>1, <2>2
<1>5. CASE ReleaseReader(t)
  BY <1>0, <1>1, <1>2, <1>5 DEF ReleaseReader, Waiters
<1>6. CASE ReleaseWriter(t)
  BY <1>0, <1>1, <1>6 DEF ReleaseWriter, Waiters
<1>7. CASE CancelReader(t)
  BY <1>0, <1>1, <1>2, <1>7 DEF CancelReader
<1> QED
  BY <1>3, <1>4, <1>5, <1>6, <1>7, Zenon DEF LockStep

\* As long as no waiting writer is cancelled nobody is stranded: a waiter
\* that nobody has woken still has what it waits for (acquire_reader, "Wait
\* until there is no active writer or waiting writer").
THEOREM LockStrandsNobody == PatientSpec => []NobodyStranded
<1>1. LockInit => LockInv /\ NobodyStranded
  <2>1. LockInit => NobodyStranded
    BY DEF LockInit, NobodyStranded, Waiters
  <2> QED
    BY <2>1, InitInv, Zenon
<1>2. LockInv /\ NobodyStranded /\ [\E t \in Tasks : LockStep(t)]_lock_vars
      => LockInv' /\ NobodyStranded'
  <2> SUFFICES ASSUME LockInv, NobodyStranded, [\E t \in Tasks : LockStep(t)]_lock_vars
               PROVE  LockInv' /\ NobodyStranded'
    BY Zenon
  <2>1. CASE UNCHANGED lock_vars
    BY <2>1, StutterInv, Zenon DEF NobodyStranded, Waiters, lock_vars
  <2>2. CASE \E t \in Tasks : LockStep(t)
    BY <2>2, StepInv, StepStrandsNobody, Zenon
  <2> QED
    BY <2>1, <2>2, Zenon
<1> QED
  BY <1>1, <1>2, PTL DEF PatientSpec
=============================================================================
