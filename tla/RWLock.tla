------------------------------- MODULE RWLock -------------------------------
(***************************************************************************)
(* The reader-writer lock of the frontend (engine/aio_rwlock.py): every    *)
(* generation request holds it as a reader, every weight update as a       *)
(* writer.  It is one asyncio condition over two counters and a flag.      *)
(*                                                                         *)
(* A task runs from one suspension point to the next without another task  *)
(* in between, so each action is one such run: the call up to the first    *)
(* wait, one turn of the wait loop, a release.  The mutex inside the       *)
(* condition is never held across a suspension (Condition.wait gives it    *)
(* up), so it only orders the turns and is left out: turns come in any     *)
(* order.                                                                  *)
(***************************************************************************)
EXTENDS Integers, FiniteSets

CONSTANT Tasks      \* the asyncio tasks that use the lock

ASSUME TasksFinite == IsFiniteSet(Tasks)

VARIABLES
    readers,            \* _readers
    writer_active,      \* _writer_active
    waiting_writers,    \* _waiting_writers
    task,               \* where each task is: outside, in a wait loop, or inside
    notified            \* the waiters whose wake-up is scheduled but has not run

lock_vars == <<readers, writer_active, waiting_writers, task, notified>>

Places == {"outside", "wait_read", "wait_write", "read", "write"}

Waiters == {t \in Tasks : task[t] \in {"wait_read", "wait_write"}}

LockInit ==
    /\ readers = 0
    /\ writer_active = FALSE
    /\ waiting_writers = 0
    /\ task = [t \in Tasks |-> "outside"]
    /\ notified = {}

ReaderBlocked == writer_active \/ waiting_writers > 0

\* WriterBlocked that looks at the other writers only.
WriterBlockedByWriter == writer_active

WriterBlocked == writer_active \/ readers > 0

\* One turn of acquire_reader's loop: wait (again), or enter.
ReaderTurn(t) ==
    /\ notified' = notified \ {t}
    /\ \/ /\ ReaderBlocked
          /\ task' = [task EXCEPT ![t] = "wait_read"]
          /\ UNCHANGED readers
       \/ /\ ~ReaderBlocked
          /\ task' = [task EXCEPT ![t] = "read"]
          /\ readers' = readers + 1
    /\ UNCHANGED <<writer_active, waiting_writers>>

AcquireReader(t) == task[t] = "outside" /\ ReaderTurn(t)

ResumeReader(t) == task[t] = "wait_read" /\ t \in notified /\ ReaderTurn(t)

\* One turn of acquire_writer's loop, the queue counted with `joining` more.
\* Entering leaves the queue (the finally) and takes the flag.
WriterTurn(t, joining) ==
    /\ notified' = notified \ {t}
    /\ \/ /\ WriterBlocked
          /\ task' = [task EXCEPT ![t] = "wait_write"]
          /\ waiting_writers' = waiting_writers + joining
          /\ UNCHANGED writer_active
       \/ /\ ~WriterBlocked
          /\ task' = [task EXCEPT ![t] = "write"]
          /\ waiting_writers' = waiting_writers + joining - 1
          /\ writer_active' = TRUE
    /\ UNCHANGED readers

AcquireWriter(t) == task[t] = "outside" /\ WriterTurn(t, 1)

ResumeWriter(t) == task[t] = "wait_write" /\ t \in notified /\ WriterTurn(t, 0)

\* ReleaseReader that wakes nobody.
ReleaseReaderSilently(t) ==
    /\ task[t] = "read"
    /\ readers' = readers - 1
    /\ task' = [task EXCEPT ![t] = "outside"]
    /\ UNCHANGED <<writer_active, waiting_writers, notified>>

\* The last reader out wakes every waiter; an earlier one wakes nobody.
ReleaseReader(t) ==
    /\ task[t] = "read"
    /\ readers' = readers - 1
    /\ task' = [task EXCEPT ![t] = "outside"]
    /\ notified' = IF readers = 1 THEN Waiters ELSE notified
    /\ UNCHANGED <<writer_active, waiting_writers>>

ReleaseWriter(t) ==
    /\ task[t] = "write"
    /\ writer_active' = FALSE
    /\ task' = [task EXCEPT ![t] = "outside"]
    /\ notified' = Waiters
    /\ UNCHANGED <<readers, waiting_writers>>

\* The task is cancelled inside a wait loop.  A writer leaves the queue (the
\* finally); nobody is notified.
CancelReader(t) ==
    /\ task[t] = "wait_read"
    /\ task' = [task EXCEPT ![t] = "outside"]
    /\ notified' = notified \ {t}
    /\ UNCHANGED <<readers, writer_active, waiting_writers>>

CancelWriter(t) ==
    /\ task[t] = "wait_write"
    /\ task' = [task EXCEPT ![t] = "outside"]
    /\ notified' = notified \ {t}
    /\ waiting_writers' = waiting_writers - 1
    /\ UNCHANGED <<readers, writer_active>>

LockStep(t) ==
    \/ AcquireReader(t) \/ ResumeReader(t) \/ ReleaseReader(t) \/ CancelReader(t)
    \/ AcquireWriter(t) \/ ResumeWriter(t) \/ ReleaseWriter(t)

LockNext == \E t \in Tasks : LockStep(t) \/ CancelWriter(t)

LockSpec == LockInit /\ [][LockNext]_lock_vars

\* The lock when no writer is ever cancelled while it waits.
PatientSpec == LockInit /\ [][\E t \in Tasks : LockStep(t)]_lock_vars

-----------------------------------------------------------------------------
Inside(place) == {t \in Tasks : task[t] = place}

\* The counters say who is inside and who is in the queue.
CountersExact ==
    /\ readers = Cardinality(Inside("read"))
    /\ waiting_writers = Cardinality(Inside("wait_write"))
    /\ writer_active <=> (Inside("write") # {})

\* A waiter whose wake-up is not scheduled still has what it waits for: a
\* reader a writer inside or in the queue, a writer somebody inside
\* (acquire_reader: "Wait until there is no active writer or waiting writer").
\* Otherwise nobody will ever wake it.
NobodyStranded ==
    \A t \in Waiters \ notified :
        \/ writer_active
        \/ task[t] = "wait_read" /\ waiting_writers > 0
        \/ task[t] = "wait_write" /\ readers > 0

Mode == [t \in Tasks |->
            CASE task[t] = "read"  -> "shared"
              [] task[t] = "write" -> "exclusive"
              [] OTHER             -> "outside"]

Promise == INSTANCE SharedExclusive WITH mode <- Mode

\* The lock is a reader-writer lock: readers share it, a writer has it alone.
ImplementsSharedExclusive == Promise!Spec
=============================================================================
