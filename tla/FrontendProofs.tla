--------------------------- MODULE FrontendProofs ---------------------------
(***************************************************************************)
(* What the frontend keeps for any number of clients, pauses and updates:  *)
(* it uses its lock as the lock allows, and no client is given tokens of   *)
(* two versions of the weights.                                            *)
(***************************************************************************)
EXTENDS Frontend, RWLockProofs, SequenceTheorems

-----------------------------------------------------------------------------
(* The frontend's steps are the lock's                                     *)

\* A step of the frontend acquires, resumes, releases or cancels for one task,
\* or leaves the lock alone; it never cancels a waiting writer.
LEMMA UsesTheLock ==
    ASSUME [Next]_vars
    PROVE  [\E t \in Tasks : LockStep(t)]_lock_vars
<1> USE TasksAreClientsAndTrainer
<1>1. CASE UNCHANGED vars
  BY <1>1, Zenon DEF vars
<1>2. ASSUME NEW c \in Clients, ClientStep(c) \/ Cancel(c)
      PROVE  [\E t \in Tasks : LockStep(t)]_lock_vars
  <2>1. LockStep(c) \/ UNCHANGED lock_vars
    BY <1>2, Zenon DEF ClientStep, Cancel, Enter, ResumeClient, SendReturns, CancelEntering,
                       CancelWaiting, CancelSending, TokenizeRaises, Ends, LockStep
  <2> QED
    BY <1>2, <2>1, Zenon
<1>3. ASSUME NEW r \in Rids, Receive(r) \/ AbortByRid(r) \/ HandleOutput(r) \/ EngineStep(r) \/ LapseAbort(r)
      PROVE  [\E t \in Tasks : LockStep(t)]_lock_vars
  <2>1. CASE ReceiveLast(r)
    <3>1. LockStep(Client(r)) \/ UNCHANGED lock_vars
      BY <2>1 DEF ReceiveLast, Ends, LockStep
    <3>2. Client(r) \in Tasks
      BY Zenon DEF Rids, Client
    <3> QED
      BY <3>1, <3>2, Zenon
  <2>2. CASE ReceiveMore(r) \/ AbortByRid(r) \/ HandleOutput(r) \/ EngineStep(r) \/ LapseAbort(r)
    BY <2>2, Zenon DEF ReceiveMore, AbortByRid, HandleOutput, EngineStep, TakeAdd, TakeAbort, LapseAbort, Step
  <2> QED
    BY <1>3, <2>1, <2>2, Zenon DEF Receive
<1>4. CASE Pause \/ PauseFails \/ Update \/ TrainerStep
  <2>1. LockStep(Trainer) \/ UNCHANGED lock_vars
    BY <1>4, Zenon DEF Pause, PauseFails, Update, TrainerStep, ResumeTrainer, Updated, Continue, Readmit,
                       TakePause, AbortAll, Drained, Rewrite, TakeResume, LockStep
  <2> QED
    BY <2>1, Zenon
<1> QED
  BY <1>1, <1>2, <1>3, <1>4, Zenon DEF Next

\* With any number of clients the frontend is a user of a lock whose waiting
\* writers are never cancelled (an update's task has no client to leave it).
THEOREM FrontendUsesTheLock == Spec => PatientSpec
<1>1. Init => LockInit
  BY Zenon DEF Init
<1> QED
  BY <1>1, UsesTheLock, PTL DEF Spec, PatientSpec

\* The model-update lock of the frontend is a reader-writer lock.
THEOREM FrontendImplementsSharedExclusive == Spec => ImplementsSharedExclusive
<1>1. PatientSpec => LockSpec
  <2>1. [\E t \in Tasks : LockStep(t)]_lock_vars => [LockNext]_lock_vars
    BY Zenon DEF LockNext
  <2> QED
    BY <2>1, PTL DEF PatientSpec, LockSpec
<1> QED
  BY <1>1, FrontendUsesTheLock, LockImplementsSharedExclusive, PTL

\* No task of the frontend is left waiting for the lock with nobody to wake it.
THEOREM FrontendStrandsNobody == Spec => []NobodyStranded
BY FrontendUsesTheLock, LockStrandsNobody, PTL

-----------------------------------------------------------------------------
(* One version of the weights per request                                  *)

Token == [pos : Nat, by : Nat]
TokensBy(v) == {x \in Token : x.by = v}
Output(tokens) == [tokens : Seq(tokens), fin : Finishes]
ReqState(tokens) ==
    [output_ids : Seq(tokens), pending : Seq(tokens), has_pending : BOOLEAN,
     event : BOOLEAN, finished : Finishes]

Shapes ==
    /\ mix \in Mixes /\ version \in Nat
    /\ at \in [Clients -> {"gate", "queued", "sending", "wait", "answered", "failed"}]
    /\ sent \in [Clients -> Nat] /\ watching \subseteq Rids
    /\ state \in [Rids -> ReqState(Token)]
    /\ got \in [Rids -> Seq(Token)] /\ made \in [Rids -> Seq(Token)]
    /\ outputs \in [Rids -> Seq(Output(Token))]

\* A request is in the lock from its first part on until it is over.
InTheLock ==
    \A c \in Clients :
        /\ at[c] \in {"sending", "wait"} => task[c] = "read"
        /\ task[c] = "wait_read" => at[c] = "queued"

\* A request sends two parts at most.
PartsInTurn ==
    \A c \in Clients :
        /\ at[c] \in {"gate", "queued"} => sent[c] = 0
        /\ at[c] = "sending" => sent[c] \in {0, 1}

\* Only the parts last sent of a request under way are waited for, and the
\* siblings a failed batch left behind.
WaitedFor ==
    \A r \in watching :
        \/ at[Client(r)] = "wait" /\ (mix[Client(r)].kind = "batch" \/ r[2] = sent[Client(r)])
        \/ at[Client(r)] = "failed" /\ mix[Client(r)].kind = "batch"

\* Nothing exists of a request that is not in the lock yet.
Unsent(r) ==
    /\ r \notin running /\ r \notin withheld /\ [kind |-> "add", rid |-> r] \notin inbox
    /\ outputs[r] = <<>> /\ state[r] = Fresh /\ got[r] = <<>>
NotYetSent == \A r \in Rids : at[Client(r)] \in {"gate", "queued"} => Unsent(r)

\* All there is of a request in the lock was made by the weights of today.
MadeBy(r, v) ==
    /\ outputs[r] \in Seq(Output(TokensBy(v))) /\ state[r] \in ReqState(TokensBy(v))
    /\ got[r] \in Seq(TokensBy(v))
MadeByToday == \A r \in Rids : at[Client(r)] \in {"sending", "wait"} => MadeBy(r, version)

GivenOneVersion ==
    \A c \in Clients : \E v \in Nat : \A r \in Rids : Client(r) = c => got[r] \in Seq(TokensBy(v))

ContentInv ==
    /\ Shapes /\ InTheLock /\ PartsInTurn /\ WaitedFor
    /\ NotYetSent /\ MadeByToday /\ GivenOneVersion

FrontendInv == LockInv /\ ContentInv

-----------------------------------------------------------------------------
(* Contents                                                                *)

\* What appending, joining, taking the rest and cutting leave a sequence of.
LEMMA SeqFacts ==
    ASSUME NEW S
    PROVE  /\ \A s \in Seq(S), e \in S : Append(s, e) \in Seq(S)
           /\ \A s, u \in Seq(S) : s \o u \in Seq(S)
           /\ \A s \in Seq(S) : s # <<>> => Head(s) \in S /\ Tail(s) \in Seq(S)
           /\ \A s \in Seq(S) : \A i \in DOMAIN s : SubSeq(s, 1, i) \in Seq(S)
<1>1. \A s \in Seq(S), e \in S : Append(s, e) \in Seq(S)
  OBVIOUS
<1>2. \A s, u \in Seq(S) : s \o u \in Seq(S)
  OBVIOUS
<1>3. \A s \in Seq(S) : s # <<>> => Head(s) \in S /\ Tail(s) \in Seq(S)
  OBVIOUS
<1>4. ASSUME NEW s \in Seq(S), NEW i \in DOMAIN s
      PROVE  SubSeq(s, 1, i) \in Seq(S)
  <2>1. i \in Int /\ 1 \in Int /\ \A j \in 1 .. i : s[j] \in S
    OBVIOUS
  <2> QED
    BY <2>1, SubSeqProperties
<1> QED
  BY <1>1, <1>2, <1>3, <1>4, Zenon

\* A part belongs to a client.
LEMMA RidFacts ==
    /\ \A r \in Rids : Client(r) \in Clients /\ r[2] \in {1, 2} /\ r = <<Client(r), r[2]>>
    /\ \A c \in Clients, n \in {1, 2} : <<c, n>> \in Rids /\ Client(<<c, n>>) = c
BY DEF Rids, Client

\* A part of which nothing exists is of any version.
LEMMA UnsentIsOfAnyVersion ==
    ASSUME NEW r \in Rids, NEW v \in Nat, Unsent(r)
    PROVE  MadeBy(r, v)
<1>1. <<>> \in Seq(TokensBy(v)) /\ <<>> \in Seq(Output(TokensBy(v)))
  BY EmptySeq, Zenon
<1>2. Fresh \in ReqState(TokensBy(v))
  BY <1>1 DEF Fresh, ReqState, Finishes
<1> QED
  BY <1>1, <1>2, Zenon DEF Unsent, MadeBy

\* Steps that touch no contents: whoever they bring into the lock has none.
LEMMA SameContents ==
    ASSUME FrontendInv, UNCHANGED <<version, outputs, state, got>>,
           \A c \in Clients : at'[c] \in {"sending", "wait"} => at[c] \notin {"answered", "failed"}
    PROVE  MadeByToday' /\ GivenOneVersion'
<1>1. ASSUME NEW r \in Rids, at'[Client(r)] \in {"sending", "wait"}
      PROVE  MadeBy(r, version)
  <2>1. at[Client(r)] \in {"gate", "queued", "sending", "wait"}
    BY <1>1, RidFacts DEF FrontendInv, ContentInv, Shapes
  <2>2. CASE at[Client(r)] \in {"gate", "queued"}
    BY <2>2, UnsentIsOfAnyVersion, Zenon DEF FrontendInv, ContentInv, Shapes, NotYetSent
  <2>3. CASE at[Client(r)] \in {"sending", "wait"}
    BY <2>3, Zenon DEF FrontendInv, ContentInv, MadeByToday
  <2> QED
    BY <2>1, <2>2, <2>3, Zenon
<1>2. MadeByToday'
  BY <1>1, Zenon DEF MadeByToday, MadeBy
<1> QED
  BY <1>2, Zenon DEF FrontendInv, ContentInv, GivenOneVersion

\* Steps that keep everybody where they are and may only append outputs of
\* today's weights, to parts that were sent.
OutputsGrow ==
    \A r \in Rids :
        \/ outputs'[r] = outputs[r]
        \/ /\ ~Unsent(r)
           /\ \E o \in Output(TokensBy(version)) : outputs'[r] = Append(outputs[r], o)

LEMMA GrownContents ==
    ASSUME FrontendInv, UNCHANGED <<version, state, got, at>>, OutputsGrow
    PROVE  MadeByToday' /\ GivenOneVersion'
<1>1. ASSUME NEW r \in Rids, at[Client(r)] \in {"sending", "wait"}
      PROVE  outputs'[r] \in Seq(Output(TokensBy(version)))
  <2>1. outputs[r] \in Seq(Output(TokensBy(version)))
    BY <1>1, Zenon DEF FrontendInv, ContentInv, MadeByToday, MadeBy
  <2>2. CASE outputs'[r] = outputs[r]
    BY <2>1, <2>2, Zenon
  <2>3. ASSUME NEW o \in Output(TokensBy(version)), outputs'[r] = Append(outputs[r], o)
        PROVE  outputs'[r] \in Seq(Output(TokensBy(version)))
    BY <2>1, <2>3, SeqFacts, Zenon
  <2> QED
    BY <2>2, <2>3, Zenon DEF OutputsGrow
<1>2. MadeByToday'
  BY <1>1, Zenon DEF FrontendInv, ContentInv, MadeByToday, MadeBy
<1> QED
  BY <1>2, Zenon DEF FrontendInv, ContentInv, GivenOneVersion

\* Parts not yet sent stay so while nothing is made out of nothing: the engine
\* runs what it was sent, and what is sent belongs to a request in the lock.
LEMMA StillUnsent ==
    ASSUME FrontendInv,
           \A c \in Clients : at'[c] \in {"gate", "queued"} => at[c] \in {"gate", "queued"},
           \A r \in Rids :
               \/ at'[Client(r)] \notin {"gate", "queued"}
               \/ ~Unsent(r)
               \/ /\ outputs'[r] = outputs[r] /\ state'[r] = state[r] /\ got'[r] = got[r]
                  /\ r \notin running' /\ r \notin withheld'
                  /\ [kind |-> "add", rid |-> r] \notin inbox'
    PROVE  NotYetSent'
BY RidFacts, Zenon DEF FrontendInv, ContentInv, NotYetSent, Unsent

-----------------------------------------------------------------------------
(* The steps                                                               *)

AtPlaces == {"gate", "queued", "sending", "wait", "answered", "failed"}

\* Where tasks and requests are.
LEMMA WhereTypes ==
    ASSUME FrontendInv
    PROVE  /\ task \in [Tasks -> Places] /\ at \in [Clients -> AtPlaces]
           /\ \A c \in Clients : c \in Tasks
           /\ \A r \in watching : r \in Rids
BY TasksAreClientsAndTrainer, Zenon DEF FrontendInv, LockInv, LockTypeOK, ContentInv, Shapes, AtPlaces

\* A request that enters the lock has nothing yet, and one that waits for it
\* sends nothing.
LEMMA EnterInv ==
    ASSUME FrontendInv, NEW c \in Clients, Enter(c) \/ ResumeClient(c)
    PROVE  ContentInv'
<1>0. at[c] \in {"gate", "queued"}
  BY Zenon DEF FrontendInv, ContentInv, InTheLock, Enter, ResumeClient, ResumeReader
<1>1. /\ UNCHANGED <<mix, sent, watching, got, state, version, made, running, withheld, outputs>>
      /\ \/ /\ task' = [task EXCEPT ![c] = "read"] /\ at' = [at EXCEPT ![c] = "sending"]
            /\ inbox' = inbox \cup {[kind |-> "add", rid |-> <<c, 1>>]}
         \/ /\ task' = [task EXCEPT ![c] = "wait_read"] /\ at' = [at EXCEPT ![c] = "queued"]
            /\ UNCHANGED inbox
  <2>1. c \in Tasks /\ task \in [Tasks -> Places]
    BY WhereTypes, Zenon
  <2>2. /\ SendIfReading(c)
        /\ \/ task' = [task EXCEPT ![c] = "read"] /\ task'[c] = "read"
           \/ task' = [task EXCEPT ![c] = "wait_read"] /\ task'[c] # "read"
    BY <2>1 DEF Enter, ResumeClient, AcquireReader, ResumeReader, ReaderTurn
  <2>3. UNCHANGED <<mix, sent, watching, got, state, version, made, running, withheld, outputs>>
    BY Zenon DEF Enter, ResumeClient, engine_vars
  <2> QED
    BY <2>2, <2>3, Zenon DEF SendIfReading, SendPart
<1>2. /\ at' \in [Clients -> {"gate", "queued", "sending", "wait", "answered", "failed"}]
      /\ \A d \in Clients \ {c} : at'[d] = at[d] /\ task'[d] = task[d]
      /\ \/ at'[c] = "sending" /\ task'[c] = "read"
         \/ at'[c] = "queued" /\ task'[c] = "wait_read"
  BY <1>1, WhereTypes DEF AtPlaces
<1>3. Shapes'
  BY <1>1, <1>2, Zenon DEF FrontendInv, ContentInv, Shapes
<1>4. InTheLock'
  BY <1>2 DEF FrontendInv, ContentInv, InTheLock
<1>5. WaitedFor'
  <2>1. ASSUME NEW r \in watching
        PROVE  Client(r) \in Clients \ {c}
    BY <1>0, RidFacts, Zenon DEF FrontendInv, ContentInv, WaitedFor, Shapes
  <2> QED
    BY <1>1, <1>2, <2>1, Zenon DEF FrontendInv, ContentInv, WaitedFor
<1>6. NotYetSent'
  <2>1. ASSUME NEW r \in Rids, at'[Client(r)] \in {"gate", "queued"}, Unsent(r)
        PROVE  [kind |-> "add", rid |-> r] \notin inbox'
    BY <1>1, <1>2, <2>1, RidFacts DEF Unsent
  <2> QED
    BY <1>0, <1>1, <1>2, <2>1, StillUnsent, Zenon DEF Unsent
<1>7. MadeByToday' /\ GivenOneVersion'
  BY <1>0, <1>1, <1>2, SameContents
<1>8. PartsInTurn'
  BY <1>0, <1>1, <1>2 DEF FrontendInv, ContentInv, PartsInTurn
<1> QED
  BY <1>3, <1>4, <1>5, <1>6, <1>7, <1>8, Zenon DEF ContentInv

\* A client that goes away takes its waiters along and sends no part.
LEMMA CancelInv ==
    ASSUME FrontendInv, NEW c \in Clients, Cancel(c)
    PROVE  ContentInv'
<1>0. ASSUME at[c] # "wait", at[c] # "failed", NEW r \in watching
      PROVE  Client(r) # c
  BY <1>0, Zenon DEF FrontendInv, ContentInv, WaitedFor
<1>1. /\ UNCHANGED <<mix, got, state, version, made, running, withheld, outputs>>
      /\ at' = [at EXCEPT ![c] = "failed"] /\ task' = [task EXCEPT ![c] = "outside"]
  BY Zenon DEF Cancel, CancelEntering, CancelWaiting, CancelSending, TokenizeRaises, Ends,
               ReleaseReader, CancelReader, engine_vars, frontend_vars
<1>2. \A r \in Rids : [kind |-> "add", rid |-> r] \in inbox' => [kind |-> "add", rid |-> r] \in inbox
  <2>1. CASE CancelWaiting(c)
    BY <2>1 DEF CancelWaiting, Abandon
  <2>2. CASE CancelEntering(c) \/ CancelSending(c) \/ TokenizeRaises(c)
    BY <2>2, Zenon DEF CancelEntering, CancelSending, TokenizeRaises
  <2> QED
    BY <2>1, <2>2, Zenon DEF Cancel
<1>3. /\ \A r \in watching' : r \in watching /\ Client(r) # c
      /\ sent' \in [Clients -> Nat] /\ \A d \in Clients \ {c} : sent'[d] = sent[d]
  <2>0. sent \in [Clients -> Nat]
    BY Zenon DEF FrontendInv, ContentInv, Shapes
  <2>1. CASE CancelEntering(c)
    <3>1. at[c] = "queued"
      BY <2>1, Zenon DEF FrontendInv, ContentInv, InTheLock, CancelEntering, CancelReader
    <3> QED
      BY <1>0, <2>0, <2>1, <3>1, Zenon DEF CancelEntering
  <2>2. CASE CancelWaiting(c)
    BY <2>0, <2>2, Zenon DEF CancelWaiting
  <2>3. CASE CancelSending(c)
    BY <1>0, <2>0, <2>3, Zenon DEF CancelSending
  <2>4. CASE TokenizeRaises(c)
    <3>1. \A r \in watching' : r \in watching /\ Client(r) # c
      BY <1>0, <2>4, Zenon DEF TokenizeRaises
    <3>2. sent' = [sent EXCEPT ![c] = 1]
      BY <2>4, Zenon DEF TokenizeRaises
    <3> QED
      BY <2>0, <3>1, <3>2
  <2> QED
    BY <2>1, <2>2, <2>3, <2>4, Zenon DEF Cancel
<1>4. /\ at' \in [Clients -> AtPlaces] /\ at'[c] = "failed" /\ task'[c] = "outside"
      /\ \A d \in Clients \ {c} : at'[d] = at[d] /\ task'[d] = task[d]
  BY <1>1, WhereTypes DEF AtPlaces
<1>5. Shapes'
  BY <1>1, <1>3, <1>4, Zenon DEF FrontendInv, ContentInv, Shapes, AtPlaces
<1>6. InTheLock'
  BY <1>4 DEF FrontendInv, ContentInv, InTheLock
<1>7. WaitedFor'
  <2>1. ASSUME NEW r \in watching'
        PROVE  r \in watching /\ Client(r) \in Clients \ {c}
    BY <1>3, WhereTypes, RidFacts, Zenon
  <2>2. mix' = mix
    BY <1>1, Zenon
  <2> QED
    BY <1>3, <1>4, <2>1, <2>2, Zenon DEF FrontendInv, ContentInv, WaitedFor
<1>8. NotYetSent'
  BY <1>1, <1>2, <1>4, StillUnsent, Zenon DEF Unsent
<1>9. MadeByToday' /\ GivenOneVersion'
  BY <1>1, <1>4, SameContents
<1>10. PartsInTurn'
  BY <1>3, <1>4 DEF FrontendInv, ContentInv, PartsInTurn
<1> QED
  BY <1>5, <1>6, <1>7, <1>8, <1>9, <1>10, Zenon DEF ContentInv

\* Once a part is sent it is waited for, or the batch's next one is sent.
LEMMA SendReturnsInv ==
    ASSUME FrontendInv, NEW c \in Clients, SendReturns(c)
    PROVE  ContentInv'
<1> DEFINE n == sent[c] + 1
<1>0. at[c] = "sending" /\ sent \in [Clients -> Nat] /\ n \in {1, 2}
  <2>1. at[c] = "sending" /\ sent \in [Clients -> Nat] /\ sent[c] \in {0, 1}
    BY Zenon DEF SendReturns, FrontendInv, ContentInv, Shapes, PartsInTurn
  <2> QED
    BY <2>1
<1>1. /\ UNCHANGED <<task, mix, got, state, version, made, running, withheld, outputs>>
      /\ sent' = [sent EXCEPT ![c] = n]
      /\ \/ /\ at' = [at EXCEPT ![c] = "sending"] /\ n = 1 /\ UNCHANGED watching
            /\ inbox' = inbox \cup {[kind |-> "add", rid |-> <<c, 2>>]}
         \/ /\ at' = [at EXCEPT ![c] = "wait"] /\ UNCHANGED inbox
            /\ watching' = watching \cup {<<c, i>> : i \in IF mix[c].kind = "batch" THEN {1, 2} ELSE {n}}
  BY DEF SendReturns, SendPart, engine_vars, lock_vars
<1>2. /\ at' \in [Clients -> AtPlaces] /\ sent' \in [Clients -> Nat] /\ sent'[c] = n
      /\ \A d \in Clients \ {c} : at'[d] = at[d] /\ sent'[d] = sent[d]
      /\ at'[c] = "wait" \/ (at'[c] = "sending" /\ n = 1 /\ watching' = watching)
  <2>1. \/ at' = [at EXCEPT ![c] = "sending"] /\ n = 1 /\ watching' = watching
        \/ at' = [at EXCEPT ![c] = "wait"]
    BY <1>1, Zenon
  <2>2. sent' = [sent EXCEPT ![c] = n]
    BY <1>1, Zenon
  <2> HIDE DEF n
  <2>3. sent' \in [Clients -> Nat] /\ sent'[c] = n /\ \A d \in Clients \ {c} : sent'[d] = sent[d]
    BY <1>0, <2>2
  <2>4. /\ at' \in [Clients -> AtPlaces] /\ \A d \in Clients \ {c} : at'[d] = at[d]
        /\ at'[c] = "wait" \/ (at'[c] = "sending" /\ n = 1 /\ watching' = watching)
    BY <2>1, WhereTypes DEF AtPlaces
  <2> QED
    BY <2>3, <2>4, Zenon
<1>3. ASSUME NEW r \in watching'
      PROVE  /\ r \in Rids
             /\ \/ r \in watching
                \/ at'[c] = "wait" /\ Client(r) = c /\ (mix[c].kind = "batch" \/ r[2] = n)
  <2>1. CASE r \in watching
    BY <2>1, WhereTypes, Zenon
  <2>2. CASE r \notin watching
    <3>1. PICK i \in IF mix[c].kind = "batch" THEN {1, 2} ELSE {n} : r = <<c, i>>
      BY <1>1, <1>3, <2>2, Zenon
    <3>2. i \in {1, 2} /\ (mix[c].kind = "batch" \/ i = n) /\ r[2] = i
      BY <1>0, <3>1
    <3>3. at'[c] = "wait"
      BY <1>2, <1>3, <2>2, Zenon
    <3> QED
      BY <3>1, <3>2, <3>3, RidFacts, Zenon
  <2> QED
    BY <2>1, <2>2, Zenon
<1>4. Shapes'
  BY <1>1, <1>2, <1>3, Zenon DEF FrontendInv, ContentInv, Shapes, AtPlaces
<1>5. InTheLock'
  BY <1>0, <1>1, <1>2 DEF FrontendInv, ContentInv, InTheLock
<1>6. PartsInTurn'
  BY <1>0, <1>2 DEF FrontendInv, ContentInv, PartsInTurn
<1>7. WaitedFor'
  <2>1. ASSUME NEW r \in watching
        PROVE  Client(r) \in Clients \ {c}
    BY <1>0, WhereTypes, RidFacts, Zenon DEF FrontendInv, ContentInv, WaitedFor
  <2>2. mix' = mix
    BY <1>1, Zenon
  <2> QED
    BY <1>2, <1>3, <2>1, <2>2, Zenon DEF FrontendInv, ContentInv, WaitedFor
<1>8. NotYetSent'
  <2>1. ASSUME NEW r \in Rids, at'[Client(r)] \in {"gate", "queued"}, Unsent(r)
        PROVE  [kind |-> "add", rid |-> r] \notin inbox'
    BY <1>1, <1>2, <2>1, RidFacts DEF Unsent
  <2> QED
    BY <1>0, <1>1, <1>2, <2>1, StillUnsent, Zenon DEF Unsent
<1>9. MadeByToday' /\ GivenOneVersion'
  BY <1>0, <1>1, <1>2, SameContents
<1> QED
  BY <1>4, <1>5, <1>6, <1>7, <1>8, <1>9, Zenon DEF ContentInv

\* Taking the pending output keeps the tokens of a state what they were.
LEMMA TakenShape ==
    ASSUME NEW S, NEW s \in ReqState(S), NEW event \in BOOLEAN
    PROVE  /\ Taken(s, event) \in ReqState(S)
           /\ s.pending \in Seq(S) /\ s.output_ids \in Seq(S) /\ s.finished \in Finishes
<1>1. s.pending \in Seq(S) /\ s.output_ids \in Seq(S) /\ s.finished \in Finishes
  BY DEF ReqState
<1>2. <<>> \in Seq(S)
  BY EmptySeq, Zenon
<1> QED
  BY <1>1, <1>2 DEF ReqState, Taken

\* A waiter hands its client what its collector had pending: for a request in
\* the lock, tokens of today's weights.
LEMMA TakenContents ==
    ASSUME FrontendInv, NEW r \in Rids, NEW event \in BOOLEAN, UNCHANGED <<version, outputs>>,
           state' = [state EXCEPT ![r] = Taken(state[r], event)],
           \/ UNCHANGED got
           \/ /\ at[Client(r)] = "wait"
              /\ \/ got' = [got EXCEPT ![r] = got[r] \o state[r].pending]
                 \/ got' = [got EXCEPT ![r] = state[r].pending],
           \A c \in Clients : at'[c] \in {"sending", "wait"} => at[c] \in {"sending", "wait"}
    PROVE  /\ state' \in [Rids -> ReqState(Token)] /\ got' \in [Rids -> Seq(Token)]
           /\ MadeByToday' /\ GivenOneVersion'
<1>0. /\ state \in [Rids -> ReqState(Token)] /\ got \in [Rids -> Seq(Token)] /\ version \in Nat
  BY Zenon DEF FrontendInv, ContentInv, Shapes
<1>1. /\ state' \in [Rids -> ReqState(Token)] /\ state'[r] = Taken(state[r], event)
      /\ \A q \in Rids \ {r} : state'[q] = state[q]
  <2>1. Taken(state[r], event) \in ReqState(Token)
    BY <1>0, TakenShape, Zenon
  <2> QED
    BY <1>0, <2>1, Zenon
<1>2. ASSUME NEW S, got[r] \in Seq(S), state[r] \in ReqState(S)
      PROVE  got'[r] \in Seq(S)
  <2>1. state[r].pending \in Seq(S) /\ got[r] \o state[r].pending \in Seq(S)
    BY <1>2, TakenShape, SeqFacts, Zenon
  <2> QED
    BY <1>0, <1>2, <2>1, Zenon
<1>3. got' \in [Rids -> Seq(Token)] /\ \A q \in Rids \ {r} : got'[q] = got[q]
  <2>1. got[r] \in Seq(Token) /\ state[r] \in ReqState(Token)
    BY <1>0, Zenon
  <2>2. state[r].pending \in Seq(Token) /\ got[r] \o state[r].pending \in Seq(Token)
    BY <2>1, TakenShape, SeqFacts, Zenon
  <2> QED
    BY <1>0, <2>2, Zenon
<1>4. ASSUME NEW q \in Rids, at[Client(q)] \in {"sending", "wait"}
      PROVE  /\ outputs[q] \in Seq(Output(TokensBy(version)))
             /\ state'[q] \in ReqState(TokensBy(version))
             /\ got'[q] \in Seq(TokensBy(version))
  <2>1. MadeBy(q, version)
    BY <1>4, Zenon DEF FrontendInv, ContentInv, MadeByToday
  <2>2. CASE q = r
    <3>1. state[r] \in ReqState(TokensBy(version)) /\ got[r] \in Seq(TokensBy(version))
      BY <2>1, <2>2, Zenon DEF MadeBy
    <3>2. got'[r] \in Seq(TokensBy(version))
      BY <1>2, <3>1, Zenon
    <3>3. state'[r] \in ReqState(TokensBy(version))
      BY <1>1, <3>1, TakenShape, Zenon
    <3> QED
      BY <2>1, <2>2, <3>2, <3>3, Zenon DEF MadeBy
  <2>3. CASE q # r
    BY <1>1, <1>3, <2>1, <2>3, Zenon DEF MadeBy
  <2> QED
    BY <2>2, <2>3, Zenon
<1>5. MadeByToday'
  <2>1. version' = version /\ outputs' = outputs
    OBVIOUS
  <2> QED
    BY <1>4, <2>1, RidFacts, Zenon DEF MadeByToday, MadeBy
<1>6. GivenOneVersion'
  <2> SUFFICES ASSUME NEW c \in Clients
               PROVE  \E v \in Nat : \A q \in Rids : Client(q) = c => got'[q] \in Seq(TokensBy(v))
    BY Zenon DEF GivenOneVersion
  <2>1. CASE at[c] \in {"sending", "wait"}
    BY <1>0, <1>4, <2>1, Zenon
  <2>2. CASE at[c] \notin {"sending", "wait"}
    <3>1. \A q \in Rids : Client(q) = c => got'[q] = got[q]
      BY <1>3, <2>2, Zenon
    <3> QED
      BY <3>1, Zenon DEF FrontendInv, ContentInv, GivenOneVersion
  <2> QED
    BY <2>1, <2>2, Zenon
<1> QED
  BY <1>1, <1>3, <1>5, <1>6, Zenon

\* A turn of a waiter on an output that is not the last.
LEMMA ReceiveMoreInv ==
    ASSUME FrontendInv, NEW r \in Rids, ReceiveMore(r)
    PROVE  ContentInv'
<1>1. /\ UNCHANGED <<task, mix, at, sent, watching, version, made, running, withheld, inbox, outputs>>
      /\ state' = [state EXCEPT ![r] = Taken(state[r], FALSE)] /\ r \in watching
      /\ got' = IF Client(r) \in Streams THEN [got EXCEPT ![r] = Given(r)] ELSE got
  BY Zenon DEF ReceiveMore, engine_vars, lock_vars
<1>2. \/ UNCHANGED got
      \/ /\ at[Client(r)] = "wait"
         /\ \/ got' = [got EXCEPT ![r] = got[r] \o state[r].pending]
            \/ got' = [got EXCEPT ![r] = state[r].pending]
  <2>1. CASE Client(r) \in Streams
    <3>1. mix[Client(r)].kind # "batch"
      BY <2>1, RidFacts, BatchesDoNotStream, Zenon DEF FrontendInv, ContentInv, Shapes
    <3>2. at[Client(r)] = "wait"
      BY <1>1, <3>1, Zenon DEF FrontendInv, ContentInv, WaitedFor
    <3> QED
      BY <1>1, <2>1, <3>2, Zenon DEF Given
  <2>2. CASE Client(r) \notin Streams
    BY <1>1, <2>2, Zenon
  <2> QED
    BY <2>1, <2>2, Zenon
<1>3. /\ state' \in [Rids -> ReqState(Token)] /\ got' \in [Rids -> Seq(Token)]
      /\ MadeByToday' /\ GivenOneVersion'
  <2>1. FALSE \in BOOLEAN /\ UNCHANGED <<version, outputs>> /\ at' = at
        /\ state' = [state EXCEPT ![r] = Taken(state[r], FALSE)]
    BY <1>1, Zenon
  <2> QED
    BY <1>2, <2>1, TakenContents, Zenon
<1>4. Shapes' /\ InTheLock' /\ PartsInTurn' /\ WaitedFor'
  BY <1>1, <1>3, Zenon DEF FrontendInv, ContentInv, Shapes, InTheLock, PartsInTurn, WaitedFor
<1>5. NotYetSent'
  <2>1. at[Client(r)] \in {"wait", "failed"}
    BY <1>1, Zenon DEF FrontendInv, ContentInv, WaitedFor
  <2>2. \A q \in Rids \ {r} : state'[q] = state[q] /\ got'[q] = got[q]
    BY <1>1, <1>2, Zenon DEF FrontendInv, ContentInv, Shapes
  <2>3. \A q \in Rids : at'[Client(q)] \in {"gate", "queued"} => q # r
    BY <1>1, <2>1
  <2> QED
    BY <1>1, <2>2, <2>3, StillUnsent, Zenon DEF Unsent
<1> QED
  BY <1>3, <1>4, <1>5, Zenon DEF ContentInv

\* A turn of a waiter on the last output: the request goes on to its replica,
\* ends, or stays for a sibling.
LEMMA ReceiveLastInv ==
    ASSUME FrontendInv, NEW r \in Rids, ReceiveLast(r)
    PROVE  ContentInv'
<1> DEFINE c == Client(r)
           NoSiblings == \A q \in watching \ {r} : Client(q) # c
<1>0. c \in Clients /\ r \in watching /\ watching' = watching \ {r}
  BY RidFacts, Zenon DEF ReceiveLast
<1>1. /\ UNCHANGED <<mix, sent, version, made, running, withheld, outputs>>
      /\ state' = [state EXCEPT ![r] = Taken(state[r], TRUE)]
  BY Zenon DEF ReceiveLast, engine_vars
<1>2. /\ at[c] \in {"wait", "failed"}
      /\ mix[c].kind # "batch" => at[c] = "wait" /\ r[2] = sent[c] /\ NoSiblings
  <2>1. /\ at[c] \in {"wait", "failed"}
        /\ mix[c].kind # "batch" => at[c] = "wait" /\ r[2] = sent[c]
    BY <1>0, Zenon DEF FrontendInv, ContentInv, WaitedFor
  <2>2. ASSUME mix[c].kind # "batch", NEW q \in watching, Client(q) = c
        PROVE  q = r
    <3>1. q[2] = sent[c] /\ r[2] = sent[c]
      BY <2>1, <2>2, Zenon DEF FrontendInv, ContentInv, WaitedFor
    <3>2. q \in Rids
      BY <2>2, WhereTypes, Zenon
    <3>3. q = <<c, sent[c]>> /\ r = <<c, sent[c]>>
      BY <2>2, <3>1, <3>2, RidFacts, Zenon
    <3> QED
      BY <3>3, Zenon
  <2> QED
    BY <2>1, <2>2, Zenon
<1>3. \/ UNCHANGED got
      \/ /\ at[c] = "wait"
         /\ \/ got' = [got EXCEPT ![r] = got[r] \o state[r].pending]
            \/ got' = [got EXCEPT ![r] = state[r].pending]
  BY <1>2 DEF ReceiveLast, Given
<1>4. \/ /\ at[c] = "wait" /\ mix[c].kind = "sampling" /\ r[2] = 1
         /\ at' = [at EXCEPT ![c] = "sending"] /\ task' = task
         /\ inbox' = inbox \cup {[kind |-> "add", rid |-> <<c, 2>>]}
      \/ /\ at[c] = "wait" /\ task' = [task EXCEPT ![c] = "outside"] /\ inbox' = inbox
         /\ \/ at' = [at EXCEPT ![c] = "failed"]
            \/ at' = [at EXCEPT ![c] = "answered"] /\ NoSiblings
      \/ at' = at /\ task' = task /\ inbox' = inbox
  BY Zenon DEF ReceiveLast, SendPart, Ends, ReleaseReader, Warmup, lock_vars
<1> HIDE DEF c, NoSiblings
<1>5. /\ at' \in [Clients -> AtPlaces] /\ \A d \in Clients \ {c} : at'[d] = at[d] /\ task'[d] = task[d]
      /\ \/ at[c] = "wait" /\ at'[c] = "sending" /\ task'[c] = task[c] /\ mix[c].kind = "sampling" /\ r[2] = 1
         \/ at[c] = "wait" /\ at'[c] = "failed" /\ task'[c] = "outside"
         \/ at[c] = "wait" /\ at'[c] = "answered" /\ task'[c] = "outside" /\ NoSiblings
         \/ at'[c] = at[c] /\ task'[c] = task[c]
  <2>1. \/ /\ at[c] = "wait" /\ mix[c].kind = "sampling" /\ r[2] = 1
           /\ at' = [at EXCEPT ![c] = "sending"] /\ task' = task
        \/ /\ at[c] = "wait" /\ task' = [task EXCEPT ![c] = "outside"]
           /\ \/ at' = [at EXCEPT ![c] = "failed"]
              \/ at' = [at EXCEPT ![c] = "answered"] /\ NoSiblings
        \/ at' = at /\ task' = task
    BY <1>4, Zenon
  <2> QED
    BY <1>0, <2>1, WhereTypes DEF AtPlaces
<1>6. /\ state' \in [Rids -> ReqState(Token)] /\ got' \in [Rids -> Seq(Token)]
      /\ MadeByToday' /\ GivenOneVersion'
  <2>1. \A d \in Clients : at'[d] \in {"sending", "wait"} => at[d] \in {"sending", "wait"}
    BY <1>0, <1>5
  <2>2. TRUE \in BOOLEAN /\ UNCHANGED <<version, outputs>>
        /\ state' = [state EXCEPT ![r] = Taken(state[r], TRUE)]
    BY <1>1, Zenon
  <2> QED
    BY <1>3, <2>1, <2>2, TakenContents, Zenon DEF c
<1>7. Shapes'
  BY <1>0, <1>1, <1>5, <1>6, Zenon DEF FrontendInv, ContentInv, Shapes, AtPlaces
<1>8. InTheLock'
  <2>1. at[c] = "wait" => task[c] = "read"
    BY <1>0, Zenon DEF FrontendInv, ContentInv, InTheLock
  <2> QED
    BY <1>0, <1>5, <2>1 DEF FrontendInv, ContentInv, InTheLock
<1>9. PartsInTurn'
  <2>1. at'[c] = "sending" => sent[c] = 1 \/ at[c] = "sending"
    BY <1>2, <1>5
  <2>2. sent' = sent /\ at[c] # "gate" /\ at[c] # "queued" /\ at[c] # "sending"
    BY <1>1, <1>2
  <2> QED
    BY <1>0, <1>5, <2>1, <2>2 DEF FrontendInv, ContentInv, PartsInTurn
<1>10. WaitedFor'
  <2> SUFFICES ASSUME NEW q \in watching, q # r
               PROVE  \/ at'[Client(q)] = "wait" /\ (mix[Client(q)].kind = "batch" \/ q[2] = sent[Client(q)])
                      \/ at'[Client(q)] = "failed" /\ mix[Client(q)].kind = "batch"
    BY <1>0, <1>1, Zenon DEF WaitedFor
  <2>1. /\ Client(q) \in Clients
        /\ \/ at[Client(q)] = "wait" /\ (mix[Client(q)].kind = "batch" \/ q[2] = sent[Client(q)])
           \/ at[Client(q)] = "failed" /\ mix[Client(q)].kind = "batch"
    BY WhereTypes, RidFacts, Zenon DEF FrontendInv, ContentInv, WaitedFor
  <2>2. CASE Client(q) # c
    BY <1>5, <2>1, <2>2, Zenon
  <2>3. CASE Client(q) = c
    <3>1. mix[c].kind = "batch" /\ ~NoSiblings
      BY <1>2, <2>3, Zenon DEF NoSiblings
    <3> QED
      BY <1>5, <2>1, <2>3, <3>1
  <2> QED
    BY <2>2, <2>3, Zenon
<1>11. NotYetSent'
  <2>1. at'[c] \notin {"gate", "queued"}
    BY <1>2, <1>5
  <2>2. ASSUME NEW q \in Rids, at'[Client(q)] \in {"gate", "queued"}, Unsent(q)
        PROVE  /\ [kind |-> "add", rid |-> q] \notin inbox'
               /\ state'[q] = state[q] /\ got'[q] = got[q]
    <3>1. q # r /\ q # <<c, 2>>
      BY <1>0, <2>1, <2>2, RidFacts, Zenon DEF c
    <3>2. state'[q] = state[q] /\ got'[q] = got[q]
      BY <1>1, <1>3, <3>1, Zenon DEF FrontendInv, ContentInv, Shapes
    <3>3. inbox' = inbox \/ inbox' = inbox \cup {[kind |-> "add", rid |-> <<c, 2>>]}
      BY <1>4, Zenon
    <3> QED
      BY <2>2, <3>1, <3>2, <3>3 DEF Unsent
  <2>3. \A d \in Clients : at'[d] \in {"gate", "queued"} => at[d] \in {"gate", "queued"}
    BY <1>5, <2>1, Zenon
  <2> QED
    BY <1>1, <2>2, <2>3, StillUnsent, Zenon DEF Unsent
<1> QED
  BY <1>6, <1>7, <1>8, <1>9, <1>10, <1>11, Zenon DEF ContentInv

\* What keep and put make of an output and a state is of the same tokens.
LEMMA PutShape ==
    ASSUME NEW S, NEW s \in ReqState(S), NEW tokens \in Seq(S), NEW c, NEW fin, NEW verdict \in Finishes
    PROVE  Put(s, c, Keep(c, tokens, fin), verdict) \in ReqState(S)
<1>1. Keep(c, tokens, fin) \in Seq(S)
  <2>1. CASE Stops(c, tokens, fin)
    <3> DEFINE k == CHOOSE i \in DOMAIN tokens : tokens[i].pos = mix[c].stop
    <3>1. k \in DOMAIN tokens
      BY <2>1, Zenon DEF Stops
    <3>2. SubSeq(tokens, 1, k) \in Seq(S)
      BY <3>1, SeqFacts, Zenon
    <3> QED
      BY <2>1, <3>2, Zenon DEF Keep
  <2>2. CASE ~Stops(c, tokens, fin)
    BY <2>2, Zenon DEF Keep
  <2> QED
    BY <2>1, <2>2, Zenon
<1>2. ASSUME NEW kept \in Seq(S)
      PROVE  Put(s, c, kept, verdict) \in ReqState(S)
  <2>1. s.pending \in Seq(S) /\ s.output_ids \in Seq(S)
    BY FALSE \in BOOLEAN, TakenShape, Zenon
  <2>2. s.output_ids \o kept \in Seq(S) /\ s.pending \o kept \in Seq(S)
    BY <2>1, SeqFacts, Zenon
  <2>3. (IF Delta(c) THEN s.pending \o kept ELSE s.output_ids \o kept) \in Seq(S)
    BY <2>2, Zenon
  <2> QED
    BY <2>2, <2>3, Zenon DEF Put, ReqState
<1> QED
  BY <1>1, <1>2, Zenon

\* Tokens of one version are tokens.
LEMMA OfVersionShape ==
    ASSUME NEW v \in Nat
    PROVE  /\ Output(TokensBy(v)) \subseteq Output(Token)
           /\ Seq(TokensBy(v)) \subseteq Seq(Token)
<1>1. TokensBy(v) \subseteq Token
  BY Zenon DEF TokensBy
<1>2. Seq(TokensBy(v)) \subseteq Seq(Token)
  BY <1>1, SeqMonotonic, Zenon
<1> QED
  BY <1>2 DEF Output

\* The output loop moves one output into the state of its part.
LEMMA HandleOutputInv ==
    ASSUME FrontendInv, NEW r \in Rids, HandleOutput(r)
    PROVE  ContentInv'
<1> DEFINE out == Head(outputs[r])
           verdict == IF Stops(Client(r), out.tokens, out.fin) THEN "stop" ELSE out.fin
           new == Put(state[r], Client(r), Keep(Client(r), out.tokens, out.fin), verdict)
<1>0. /\ state \in [Rids -> ReqState(Token)] /\ outputs \in [Rids -> Seq(Output(Token))]
      /\ version \in Nat
  BY Zenon DEF FrontendInv, ContentInv, Shapes
<1>1. /\ UNCHANGED <<task, mix, at, sent, watching, got, version, made, running, withheld>>
      /\ outputs[r] # <<>> /\ outputs' = [outputs EXCEPT ![r] = Tail(outputs[r])]
      /\ state' = state \/ state' = [state EXCEPT ![r] = new]
      /\ inbox' = inbox \/ inbox' = inbox \cup {[kind |-> "abort", rid |-> r]}
  BY Zenon DEF HandleOutput, engine_vars, lock_vars, client_vars
<1>2. ASSUME NEW S, outputs[r] \in Seq(Output(S)), state[r] \in ReqState(S)
      PROVE  Tail(outputs[r]) \in Seq(Output(S)) /\ new \in ReqState(S)
  <2>1. out \in Output(S) /\ Tail(outputs[r]) \in Seq(Output(S))
    BY <1>1, <1>2, SeqFacts, Zenon
  <2>2. out.tokens \in Seq(S) /\ out.fin \in Finishes
    BY <2>1 DEF Output
  <2>3. verdict \in Finishes
    BY <2>2 DEF Finishes
  <2> QED
    BY <1>2, <2>1, <2>2, <2>3, PutShape, Zenon
<1> HIDE DEF new
<1>3. /\ state' \in [Rids -> ReqState(Token)] /\ outputs' \in [Rids -> Seq(Output(Token))]
      /\ state'[r] \in {state[r], new} /\ outputs'[r] = Tail(outputs[r])
      /\ \A q \in Rids \ {r} : state'[q] = state[q] /\ outputs'[q] = outputs[q]
  <2>1. Tail(outputs[r]) \in Seq(Output(Token)) /\ new \in ReqState(Token)
    BY <1>0, <1>2, Zenon
  <2>2. /\ outputs' \in [Rids -> Seq(Output(Token))] /\ outputs'[r] = Tail(outputs[r])
        /\ \A q \in Rids \ {r} : outputs'[q] = outputs[q]
    BY <1>0, <1>1, <2>1, Zenon
  <2>3. /\ state' \in [Rids -> ReqState(Token)] /\ state'[r] \in {state[r], new}
        /\ \A q \in Rids \ {r} : state'[q] = state[q]
    BY <1>0, <1>1, <2>1, Zenon
  <2> QED
    BY <2>2, <2>3, Zenon
<1>4. Shapes' /\ InTheLock' /\ PartsInTurn' /\ WaitedFor' /\ GivenOneVersion'
  BY <1>1, <1>3, Zenon DEF FrontendInv, ContentInv, Shapes, InTheLock, PartsInTurn, WaitedFor,
                           GivenOneVersion
<1>5. NotYetSent'
  <2>1. ASSUME NEW q \in Rids, Unsent(q)
        PROVE  q # r /\ [kind |-> "add", rid |-> q] \notin inbox'
    BY <1>1, <2>1 DEF Unsent
  <2> QED
    BY <1>1, <1>3, <2>1, StillUnsent, Zenon DEF Unsent
<1>6. MadeByToday'
  <2> SUFFICES ASSUME NEW q \in Rids, at[Client(q)] \in {"sending", "wait"}
               PROVE  /\ outputs'[q] \in Seq(Output(TokensBy(version)))
                      /\ state'[q] \in ReqState(TokensBy(version))
                      /\ got[q] \in Seq(TokensBy(version))
    BY <1>1, Zenon DEF MadeByToday, MadeBy
  <2>1. /\ outputs[q] \in Seq(Output(TokensBy(version))) /\ state[q] \in ReqState(TokensBy(version))
        /\ got[q] \in Seq(TokensBy(version))
    BY Zenon DEF FrontendInv, ContentInv, MadeByToday, MadeBy
  <2>2. CASE q = r
    <3>1. Tail(outputs[r]) \in Seq(Output(TokensBy(version))) /\ new \in ReqState(TokensBy(version))
      BY <1>2, <2>1, <2>2, Zenon
    <3> QED
      BY <1>3, <2>1, <2>2, <3>1, Zenon
  <2>3. CASE q # r
    BY <1>3, <2>1, <2>3, Zenon
  <2> QED
    BY <2>2, <2>3, Zenon
<1> QED
  BY <1>4, <1>5, <1>6, Zenon DEF ContentInv

\* Steps of the engine and of the trainer that keep the weights: they append
\* outputs of today's weights, and run nothing that was not sent.
LEMMA EngineInv ==
    ASSUME FrontendInv, UNCHANGED <<mix, at, sent, watching, state, got, version>>,
           \A c \in Clients : task'[c] = task[c],
           OutputsGrow, outputs' = [r \in Rids |-> outputs'[r]], made' \in [Rids -> Seq(Token)],
           \A r \in Rids :
               Unsent(r) => /\ r \notin running' /\ r \notin withheld'
                            /\ [kind |-> "add", rid |-> r] \notin inbox'
    PROVE  ContentInv'
<1>1. outputs' \in [Rids -> Seq(Output(Token))]
  <2>1. ASSUME NEW r \in Rids
        PROVE  outputs'[r] \in Seq(Output(Token))
    <3>1. outputs[r] \in Seq(Output(Token)) /\ Output(TokensBy(version)) \subseteq Output(Token)
      BY OfVersionShape, Zenon DEF FrontendInv, ContentInv, Shapes
    <3>2. ASSUME NEW o \in Output(TokensBy(version))
          PROVE  Append(outputs[r], o) \in Seq(Output(Token))
      BY <3>1, SeqFacts, Zenon
    <3> QED
      BY <3>1, <3>2, Zenon DEF OutputsGrow
  <2> QED
    BY <2>1, Zenon
<1>2. Shapes' /\ InTheLock' /\ PartsInTurn' /\ WaitedFor'
  BY <1>1, Zenon DEF FrontendInv, ContentInv, Shapes, InTheLock, PartsInTurn, WaitedFor
<1>3. NotYetSent'
  <2>1. ASSUME NEW r \in Rids, Unsent(r)
        PROVE  outputs'[r] = outputs[r]
    BY <2>1, Zenon DEF OutputsGrow
  <2> QED
    BY <2>1, StillUnsent, Zenon DEF Unsent
<1>4. MadeByToday' /\ GivenOneVersion'
  BY GrownContents, Zenon
<1> QED
  BY <1>2, <1>3, <1>4, Zenon DEF ContentInv

\* An output without tokens is of any version.
LEMMA OutShape ==
    ASSUME NEW v \in Nat, NEW fin \in Finishes, NEW tokens \in Seq(TokensBy(v))
    PROVE  Out(tokens, fin) \in Output(TokensBy(v)) /\ Out(<<>>, fin) \in Output(TokensBy(v))
<1>1. <<>> \in Seq(TokensBy(v))
  BY EmptySeq, Zenon
<1> QED
  BY <1>1 DEF Out, Output

\* The engine takes a request or an abort, or makes a step.
LEMMA EngineStepInv ==
    ASSUME FrontendInv, NEW r \in Rids, EngineStep(r)
    PROVE  ContentInv'
<1>0. /\ version \in Nat /\ made \in [Rids -> Seq(Token)] /\ outputs \in [Rids -> Seq(Output(Token))]
      /\ <<>> \in Seq(TokensBy(version))
      /\ "reject" \in Finishes /\ "abort" \in Finishes /\ "no" \in Finishes /\ "done" \in Finishes
  <2>1. <<>> \in Seq(TokensBy(version))
    BY EmptySeq, Zenon
  <2> QED
    BY <2>1, Zenon DEF FrontendInv, ContentInv, Shapes, Finishes
<1>1. UNCHANGED <<task, mix, at, sent, watching, state, got, version>>
  BY Zenon DEF EngineStep, TakeAdd, TakeAbort, Step, lock_vars, client_vars, frontend_vars
<1>2. ASSUME NEW o \in Output(TokensBy(version)), ~Unsent(r),
             outputs' = [outputs EXCEPT ![r] = Append(outputs[r], o)] \/ outputs' = outputs
      PROVE  OutputsGrow /\ outputs' = [q \in Rids |-> outputs'[q]]
  BY <1>0, <1>2, Zenon DEF OutputsGrow
<1>3. CASE TakeAdd(r)
  <2>1. /\ ~Unsent(r) /\ made' = made
        /\ \A q \in Rids : Unsent(q) => /\ q \notin running' /\ q \notin withheld'
                                        /\ [kind |-> "add", rid |-> q] \notin inbox'
    BY <1>3 DEF TakeAdd, Unsent
  <2>2. /\ outputs' = [outputs EXCEPT ![r] = Append(outputs[r], Out(<<>>, "reject"))] \/ outputs' = outputs
        /\ Out(<<>>, "reject") \in Output(TokensBy(version))
    BY <1>0, <1>3, OutShape, Zenon DEF TakeAdd
  <2> QED
    BY <1>0, <1>1, <1>2, <2>1, <2>2, EngineInv, Zenon
<1>4. CASE TakeAbort(r)
  <2>1. /\ made' = made
        /\ \A q \in Rids : Unsent(q) => /\ q \notin running' /\ q \notin withheld'
                                        /\ [kind |-> "add", rid |-> q] \notin inbox'
    BY <1>4 DEF TakeAbort, Unsent
  <2>2. OutputsGrow /\ outputs' = [q \in Rids |-> outputs'[q]]
    BY <1>0, <1>4, Zenon DEF TakeAbort, OutputsGrow
  <2> QED
    BY <1>0, <1>1, <2>1, <2>2, EngineInv, Zenon
<1>5. CASE Step(r)
  <2>1. PICK n \in 1 .. 2, fin \in {"no", "done", "abort"} :
            LET tokens == [i \in 1 .. n |-> [pos |-> Len(made[r]) + i, by |-> version]]
            IN  /\ made' = [made EXCEPT ![r] = made[r] \o tokens]
                /\ outputs' = [outputs EXCEPT ![r] = Append(outputs[r], Out(tokens, fin))]
    BY <1>5, Zenon DEF Step
  <2> DEFINE tokens == [i \in 1 .. n |-> [pos |-> Len(made[r]) + i, by |-> version]]
  <2>2. tokens \in Seq(TokensBy(version))
    <3>1. Len(made[r]) \in Nat
      BY <1>0, LenProperties, Zenon
    <3>2. \A i \in 1 .. n : [pos |-> Len(made[r]) + i, by |-> version] \in TokensBy(version)
      BY <1>0, <3>1 DEF TokensBy, Token
    <3>3. tokens \in [1 .. n -> TokensBy(version)]
      BY <3>2, Zenon
    <3>4. n \in Nat
      OBVIOUS
    <3>5. tokens \in UNION {[1 .. m -> TokensBy(version)] : m \in Nat}
      <4> HIDE DEF tokens
      <4> QED
        BY <3>3, <3>4, Zenon
    <3> QED
      BY <3>5, SeqDef, Zenon
  <2>3. /\ made' = [made EXCEPT ![r] = made[r] \o tokens]
        /\ outputs' = [outputs EXCEPT ![r] = Append(outputs[r], Out(tokens, fin))]
    BY <2>1, Zenon
  <2> HIDE DEF tokens
  <2>4. tokens \in Seq(Token) /\ Out(tokens, fin) \in Output(TokensBy(version))
    BY <1>0, <2>2, OutShape, OfVersionShape, Zenon
  <2>5. made' \in [Rids -> Seq(Token)]
    <3>1. made[r] \o tokens \in Seq(Token)
      BY <1>0, <2>4, SeqFacts, Zenon
    <3> QED
      BY <1>0, <2>3, <3>1, Zenon
  <2>6. /\ ~Unsent(r)
        /\ \A q \in Rids : Unsent(q) => /\ q \notin running' /\ q \notin withheld'
                                        /\ [kind |-> "add", rid |-> q] \notin inbox'
    <3>1. /\ r \in running /\ withheld' = withheld /\ inbox' = inbox
          /\ running' = running \/ running' = running \ {r}
      BY <1>5, Zenon DEF Step
    <3> QED
      BY <3>1 DEF Unsent
  <2>7. OutputsGrow /\ outputs' = [q \in Rids |-> outputs'[q]]
    BY <1>2, <2>3, <2>4, <2>6, Zenon
  <2> QED
    BY <1>1, <2>5, <2>6, <2>7, EngineInv, Zenon
<1> QED
  BY <1>3, <1>4, <1>5, Zenon DEF EngineStep

\* The steps that touch no output: /abort_request, the trainer's calls and the
\* engine's replies to them.
LEMMA QuietInv ==
    ASSUME FrontendInv,
           \/ \E r \in Rids : AbortByRid(r) \/ LapseAbort(r)
           \/ Pause \/ PauseFails \/ Update \/ ResumeTrainer \/ Updated \/ Continue \/ Readmit \/ TakePause \/ AbortAll \/ Drained
    PROVE  ContentInv'
<1>1. UNCHANGED <<mix, at, sent, watching, state, got, version, made, outputs>>
  BY Zenon DEF AbortByRid, LapseAbort, Pause, PauseFails, Update, ResumeTrainer, Updated, Continue, Readmit, TakePause,
               AbortAll, Drained,
               client_vars, frontend_vars, engine_vars
<1>2. task' = task \/ \E p : task' = [task EXCEPT ![Trainer] = p]
  BY Zenon DEF AbortByRid, LapseAbort, Pause, PauseFails, Update, ResumeTrainer, Updated, Continue, Readmit, TakePause,
               AbortAll, Drained,
               AcquireWriter, ResumeWriter, WriterTurn, ReleaseWriter, lock_vars
<1>3. \A c \in Clients : task'[c] = task[c]
  BY <1>2, WhereTypes, TasksAreClientsAndTrainer, Zenon
<1>4. ASSUME NEW r \in Rids, Unsent(r)
      PROVE  /\ r \notin running' /\ r \notin withheld'
             /\ [kind |-> "add", rid |-> r] \notin inbox'
  <2>1. CASE \E q \in Rids : AbortByRid(q) \/ LapseAbort(q)
    BY <1>4, <2>1 DEF AbortByRid, LapseAbort, Unsent, engine_vars
  <2>2. CASE Pause \/ PauseFails \/ Update \/ ResumeTrainer \/ Updated \/ Continue \/ Readmit \/ TakePause \/ AbortAll \/ Drained
    <3>1. UNCHANGED <<running, withheld, inbox>>
      BY <2>2, Zenon DEF Pause, PauseFails, Update, ResumeTrainer, Updated, Continue, Readmit, TakePause,
                         AbortAll, Drained, engine_vars
    <3> QED
      BY <1>4, <3>1, Zenon DEF Unsent
  <2> QED
    BY <2>1, <2>2, Zenon
<1>5. /\ OutputsGrow /\ outputs' = [r \in Rids |-> outputs'[r]] /\ made' \in [Rids -> Seq(Token)]
  BY <1>1, Zenon DEF OutputsGrow, FrontendInv, ContentInv, Shapes
<1> QED
  BY <1>1, <1>3, <1>4, <1>5, EngineInv, Zenon

\* A resume runs what was withheld, or ends it with an output that holds no
\* token.
LEMMA TakeResumeInv ==
    ASSUME FrontendInv, TakeResume
    PROVE  ContentInv'
<1>0. /\ outputs \in [Rids -> Seq(Output(Token))] /\ made \in [Rids -> Seq(Token)]
      /\ Out(<<>>, "abort") \in Output(TokensBy(version))
  <2>1. version \in Nat /\ <<>> \in Seq(TokensBy(version)) /\ "abort" \in Finishes
    BY EmptySeq, Zenon DEF FrontendInv, ContentInv, Shapes, Finishes
  <2> QED
    BY <2>1, OutShape, Zenon DEF FrontendInv, ContentInv, Shapes
<1>1. /\ UNCHANGED <<task, mix, at, sent, watching, state, got, version, made, inbox>>
      /\ withheld' = {} /\ running' \subseteq running \cup withheld
      /\ outputs' = [r \in Rids |-> IF r \in withheld \cap aborting
                                    THEN Append(outputs[r], Out(<<>>, "abort"))
                                    ELSE outputs[r]]
  BY Zenon DEF TakeResume, lock_vars, client_vars, frontend_vars
<1>2. OutputsGrow /\ outputs' = [r \in Rids |-> outputs'[r]]
  BY <1>0, <1>1, Zenon DEF OutputsGrow, Unsent
<1>3. \A r \in Rids : Unsent(r) => /\ r \notin running' /\ r \notin withheld'
                                  /\ [kind |-> "add", rid |-> r] \notin inbox'
  BY <1>1, Zenon DEF Unsent
<1> QED
  BY <1>0, <1>1, <1>2, <1>3, EngineInv, Zenon

\* The weights are rewritten by a writer, who is alone in the lock: no request
\* is in it whose contents could become those of yesterday.
LEMMA RewriteInv ==
    ASSUME FrontendInv, Rewrite
    PROVE  ContentInv'
<1>1. /\ UNCHANGED <<task, mix, at, sent, watching, state, got, made, running, withheld, inbox, outputs>>
      /\ version' = version + 1 /\ task[Trainer] = "write"
  BY Zenon DEF Rewrite, lock_vars, client_vars, frontend_vars
<1>2. ASSUME NEW c \in Clients
      PROVE  at[c] \notin {"sending", "wait"}
  <2>1. Trainer \in Tasks /\ c \in Tasks /\ c # Trainer
    BY TasksAreClientsAndTrainer, Zenon
  <2>2. task[c] # "read"
    BY <1>1, <2>1, Zenon DEF FrontendInv, LockInv, WriterAlone
  <2> QED
    BY <2>2, Zenon DEF FrontendInv, ContentInv, InTheLock
<1>3. version' \in Nat
  <2>1. version \in Nat
    BY Zenon DEF FrontendInv, ContentInv, Shapes
  <2> QED
    BY <1>1, <2>1
<1>4. Shapes' /\ InTheLock' /\ PartsInTurn' /\ WaitedFor' /\ NotYetSent' /\ GivenOneVersion'
  BY <1>1, <1>3, Zenon DEF FrontendInv, ContentInv, Shapes, InTheLock, PartsInTurn, WaitedFor,
                           NotYetSent, Unsent, GivenOneVersion
<1>5. MadeByToday'
  BY <1>1, <1>2, RidFacts, Zenon DEF MadeByToday
<1> QED
  BY <1>4, <1>5, Zenon DEF ContentInv

\* Nothing exists at the start.
LEMMA StartInv ==
    ASSUME Init
    PROVE  FrontendInv
<1>0. <<>> \in Seq(Token) /\ <<>> \in Seq(Output(Token)) /\ <<>> \in Seq(TokensBy(0)) /\ 0 \in Nat
  BY EmptySeq, Zenon
<1>1. Fresh \in ReqState(Token)
  BY <1>0 DEF Fresh, ReqState, Finishes
<1>2. Shapes
  BY <1>0, <1>1, Zenon DEF Init, Shapes
<1>3. \A c \in Clients : at[c] = "gate" /\ sent[c] = 0 /\ task[c] = "outside"
  BY TasksAreClientsAndTrainer, Zenon DEF Init, LockInit
<1>4. InTheLock /\ PartsInTurn
  BY <1>3 DEF InTheLock, PartsInTurn
<1>5. WaitedFor /\ NotYetSent /\ GivenOneVersion
  BY <1>0, Zenon DEF Init, WaitedFor, NotYetSent, Unsent, GivenOneVersion
<1>6. MadeByToday
  BY <1>3, RidFacts DEF MadeByToday
<1>7. LockInv
  BY InitInv, Zenon DEF Init
<1> QED
  BY <1>2, <1>4, <1>5, <1>6, <1>7, Zenon DEF FrontendInv, ContentInv

\* Every step of the frontend, its engine and its trainer keeps the invariant.
LEMMA FrontendStepInv ==
    ASSUME FrontendInv, [Next]_vars
    PROVE  FrontendInv'
<1>1. LockInv'
  <2>1. LockInv
    BY Zenon DEF FrontendInv
  <2> QED
    BY <2>1, UsesTheLock, StepInv, StutterInv, Zenon
<1>2. CASE UNCHANGED vars
  BY <1>2, Zenon DEF vars, client_vars, frontend_vars, engine_vars, lock_vars, FrontendInv, ContentInv,
       Shapes, InTheLock, PartsInTurn, WaitedFor, NotYetSent, Unsent, MadeByToday, MadeBy,
       GivenOneVersion, LockInv, LockTypeOK, CountersExact, WriterAlone, Inside
<1>3. CASE Next
  <2> SUFFICES ContentInv'
    BY <1>1, Zenon DEF FrontendInv
  <2>1. ASSUME NEW c \in Clients, ClientStep(c) \/ Cancel(c)
        PROVE  ContentInv'
    BY <2>1, EnterInv, SendReturnsInv, CancelInv, Zenon DEF ClientStep
  <2>2. ASSUME NEW r \in Rids, Receive(r) \/ AbortByRid(r) \/ HandleOutput(r) \/ EngineStep(r) \/ LapseAbort(r)
        PROVE  ContentInv'
    BY <2>2, ReceiveLastInv, ReceiveMoreInv, QuietInv, HandleOutputInv, EngineStepInv, Zenon DEF Receive
  <2>3. CASE Pause \/ PauseFails \/ Update \/ TrainerStep
    <3>1. CASE TakeResume
      BY <3>1, TakeResumeInv, Zenon
    <3>2. CASE Rewrite
      BY <3>2, RewriteInv, Zenon
    <3>3. CASE Pause \/ PauseFails \/ Update \/ ResumeTrainer \/ Updated \/ Continue \/ Readmit \/ TakePause \/ AbortAll \/ Drained
      BY <3>3, QuietInv, Zenon
    <3> QED
      BY <2>3, <3>1, <3>2, <3>3, Zenon DEF TrainerStep
  <2> QED
    BY <1>3, <2>1, <2>2, <2>3, Zenon DEF Next
<1> QED
  BY <1>2, <1>3, Zenon

\* For any number of clients, parts, pauses and updates: the tokens a client is
\* given, of all the parts of its request, come from one version of the
\* weights ("weight sync cannot run while requests are in progress").
THEOREM FrontendServesOneVersion == Spec => []OneVersionPerRequest
<1>1. FrontendInv => OneVersionPerRequest
  <2> SUFFICES ASSUME FrontendInv, NEW r \in Rids, NEW q \in Rids, Client(r) = Client(q),
                      NEW i \in DOMAIN got[r], NEW j \in DOMAIN got[q]
               PROVE  got[r][i].by = got[q][j].by
    BY Zenon DEF OneVersionPerRequest
  <2>1. PICK v \in Nat : got[r] \in Seq(TokensBy(v)) /\ got[q] \in Seq(TokensBy(v))
    BY RidFacts, Zenon DEF FrontendInv, ContentInv, GivenOneVersion
  <2>2. got[r][i] \in TokensBy(v) /\ got[q][j] \in TokensBy(v)
    BY <2>1, SMT
  <2> QED
    BY <2>2, Zenon DEF TokensBy
<1> QED
  BY <1>1, StartInv, FrontendStepInv, PTL DEF Spec
=============================================================================
