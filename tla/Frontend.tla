------------------------------ MODULE Frontend ------------------------------
(***************************************************************************)
(* The frontend process (engine/async_llm.py, output_processor.py,         *)
(* collector.py) between its clients, a trainer that pauses generation and *)
(* rewrites the weights (entrypoints/sglang_compat_http.py), and the       *)
(* engine.                                                                 *)
(*                                                                         *)
(* A client's request passes the admission gate, takes the model-update    *)
(* lock as a reader, sends its parts to the engine and waits for their     *)
(* outputs; an output is put into the part's collector, where outputs that *)
(* arrive before the waiter runs are merged.  A weight update takes the    *)
(* lock as a writer.                                                       *)
(*                                                                         *)
(* Every action is what one asyncio task does between two suspension       *)
(* points, or a step of the engine.  Of the engine (ts-control) only what  *)
(* the frontend sees is modelled.  Messages to it are delivered in any     *)
(* order (each is handed to the engine client by a task of its own); an    *)
(* abort that comes before its request waits for it (pending_aborts): it   *)
(* is taken after it, or lapses before.                                    *)
(*                                                                         *)
(* A token is its position in the response and the version of the weights  *)
(* that made it.  Text, logprobs and metrics are left out.                 *)
(***************************************************************************)
EXTENDS RWLock, Sequences

CONSTANTS
    Clients,        \* requests of clients
    Trainer,        \* the task that pauses, updates and resumes
    Mixes,          \* the mixes of requests: client -> its request: of a kind
                    \* ("single", "batch" of two prompts, "sampling" with a warm-up
                    \* and a replica, "absent"), with a bound on its tokens, the token
                    \* that completes its stop string (0: none), whether its stream
                    \* repeats every id so far (cumulative), and whether the engine
                    \* may refuse it (status 400) and /abort_request name it
    Streams,        \* the clients that stream; a batch does not
    PauseModes,     \* the pause modes the trainer uses
    PausesFail,     \* whether the call of a pause may fail
    MaxPauses,      \* bound: pauses
    MaxVersion,     \* bound: weight updates
    Overtakes       \* whether a pause may reach the engine before a request sent earlier

ASSUME TasksAreClientsAndTrainer ==
    Tasks = Clients \cup {Trainer} /\ Trainer \notin Clients

\* The batches modelled are gathered; a batch that streams is not modelled.
ASSUME BatchesDoNotStream ==
    \A m \in Mixes : \A c \in Clients \cap Streams : m[c].kind # "batch"

VARIABLES
    mix,            \* the mix of this behaviour
    at,             \* client -> "gate", "queued", "sending", "wait", "answered", "failed"
    sent,           \* client -> parts handed to the engine
    watching,       \* the parts a _wait_one_response is waiting for
    rid_to_state,   \* the keys of rid_to_state
    state,          \* rid -> its ReqState
    got,            \* rid -> the tokens its client was given (the warm-up's are dropped)
    admit,          \* _generation_admit
    trainer,        \* where the trainer is
    pause_mode,     \* the mode of the pause under way
    pauses,         \* pauses so far
    inbox,          \* messages on their way to the engine
    engine,         \* "run", "new" (admits nothing), "all" (steps nothing)
    running,        \* the engine's requests
    withheld,       \* requests that arrived at a paused engine
    aborting,       \* requests a pause aborted whose client has yet to be told
    lapsed,         \* requests whose abort lapsed before they arrived
    made,           \* rid -> the tokens the engine made
    outputs,        \* rid -> the outputs on their way to the frontend
    version         \* of the engine's weights

client_vars == <<mix, at, sent, watching, got>>
frontend_vars == <<rid_to_state, state>>
trainer_vars == <<admit, trainer, pause_mode, pauses>>
engine_vars == <<engine, running, withheld, aborting, lapsed, made, version>>
vars == <<lock_vars, client_vars, frontend_vars, trainer_vars, engine_vars, inbox, outputs>>

Rids == Clients \X {1, 2}
Client(r) == r[1]
Warmup(r) == mix[Client(r)].kind = "sampling" /\ r[2] = 1
Messages == [kind : {"add", "abort"}, rid : Rids]
Finishes == {"no", "done", "stop", "abort", "reject"}

Fresh == [output_ids |-> <<>>, pending |-> <<>>, has_pending |-> FALSE,
          event |-> FALSE, finished |-> "no"]

Init ==
    /\ LockInit
    /\ mix \in Mixes
    /\ at = [c \in Clients |-> "gate"] /\ sent = [c \in Clients |-> 0]
    /\ watching = {} /\ rid_to_state = {}
    /\ state = [r \in Rids |-> Fresh] /\ got = [r \in Rids |-> <<>>]
    /\ admit = TRUE /\ trainer = "idle" /\ pause_mode = "keep" /\ pauses = 0
    /\ inbox = {} /\ outputs = [r \in Rids |-> <<>>]
    /\ engine = "run" /\ running = {} /\ withheld = {} /\ aborting = {} /\ lapsed = {}
    /\ made = [r \in Rids |-> <<>>] /\ version = 0

-----------------------------------------------------------------------------
(* A client's request                                                      *)

\* _send_one_request of client c's part n up to its await: the state is
\* registered among `kept`, then the request handed to the engine client.
SendPart(c, n, kept) ==
    /\ at' = [at EXCEPT ![c] = "sending"]
    /\ rid_to_state' = kept \cup {<<c, n>>}
    /\ inbox' = inbox \cup {[kind |-> "add", rid |-> <<c, n>>]}

\* A reader in the lock tokenizes and sends without suspending; another one
\* waits.  (A prompt that fails to tokenize before anything was sent leaves at
\* once, and changes nothing.)
SendIfReading(c) ==
    IF task'[c] = "read" THEN SendPart(c, 1, rid_to_state)
    ELSE at' = [at EXCEPT ![c] = "queued"] /\ UNCHANGED <<rid_to_state, inbox>>

\* generate_request: the gate, then the lock.
Enter(c) ==
    /\ at[c] = "gate" /\ mix[c].kind # "absent"
    /\ admit
    /\ AcquireReader(c)
    /\ SendIfReading(c)
    /\ UNCHANGED <<mix, sent, watching, got, state, trainer_vars, engine_vars, outputs>>

\* The reader's turn after a wake-up.
ResumeClient(c) ==
    /\ ResumeReader(c)
    /\ SendIfReading(c)
    /\ UNCHANGED <<mix, sent, watching, got, state, trainer_vars, engine_vars, outputs>>

\* The await returns.  A batch sends its next prompt; otherwise the parts
\* sent are waited for: a warm-up before its replica is sent, the two
\* prompts of a batch together.
SendReturns(c) ==
    LET n == sent[c] + 1
    IN  /\ at[c] = "sending"
        /\ sent' = [sent EXCEPT ![c] = n]
        /\ IF mix[c].kind = "batch" /\ n = 1
           THEN SendPart(c, 2, rid_to_state) /\ UNCHANGED watching
           ELSE /\ at' = [at EXCEPT ![c] = "wait"]
                /\ watching' = watching \cup {<<c, i>> : i \in IF mix[c].kind = "batch" THEN {1, 2} ELSE {n}}
                /\ UNCHANGED <<rid_to_state, inbox>>
        /\ UNCHANGED <<lock_vars, mix, got, state, trainer_vars, engine_vars, outputs>>

\* The request's task leaves generate_request, and with it the lock, with its
\* answer or without.
Ends(c, how) ==
    /\ at' = [at EXCEPT ![c] = how]
    /\ ReleaseReader(c)

\* The state once RequestOutputCollector.take has emptied the collector.
Taken(s, event) ==
    [output_ids |-> s.output_ids, pending |-> <<>>, has_pending |-> FALSE,
     event |-> event, finished |-> s.finished]

\* An output of c holds the new ids alone: a stream's does, unless the server
\* sends raw token ids without stream_output.
Delta(c) == c \in Streams /\ ~mix[c].cumulative

\* What the client of r has once it took the pending output.
Given(r) == IF Delta(Client(r)) THEN got[r] \o state[r].pending ELSE state[r].pending

\* One turn of _wait_one_response on an output that finishes the request.
\* A refusal raises, and so does the del of a rid that /abort_request removed
\* first; gather then lets a sibling run on, for nobody.  Otherwise the
\* client has its answer; a warm-up is followed by its replica, however it
\* finished.
ReceiveLast(r) ==
    LET c == Client(r)
        s == state[r]
        raises == s.finished = "reject" \/ r \notin rid_to_state
        left == rid_to_state \ {r}
        siblings == {q \in watching \ {r} : Client(q) = c}
    IN  /\ r \in watching
        /\ s.event /\ s.has_pending /\ s.finished # "no"
        /\ state' = [state EXCEPT ![r] = Taken(s, TRUE)]
        /\ watching' = watching \ {r}
        /\ got' = IF raises \/ at[c] = "failed" THEN got
                  ELSE [got EXCEPT ![r] = Given(r)]
        /\ IF at[c] = "wait" /\ ~raises /\ Warmup(r)
           THEN SendPart(c, 2, left) /\ UNCHANGED lock_vars
           ELSE /\ rid_to_state' = left /\ UNCHANGED inbox
                /\ \/ at[c] = "wait" /\ raises /\ Ends(c, "failed")
                   \/ at[c] = "wait" /\ ~raises /\ siblings = {} /\ Ends(c, "answered")
                   \/ at[c] # "wait" /\ UNCHANGED <<at, lock_vars>>
                   \/ ~raises /\ siblings # {} /\ UNCHANGED <<at, lock_vars>>
        /\ UNCHANGED <<mix, sent, trainer_vars, engine_vars, outputs>>

\* One turn on an output that does not: a stream yields it.
ReceiveMore(r) ==
    LET s == state[r]
    IN  /\ r \in watching
        /\ s.event /\ s.has_pending /\ s.finished = "no"
        /\ state' = [state EXCEPT ![r] = Taken(s, FALSE)]
        /\ got' = IF Client(r) \in Streams THEN [got EXCEPT ![r] = Given(r)] ELSE got
        /\ UNCHANGED <<lock_vars, mix, at, sent, watching, rid_to_state, trainer_vars,
                       engine_vars, inbox, outputs>>

-----------------------------------------------------------------------------
(* What ends a request early                                               *)

\* Abandon that removes the rid first: abort_request then finds nothing.
AbandonQuietly(R) ==
    /\ rid_to_state' = rid_to_state \ R
    /\ UNCHANGED inbox

\* _wait_one_response's finally for the parts R: a finished one is dropped,
\* another one removed and aborted.
Abandon(R) ==
    /\ rid_to_state' = rid_to_state \ R
    /\ inbox' = inbox \cup {[kind |-> "abort", rid |-> r] :
                               r \in {q \in R \cap rid_to_state : state[q].finished = "no"}}

\* The client goes away while its request waits for the lock.
CancelEntering(c) ==
    /\ CancelReader(c)
    /\ at' = [at EXCEPT ![c] = "failed"]
    /\ UNCHANGED <<mix, sent, watching, got, frontend_vars, trainer_vars, engine_vars, inbox, outputs>>

\* ... while its parts are waited for.
CancelWaiting(c) ==
    LET mine == {r \in watching : Client(r) = c}
    IN  /\ at[c] = "wait"
        /\ watching' = watching \ mine
        /\ Abandon(mine)
        /\ Ends(c, "failed")
        /\ UNCHANGED <<mix, sent, got, state, trainer_vars, engine_vars, outputs>>

\* ... while part n is being sent: _send_one_request drops that part's state;
\* the message may be out already.  The waiters of the parts sent before it
\* have not started and clean up nothing.
CancelSending(c) ==
    LET r == <<c, sent[c] + 1>>
    IN  /\ at[c] = "sending"
        /\ rid_to_state' = rid_to_state \ {r}
        /\ inbox' \in {inbox, inbox \ {[kind |-> "add", rid |-> r]}}
        /\ Ends(c, "failed")
        /\ UNCHANGED <<mix, sent, watching, got, state, trainer_vars, engine_vars, outputs>>

\* The second prompt of a batch fails to tokenize once the first was sent.
TokenizeRaises(c) ==
    /\ at[c] = "sending" /\ mix[c].kind = "batch" /\ sent[c] = 0
    /\ sent' = [sent EXCEPT ![c] = 1]
    /\ Ends(c, "failed")
    /\ UNCHANGED <<mix, watching, got, frontend_vars, trainer_vars, engine_vars, inbox, outputs>>

\* POST /abort_request with a rid: AsyncLLM.abort_request.
AbortByRid(r) ==
    /\ mix[Client(r)].abortable
    /\ r \in rid_to_state
    /\ rid_to_state' = rid_to_state \ {r}
    /\ inbox' = inbox \cup {[kind |-> "abort", rid |-> r]}
    /\ UNCHANGED <<lock_vars, client_vars, state, trainer_vars, engine_vars, outputs>>

-----------------------------------------------------------------------------
(* The output loop                                                         *)

\* EngineStream.keep: the tokens up to the one that completes the stop
\* string, unless the engine finished on that very token.
Stops(c, tokens, fin) ==
    \E i \in DOMAIN tokens :
        tokens[i].pos = mix[c].stop /\ ~(fin # "no" /\ i = Len(tokens))

Keep(c, tokens, fin) ==
    IF Stops(c, tokens, fin)
    THEN SubSeq(tokens, 1, CHOOSE i \in DOMAIN tokens : tokens[i].pos = mix[c].stop)
    ELSE tokens

\* Put that replaces what a slow stream has not taken yet.
PutLatest(s, c, kept, fin) ==
    LET ids == s.output_ids \o kept
    IN  [output_ids |-> ids, pending |-> IF Delta(c) THEN kept ELSE ids,
         has_pending |-> TRUE, event |-> TRUE, finished |-> fin]

\* Put that wakes the waiter for the last output only.
PutWakesLast(s, c, kept, fin) ==
    LET ids == s.output_ids \o kept
    IN  [output_ids |-> ids,
         pending |-> IF Delta(c) THEN s.pending \o kept ELSE ids,
         has_pending |-> TRUE, event |-> s.event \/ fin = "done", finished |-> fin]

\* RequestOutputCollector.put after handle_batch_output: a stream's outputs are
\* merged, their new ids appended; ids that hold every token replace those pending.
Put(s, c, kept, fin) ==
    LET ids == s.output_ids \o kept
    IN  [output_ids |-> ids,
         pending |-> IF Delta(c) THEN s.pending \o kept ELSE ids,
         has_pending |-> TRUE, event |-> TRUE, finished |-> fin]

\* One output of handle_engine_outputs.  It is dropped when its request is
\* gone or a stop string ended it; one that a stop string ends is aborted.
HandleOutput(r) ==
    LET c == Client(r)
        out == Head(outputs[r])
        stops == Stops(c, out.tokens, out.fin)
    IN  /\ outputs[r] # <<>>
        /\ outputs' = [outputs EXCEPT ![r] = Tail(@)]
        /\ IF r \in rid_to_state /\ state[r].finished # "stop"
           THEN /\ state' = [state EXCEPT ![r] =
                               Put(@, c, Keep(c, out.tokens, out.fin),
                                   IF stops THEN "stop" ELSE out.fin)]
                /\ inbox' = IF stops THEN inbox \cup {[kind |-> "abort", rid |-> r]} ELSE inbox
           ELSE UNCHANGED <<state, inbox>>
        /\ UNCHANGED <<lock_vars, client_vars, rid_to_state, trainer_vars, engine_vars>>

-----------------------------------------------------------------------------
(* The trainer                                                             *)

\* /pause_generation up to its control message: admission stops first.
Pause ==
    /\ trainer = "idle" /\ pauses < MaxPauses
    /\ admit' = FALSE
    /\ trainer' = "pausing" /\ pauses' = pauses + 1
    /\ pause_mode' \in PauseModes
    /\ UNCHANGED <<lock_vars, client_vars, frontend_vars, engine_vars, inbox, outputs>>

\* The call raises and admission resumes: the engine refuses the pause (its
\* memory is released), or goes on pausing and the reply is lost.
PauseFails ==
    /\ PausesFail /\ ~admit
    /\ \/ trainer = "pausing" /\ trainer' = "idle"
       \/ trainer \in {"pausing", "aborting", "draining"} /\ UNCHANGED trainer
    /\ admit' = TRUE
    /\ UNCHANGED <<lock_vars, client_vars, frontend_vars, pause_mode, pauses, engine_vars, inbox, outputs>>

\* Update that takes no lock.
UpdateUnlocked ==
    /\ trainer \in {"idle", "paused"} /\ version < MaxVersion
    /\ task' = [task EXCEPT ![Trainer] = "write"] /\ writer_active' = TRUE
    /\ trainer' = "updating"
    /\ UNCHANGED <<readers, waiting_writers, notified, client_vars, frontend_vars, admit,
                   pause_mode, pauses, engine_vars, inbox, outputs>>

\* A weight update up to the lock; the trainer may have paused before it.
Update ==
    /\ trainer \in {"idle", "paused"} /\ version < MaxVersion
    /\ AcquireWriter(Trainer)
    /\ trainer' = "updating"
    /\ UNCHANGED <<client_vars, frontend_vars, admit, pause_mode, pauses, engine_vars, inbox, outputs>>

ResumeTrainer ==
    /\ ResumeWriter(Trainer)
    /\ UNCHANGED <<client_vars, frontend_vars, trainer_vars, engine_vars, inbox, outputs>>

\* The reply to the update arrives and the writer leaves the lock.
Updated ==
    /\ trainer = "rewritten"
    /\ ReleaseWriter(Trainer)
    /\ trainer' = IF engine = "run" THEN "idle" ELSE "paused"
    /\ UNCHANGED <<client_vars, frontend_vars, admit, pause_mode, pauses, engine_vars, inbox, outputs>>

\* /continue_generation: the control message, and admission at its reply.
Continue ==
    /\ trainer = "paused"
    /\ trainer' = "resuming"
    /\ UNCHANGED <<lock_vars, client_vars, frontend_vars, admit, pause_mode, pauses, engine_vars, inbox, outputs>>

Readmit ==
    /\ trainer = "resumed"
    /\ admit' = TRUE /\ trainer' = "idle"
    /\ UNCHANGED <<lock_vars, client_vars, frontend_vars, pause_mode, pauses, engine_vars, inbox, outputs>>

-----------------------------------------------------------------------------
(* The engine                                                              *)

Out(tokens, fin) == [tokens |-> tokens, fin |-> fin]

\* A request arrives: it is refused, runs, or is withheld by a pause.
TakeAdd(r) ==
    /\ [kind |-> "add", rid |-> r] \in inbox
    /\ inbox' = inbox \ {[kind |-> "add", rid |-> r]}
    /\ \/ /\ mix[Client(r)].refusable
          /\ outputs' = [outputs EXCEPT ![r] = Append(@, Out(<<>>, "reject"))]
          /\ UNCHANGED <<running, withheld>>
       \/ /\ engine = "run"
          /\ running' = running \cup {r}
          /\ UNCHANGED <<withheld, outputs>>
       \/ /\ engine # "run"
          /\ withheld' = withheld \cup {r}
          /\ UNCHANGED <<running, outputs>>
    /\ UNCHANGED <<lock_vars, client_vars, frontend_vars, trainer_vars, engine, aborting, lapsed,
                   made, version>>

\* An abort arrives: its request ends and sends nothing more.
TakeAbort(r) ==
    /\ [kind |-> "abort", rid |-> r] \in inbox
    /\ [kind |-> "add", rid |-> r] \notin inbox
    /\ inbox' = inbox \ {[kind |-> "abort", rid |-> r]}
    /\ running' = running \ {r} /\ withheld' = withheld \ {r} /\ aborting' = aborting \ {r}
    /\ UNCHANGED <<lock_vars, client_vars, frontend_vars, trainer_vars, engine, lapsed, made,
                   version, outputs>>

\* An abort that came before its request waits for it no longer than
\* PENDING_ABORT_TTL: sweep_pending_aborts.
LapseAbort(r) ==
    /\ {[kind |-> "abort", rid |-> r], [kind |-> "add", rid |-> r]} \subseteq inbox
    /\ inbox' = inbox \ {[kind |-> "abort", rid |-> r]}
    /\ lapsed' = lapsed \cup {r}
    /\ UNCHANGED <<lock_vars, client_vars, frontend_vars, trainer_vars, engine, running, withheld,
                   aborting, made, version, outputs>>

\* An output of a running request: the tokens since its last, and perhaps the
\* end of it; a warm-up ends with its first.  A request a pause aborted ends with its next one,
\* which still holds what the forward in flight made.
Step(r) ==
    /\ r \in running /\ engine # "all"
    /\ \E n \in 1 .. 2, fin \in {"no", "done", "abort"} :
          LET total == Len(made[r]) + n
              tokens == [i \in 1 .. n |-> [pos |-> Len(made[r]) + i, by |-> version]]
          IN  /\ total <= mix[Client(r)].tokens
              /\ Warmup(r) => n = 1 /\ fin # "no"
              /\ total = mix[Client(r)].tokens => fin # "no"
              /\ fin = "abort" <=> r \in aborting
              /\ made' = [made EXCEPT ![r] = @ \o tokens]
              /\ outputs' = [outputs EXCEPT ![r] = Append(@, Out(tokens, fin))]
              /\ running' = IF fin = "no" THEN running ELSE running \ {r}
    /\ aborting' = aborting \ {r}
    /\ UNCHANGED <<lock_vars, client_vars, frontend_vars, trainer_vars, engine, withheld, lapsed,
                   version, inbox>>

\* The pause: "keep" freezes the engine and replies; "wait" and "abort" stop
\* its admission and reply once nothing runs.
TakePause ==
    /\ trainer = "pausing"
    /\ Overtakes \/ \A m \in inbox : m.kind # "add"
    /\ engine' = IF pause_mode = "keep" THEN "all" ELSE "new"
    /\ trainer' = CASE pause_mode = "keep" -> "paused"
                    [] pause_mode = "wait" -> "draining"
                    [] OTHER -> "aborting"
    /\ UNCHANGED <<lock_vars, client_vars, frontend_vars, admit, pause_mode, pauses,
                   running, withheld, aborting, lapsed, made, version, inbox, outputs>>

\* Later in the round an "abort" pause aborts all the engine has, the requests
\* that came behind the pause included.
AbortAll ==
    /\ trainer = "aborting"
    /\ aborting' = running \cup withheld
    /\ trainer' = "draining"
    /\ UNCHANGED <<lock_vars, client_vars, frontend_vars, admit, pause_mode, pauses,
                   engine, running, withheld, lapsed, made, version, inbox, outputs>>

Drained ==
    /\ trainer = "draining" /\ running = {}
    /\ trainer' = "paused"
    /\ UNCHANGED <<lock_vars, client_vars, frontend_vars, admit, pause_mode, pauses,
                   engine_vars, inbox, outputs>>

\* The weights are rewritten.
Rewrite ==
    /\ trainer = "updating" /\ task[Trainer] = "write"
    /\ version' = version + 1
    /\ trainer' = "rewritten"
    /\ UNCHANGED <<lock_vars, client_vars, frontend_vars, admit, pause_mode, pauses,
                   engine, running, withheld, aborting, lapsed, made, inbox, outputs>>

\* The resume: what was withheld runs, or ends if it was aborted meanwhile.
TakeResume ==
    /\ trainer = "resuming"
    /\ engine' = "run"
    /\ running' = running \cup (withheld \ aborting) /\ withheld' = {}
    /\ aborting' = aborting \ withheld
    /\ outputs' = [r \in Rids |-> IF r \in withheld \cap aborting
                                  THEN Append(outputs[r], Out(<<>>, "abort"))
                                  ELSE outputs[r]]
    /\ trainer' = "resumed"
    /\ UNCHANGED <<lock_vars, client_vars, frontend_vars, admit, pause_mode, pauses,
                   lapsed, made, version, inbox>>

-----------------------------------------------------------------------------
ClientStep(c) == Enter(c) \/ ResumeClient(c) \/ SendReturns(c)

Cancel(c) == CancelEntering(c) \/ CancelWaiting(c) \/ CancelSending(c) \/ TokenizeRaises(c)

Receive(r) == ReceiveLast(r) \/ ReceiveMore(r)

EngineStep(r) == TakeAdd(r) \/ TakeAbort(r) \/ Step(r)

TrainerStep == ResumeTrainer \/ Updated \/ Continue \/ Readmit \/ TakePause \/ AbortAll \/ Drained
               \/ Rewrite \/ TakeResume

Next ==
    \/ \E c \in Clients : ClientStep(c) \/ Cancel(c)
    \/ \E r \in Rids : Receive(r) \/ AbortByRid(r) \/ HandleOutput(r) \/ EngineStep(r) \/ LapseAbort(r)
    \/ Pause \/ PauseFails \/ Update \/ TrainerStep

Spec == Init /\ [][Next]_vars

\* What runs of itself: tasks that are not waiting, the output loop and the
\* engine.  Nobody has to come, leave, pause or update, no abort has
\* to lapse and no pause to fail.
Progress ==
    \/ \E c \in Clients : ClientStep(c)
    \/ \E r \in Rids : Receive(r) \/ HandleOutput(r) \/ EngineStep(r)
    \/ TrainerStep

\* The process keeps running what can run, and a trainer that has paused
\* resumes.  No fairness between tasks is needed: with the bounds on pauses,
\* updates and tokens no part of the process can run forever.
FairSpec == Spec /\ WF_vars(Progress)

-----------------------------------------------------------------------------
TypeOK ==
    /\ readers \in 0 .. Cardinality(Tasks) /\ waiting_writers \in 0 .. Cardinality(Tasks)
    /\ writer_active \in BOOLEAN /\ task \in [Tasks -> Places] /\ notified \subseteq Waiters
    /\ at \in [Clients -> {"gate", "queued", "sending", "wait", "answered", "failed"}]
    /\ sent \in [Clients -> 0 .. 2]
    /\ watching \subseteq Rids /\ rid_to_state \subseteq Rids
    /\ running \subseteq Rids /\ withheld \subseteq Rids \ running
    /\ aborting \subseteq running \cup withheld
    /\ inbox \subseteq Messages /\ lapsed \subseteq Rids
    /\ \A r \in Rids : state[r].has_pending => state[r].event
    /\ \A r \in Rids : state[r].finished \in Finishes
    /\ \A r \in watching : Client(r) \in Clients /\ r[2] <= sent[Client(r)]

\* A stream is given every token once and in order, however the outputs were
\* merged while its task was not running; an answered request ends with all
\* the engine made, or with the token that completed its stop string
\* (EngineStream.keep, RequestOutputCollector.put, _wait_one_response).
DeliversWhatWasMade ==
    \A r \in Rids :
        /\ Len(got[r]) <= Len(made[r]) /\ got[r] = SubSeq(made[r], 1, Len(got[r]))
        /\ at[Client(r)] = "answered" =>
              IF state[r].finished = "stop" THEN Len(got[r]) = mix[Client(r)].stop
              ELSE got[r] = made[r] /\ mix[Client(r)].stop \notin 1 .. Len(made[r]) - 1

\* The tokens a client is given, of all the parts of its request, come from
\* one version of the weights: the writer of the model-update lock waits for
\* the request, a pause or a cancelled neighbour notwithstanding ("weight
\* sync cannot run while requests are in progress").
OneVersionPerRequest ==
    \A r, q \in Rids : Client(r) = Client(q) =>
        \A i \in DOMAIN got[r], j \in DOMAIN got[q] : got[r][i].by = got[q][j].by

\* Somebody waits for what the engine makes of r, or will.
Wanted(r) ==
    /\ at[Client(r)] \in {"sending", "wait"}
    /\ r \in rid_to_state /\ state[r].finished = "no"

\* A batch that failed leaves a prompt in rid_to_state: one whose waiter runs on
\* when its sibling's raises, or one sent before the prompt that failed.
LeftByItsBatch(r) ==
    /\ mix[Client(r)].kind = "batch" /\ at[Client(r)] = "failed"
    /\ r \in rid_to_state
    /\ r \in watching \/ sent[Client(r)] = 1

\* What the engine runs or withholds is waited for, or its abort is on the way:
\* a client that leaves, a stop string and /abort_request never leave the engine
\* generating for nobody, but for three ways the code has no abort for: a part
\* cancelled while it is being sent, a prompt that a failed batch leaves, and an
\* abort that lapsed before its request arrived.
NothingRunsUnwanted ==
    \A r \in running \cup withheld :
        \/ Wanted(r)
        \/ [kind |-> "abort", rid |-> r] \in inbox
        \/ at[Client(r)] = "failed" /\ r[2] > sent[Client(r)]
        \/ LeftByItsBatch(r)
        \/ r \in lapsed

\* A reader's request that a paused engine withholds or has frozen.
HeldByPause(c) ==
    /\ task[c] = "read" /\ engine # "run"
    /\ \E r \in withheld \cup (IF engine = "all" THEN running ELSE {}) : Client(r) = c

\* A request that /abort_request removed under its waiter: its outputs are
\* dropped from then on.
CutOff(c) ==
    /\ at[c] = "wait"
    /\ \E r \in watching \ rid_to_state : Client(r) = c /\ state[r].finished = "no"

\* The two ways in which the frontend never moves again: a request cut off
\* from its outputs keeps the lock, or the trainer waits for a reader that its
\* own pause holds.
Wedged ==
    \/ \E c \in Clients : CutOff(c)
    \/ task[Trainer] = "wait_write" /\ \E c \in Clients : HeldByPause(c)

\* In the end every request that passed the gate is over, no weight update or
\* pause is under way and only a batch may have left anything in rid_to_state,
\* through every pause, update, cancellation, refusal and merged output, unless
\* the frontend is wedged.
EverythingEnds ==
    <>[](\/ Wedged
         \/ /\ \A c \in Clients : at[c] \in {"gate", "answered", "failed"}
            /\ trainer = "idle"
            /\ \A r \in rid_to_state : mix[Client(r)].kind = "batch")

\* A request that is over leaves nothing in rid_to_state ("so no per-request
\* state leaks", _wait_one_response).
NoStateLeaks ==
    <>[](Wedged \/ \A r \in rid_to_state : at[Client(r)] \notin {"answered", "failed"})

\* No request that the paused engine buffers holds the reader lock
\* (_generation_admit: "It prevents requests buffered by a paused scheduler
\* from holding the model-update reader lock and deadlocking a weight-update
\* writer").
BufferedHoldsNoReader ==
    trainer \in {"paused", "updating"} => \A r \in withheld : task[Client(r)] # "read"
=============================================================================
