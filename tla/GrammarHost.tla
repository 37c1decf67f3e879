---------------------------- MODULE GrammarHost ----------------------------
(***************************************************************************)
(* Grammar-constrained decoding across the threads that share a request's  *)
(* matcher (python/tokenspeed/runtime/grammar): the control thread, which  *)
(* plans forwards and commits them; the forward thread, which adds one     *)
(* Batch per forward and releases ended requests; the main stream, which   *)
(* samples under a bitmask; and the CUDA host node on the side stream,     *)
(* which advances the previous forward's matchers by its sampled tokens    *)
(* and then fills this forward's masks.  A commit whose forward no later   *)
(* node has advanced advances the matchers itself.  Without a host node    *)
(* (EagerGrammarBuffers) the forward thread fills the masks before the     *)
(* forward and the commit advances the matchers.                           *)
(*                                                                         *)
(* A token is the place it was sampled at and whether its grammar takes it *)
(* there; a grammar is the number of tokens that end it.  A mask is the    *)
(* tokens it comes after.  Forwards are numbered by dispatch.              *)
(***************************************************************************)
EXTENDS Integers, Sequences, FiniteSets, SequencesExt

CONSTANTS
    Requests,     \* requests with a grammar
    NoGrammar,    \* a row whose request has none
    Ends,         \* request -> how many tokens end its grammar
    Width,        \* max_tokens_per_req: rows a verified request takes
    MaxBs,        \* requests in a forward
    Batches,      \* the batches the scheduler may plan: sequences of rows
    Setups        \* the engine configurations, one per behaviour, each with the
                  \* bounds on its forwards and on the fills that fail

ASSUME GrammarSizes ==
    /\ Ends \in [Requests -> Nat \ {0}]
    /\ Width \in Nat \ {0} /\ MaxBs \in Nat \ {0}
    /\ NoGrammar \notin Requests

VARIABLES
    setup,        \* [capturable, spec, compact, depth, forwards, failures] of this engine
    prompting,    \* requests whose prompt is not wholly planned
    live,         \* requests the control plane still runs
    control,      \* the control thread: where in its round, and the forward it commits
    planned,      \* the batch planned this round, until it is handed over
    ended,        \* requests this round's commits ended
    in_flight,    \* forwards dispatched and not committed
    jobs,         \* the forward thread's queue
    batch,        \* forward -> its Batch: layout, state, terminated_at
    queue,        \* Host.queue_
    current,      \* Host.current_, 0 for none
    retired,      \* Host.retired_
    reserved,     \* what retired_ has room for
    node,         \* the host node's execution
    launched,     \* forwards whose work is enqueued on the streams
    forked,       \* forwards whose fork_event is recorded
    masked,       \* forwards whose bitmask_event is recorded
    sampled,      \* forwards whose sampler output is copied out
    matcher,      \* request -> tokens its matcher accepted
    host_bitmask, \* rows the fill writes
    dirty,        \* Filler.dirty_rows_
    bitmask,      \* rows the sampler reads, on the device
    pinned,       \* output_tokens and accept_lengths, shared by all forwards
    results,      \* forward -> its own copy of the sampler output
    sequence,     \* request -> tokens the device has sampled and kept
    output_ids,   \* request -> tokens committed
    released,     \* requests whose HostGrammar was released
    failed,       \* requests a fill failed for
    fatal         \* an exception stopped the engine

control_vars == <<prompting, live, control, planned, ended, in_flight, output_ids>>
host_vars == <<queue, current, retired, reserved>>
stream_vars == <<launched, forked, sampled, pinned, results, sequence, bitmask>>
mask_vars == <<host_bitmask, dirty, failed>>
vars == <<setup, control_vars, jobs, batch, host_vars, node, stream_vars, masked, matcher,
          mask_vars, released, fatal>>

Rows == 0..(MaxBs * Width - 1)
Mask(r, after, k) == [of |-> r, after |-> after, drafts |-> k]
Free == Mask(NoGrammar, <<>>, 0)
NoNode == [n |-> 0, previous |-> 0, at |-> "idle"]
NoOutput == [tokens |-> <<>>, lens |-> <<>>]

-----------------------------------------------------------------------------
(* The output layout (Batch::OutputWidth, TokenOffset). Requests count from 0. *)

Bs(b) == Len(b.rows)
Row(b, i) == b.rows[i + 1]
Requesting(b) == 0..(Bs(b) - 1)
NumExtends(b) == Cardinality({i \in Requesting(b) : Row(b, i).kind # "decode"})
NumPrefillOutputs(b) ==
    IF setup.compact THEN Cardinality({i \in Requesting(b) : Row(b, i).kind = "last"})
    ELSE NumExtends(b)
DecodeWidth == IF setup.spec THEN Width ELSE 1
HasCandidates(b) == setup.spec /\ NumExtends(b) < Bs(b)

OutputWidth(b, i) ==
    IF i < NumExtends(b) THEN IF i < NumPrefillOutputs(b) THEN 1 ELSE 0
    ELSE DecodeWidth

TokenOffset(b, i) ==
    IF i < NumExtends(b)
    THEN IF i < NumPrefillOutputs(b) THEN i ELSE NumPrefillOutputs(b)
    ELSE NumPrefillOutputs(b) + (i - NumExtends(b)) * DecodeWidth

NumOutputTokens(b) == NumPrefillOutputs(b) + (Bs(b) - NumExtends(b)) * DecodeWidth
FirstRow(b, i) == i * (IF HasCandidates(b) THEN Width ELSE 1)
Grammars(b) == {i \in Requesting(b) : Row(b, i).req # NoGrammar}
Names(b) == {Row(b, i).req : i \in Grammars(b)}

-----------------------------------------------------------------------------
(* Advancing matchers (Batch::TryAdvance) and filling masks (Filler::Fill). *)

IsTerminated(r) == Len(matcher[r]) >= Ends[r]
AdvanceMask(b, i) == Row(b, i).kind # "chunk"
Advancing(b) == {i \in Grammars(b) : AdvanceMask(b, i) /\ ~IsTerminated(Row(b, i).req)}

\* Row i's tokens that its matcher accepts: up to the first it rejects, and
\* none past the one that ends its grammar.
Accepted(b, i, out) ==
    LET r == Row(b, i).req
        room == Ends[r] - Len(matcher[r])
        At(j) == TokenOffset(b, i) + j - 1
        Accepts(k) == \A j \in 1..k : At(j) \in DOMAIN out.tokens /\ out.tokens[At(j)].legal
        k == CHOOSE k \in 0..room :
                /\ k <= out.lens[i] /\ Accepts(k)
                /\ \A l \in (k + 1)..room : l > out.lens[i] \/ ~Accepts(l)
    IN  [j \in 1..k |-> out.tokens[At(j)]]

AdvancedMatchers(b, rows, out) ==
    [r \in Requests |->
        IF \E i \in rows : Row(b, i).req = r
        THEN matcher[r] \o Accepted(b, CHOOSE i \in rows : Row(b, i).req = r, out)
        ELSE matcher[r]]

\* The index of the token that ended each row's grammar, or -1.
TerminatedAt(b, out) ==
    [i \in Requesting(b) |->
        IF /\ i \in Advancing(b)
           /\ Len(matcher[Row(b, i).req]) + Len(Accepted(b, i, out)) = Ends[Row(b, i).req]
        THEN Len(Accepted(b, i, out)) - 1 ELSE -1]

\* Rows a fill writes: those of an output whose grammar is not ended.
Filling(b) ==
    {i \in Grammars(b) : OutputWidth(b, i) > 0 /\ ~IsTerminated(Row(b, i).req)}
AlongDrafts(b, i) == HasCandidates(b) /\ OutputWidth(b, i) > 1

\* How many leading positions get a mask: a walk stops at a draft its grammar
\* does not take, and at the one that would end it (MaskedPositions).
MaskedPositions(b) ==
    {walk \in [Requesting(b) -> 1..Width] :
        \A i \in Requesting(b) :
            IF i \in Filling(b) /\ AlongDrafts(b, i)
            THEN walk[i] <= Ends[Row(b, i).req] - Len(matcher[Row(b, i).req])
            ELSE walk[i] = 1}

\* Write this forward's masks and reset every other row written before, those
\* of a matcher that fails included.
Fill(b, walk, failing) ==
    LET filled == {<<i, k>> \in (Filling(b) \ failing) \X (0..(Width - 1)) : k < walk[i]}
        RowOf(f) == FirstRow(b, f[1]) + f[2]
        written == {FirstRow(b, i) + k : <<i, k>> \in Filling(b) \X {0}}
                   \cup {FirstRow(b, f[1]) + f[2] :
                            f \in {i \in Filling(b) : AlongDrafts(b, i)} \X (0..(Width - 1))}
    IN  /\ host_bitmask' = [row \in Rows |->
            IF \E f \in filled : RowOf(f) = row
            THEN LET f == CHOOSE f \in filled : RowOf(f) = row
                     r == Row(b, f[1]).req
                 IN  Mask(r, matcher[r], f[2])
            ELSE IF row \in dirty \cup written THEN Free ELSE host_bitmask[row]]
        /\ dirty' = {RowOf(f) : f \in filled}
        /\ failed' = failed \cup {Row(b, i).req : i \in failing}

MayFail(b) ==
    {failing \in SUBSET Filling(b) :
        Cardinality(failed \cup {Row(b, i).req : i \in failing}) <= setup.failures}

-----------------------------------------------------------------------------
(* The control thread: plan, dispatch, commit, release (the engine host). *)

\* Mutant: a request that ended is planned again.
PlanEnded(rows) ==
    /\ control.at = "round" /\ ~fatal
    /\ Len(batch) < setup.forwards
    /\ \A i \in 1..Len(rows) :
        LET r == rows[i].req
        IN  r # NoGrammar => (r \in prompting <=> rows[i].kind # "decode")
    /\ planned' = rows
    /\ prompting' = prompting \ {rows[i].req : i \in {j \in 1..Len(rows) : rows[j].kind = "last"}}
    /\ control' = [control EXCEPT !.at = "planned"]
    /\ UNCHANGED <<setup, live, ended, in_flight, output_ids, jobs, batch, host_vars, node,
                   stream_vars, masked, matcher, mask_vars, released, fatal>>

\* A round plans one batch of live requests.
Plan(rows) ==
    /\ control.at = "round" /\ ~fatal
    /\ Len(batch) < setup.forwards
    /\ \A i \in 1..Len(rows) :
        LET r == rows[i].req
        IN  r # NoGrammar => r \in live /\ (r \in prompting <=> rows[i].kind # "decode")
    /\ planned' = rows
    /\ prompting' = prompting \ {rows[i].req : i \in {j \in 1..Len(rows) : rows[j].kind = "last"}}
    /\ control' = [control EXCEPT !.at = "planned"]
    /\ UNCHANGED <<setup, live, ended, in_flight, output_ids, jobs, batch, host_vars, node,
                   stream_vars, masked, matcher, mask_vars, released, fatal>>

PlannedGrammar == \E i \in 1..Len(planned) : planned[i].req \in live

\* Without a host node a fill reads matchers only the commits advance.
CommitsFirst == ~setup.capturable /\ PlannedGrammar

\* A Batch with a grammar is pending; one without completes as it is made.
NewBatch(rows) ==
    LET named == {rows[i].req : i \in 1..Len(rows)} \ {NoGrammar}
    IN  [rows |-> rows, state |-> IF named = {} THEN "done" ELSE "pending", terminated_at |-> <<>>]

Execute ==
    /\ control.at = "planned"
    /\ CommitsFirst => in_flight = <<>>
    /\ batch' = Append(batch, NewBatch(planned))
    /\ in_flight' = Append(in_flight, Len(batch) + 1)
    /\ jobs' = Append(jobs, [op |-> "execute", n |-> Len(batch) + 1, requests |-> {}])
    /\ planned' = <<>>
    /\ control' = [control EXCEPT !.at = "drain", !.keep = setup.depth]
    /\ UNCHANGED <<setup, prompting, live, ended, output_ids, host_vars, node, stream_vars,
                   masked, matcher, mask_vars, released, fatal>>

\* A round with nothing to plan commits all that is in flight.
PlanNothing ==
    /\ control.at = "round" /\ in_flight # <<>>
    /\ control' = [control EXCEPT !.at = "drain", !.keep = 0]
    /\ UNCHANGED <<setup, prompting, live, planned, ended, in_flight, output_ids, jobs, batch,
                   host_vars, node, stream_vars, masked, matcher, mask_vars, released, fatal>>

\* Take the oldest forward to commit.
TakeOldest ==
    /\ \/ control.at = "planned" /\ CommitsFirst /\ in_flight # <<>>
       \/ control.at = "drain" /\ Len(in_flight) > control.keep
    /\ control' = [control EXCEPT !.at = "sync", !.n = Head(in_flight)]
    /\ in_flight' = Tail(in_flight)
    /\ UNCHANGED <<setup, prompting, live, planned, ended, output_ids, jobs, batch, host_vars,
                   node, stream_vars, masked, matcher, mask_vars, released, fatal>>

\* complete: the forward's copies landed, and its matchers have advanced (or,
\* without a host node, the commit advances them).
FindsDone ==
    /\ control.at = "sync" /\ sampled >= control.n
    /\ setup.capturable => batch[control.n].state = "done"
    /\ control' = [control EXCEPT !.at = "commit"]
    /\ UNCHANGED <<setup, prompting, live, planned, ended, in_flight, output_ids, jobs, batch,
                   host_vars, node, stream_vars, masked, matcher, mask_vars, released, fatal>>

\* Mutant: the state is read, not claimed.
ClaimUnmarked(n) == batch[n].state # "done" /\ UNCHANGED batch

\* TryAdvance's claim: the first thread to come advances the batch.
Claim(n) == batch[n].state = "pending" /\ batch' = [batch EXCEPT ![n].state = "advancing"]

\* Mutant: a commit leaves the advance to the next forward's node.
AwaitsNextForward == FALSE

\* The wait timed out with no node on it: advance_on_host.
AdvanceOnHost ==
    /\ control.at = "sync" /\ sampled >= control.n
    /\ setup.capturable
    /\ Claim(control.n)
    /\ control' = [control EXCEPT !.at = "advancing"]
    /\ UNCHANGED <<setup, prompting, live, planned, ended, in_flight, output_ids, jobs,
                   host_vars, node, stream_vars, masked, matcher, mask_vars, released, fatal>>

\* Advance batch n's matchers by out and complete it.
Advance(n, out) ==
    /\ matcher' = AdvancedMatchers(batch[n], Advancing(batch[n]), out)
    /\ batch' = [batch EXCEPT ![n].state = "done",
                              ![n].terminated_at = TerminatedAt(batch[n], out)]

AdvancedOnHost ==
    /\ control.at = "advancing"
    /\ Advance(control.n, results[control.n])
    /\ control' = [control EXCEPT !.at = "commit"]
    /\ UNCHANGED <<setup, prompting, live, planned, ended, in_flight, output_ids, jobs,
                   host_vars, node, stream_vars, masked, mask_vars, released, fatal>>

\* The rows of batch b whose tokens a commit keeps.
Committing(b) == {i \in Grammars(b) : AdvanceMask(b, i) /\ Row(b, i).req \in live}

\* Mutant: the whole round is kept, past the token that ended the grammar.
KeptWhole(b, i, out, at) == out.lens[i]

\* Tokens of row i a commit keeps: up to the one that ended its grammar, which
\* without a host node the commit's own advance finds.
Kept(b, i, out, at) == IF at[i] >= 0 THEN at[i] + 1 ELSE out.lens[i]

\* Commit the forward.  The data plane names the token that ended each
\* grammar, or the commit advances the matchers and stops the engine at a
\* rejected token.  Any request of it with a token may also end for another
\* reason (its length, a stop string).
Commit(stops) ==
    LET n == control.n
        b == batch[n]
        out == results[n]
        at == IF setup.capturable /\ Names(b) # {} THEN b.terminated_at ELSE TerminatedAt(b, out)
        rejected == /\ ~setup.capturable
                    /\ \E i \in Committing(b) \cap Advancing(b) :
                        at[i] < 0 /\ Len(Accepted(b, i, out)) < out.lens[i]
        over == {Row(b, i).req : i \in {j \in Committing(b) : at[j] >= 0}} \cup stops
    IN  /\ control.at = "commit"
        /\ stops \subseteq {Row(b, i).req : i \in {j \in Committing(b) : out.lens[j] > 0}}
        /\ output_ids' = [r \in Requests |->
             IF \E i \in Committing(b) : Row(b, i).req = r
             THEN LET i == CHOOSE i \in Committing(b) : Row(b, i).req = r
                  IN  output_ids[r] \o
                        [j \in 1..Kept(b, i, out, at) |-> out.tokens[TokenOffset(b, i) + j - 1]]
             ELSE output_ids[r]]
        /\ matcher' = IF setup.capturable THEN matcher
                      ELSE AdvancedMatchers(b, Committing(b) \cap Advancing(b), out)
        /\ live' = live \ over
        /\ ended' = ended \cup over
        /\ fatal' = (fatal \/ rejected)
        /\ control' = [control EXCEPT !.n = 0, !.at = IF fatal' THEN "stopped"
                                                     ELSE IF planned = <<>> THEN "drain"
                                                     ELSE "planned"]
        /\ UNCHANGED <<setup, prompting, planned, in_flight, jobs, batch, host_vars, node,
                       stream_vars, masked, mask_vars, released>>

\* The round's releases follow its forward on the forward thread.
EndRound ==
    /\ control.at = "drain" /\ Len(in_flight) <= control.keep
    /\ jobs' = IF ended = {} THEN jobs
               ELSE Append(jobs, [op |-> "release", n |-> 0, requests |-> ended])
    /\ ended' = {}
    /\ control' = [control EXCEPT !.at = "round", !.keep = 0]
    /\ UNCHANGED <<setup, prompting, live, planned, in_flight, output_ids, batch, host_vars,
                   node, stream_vars, masked, matcher, mask_vars, released, fatal>>

-----------------------------------------------------------------------------
(* The forward thread. *)

Running == IF node = NoNode THEN 0 ELSE 1

\* Mutant: room only for the batches that wait.
RoomForQueued == Len(queue) + 1

\* Room for every batch the running and queued executions retire.
Room == Running + Len(queue) + 1

\* With a host node: Host::Add drops what was retired and queues the batch,
\* and the forward's work is enqueued behind it.
AddBatch ==
    /\ jobs # <<>> /\ Head(jobs).op = "execute" /\ setup.capturable
    /\ retired' = <<>>
    /\ reserved' = Room
    /\ queue' = Append(queue, Head(jobs).n)
    /\ launched' = Head(jobs).n
    /\ jobs' = Tail(jobs)
    /\ UNCHANGED <<setup, control_vars, batch, current, node, forked, sampled, pinned, results,
                   sequence, bitmask, masked, matcher, mask_vars, released, fatal>>

\* Without one: fill this forward's masks now; a matcher that does not fails
\* the forward.
FillNow ==
    /\ jobs # <<>> /\ Head(jobs).op = "execute" /\ ~setup.capturable /\ ~fatal
    /\ LET b == batch[Head(jobs).n]
       IN  IF Names(b) = {}
           THEN launched' = Head(jobs).n /\ UNCHANGED <<mask_vars, fatal>>
           ELSE \E walk \in MaskedPositions(b), failing \in MayFail(b) :
                    /\ Fill(b, walk, failing)
                    /\ fatal' = (failing # {})
                    /\ launched' = IF failing = {} THEN Head(jobs).n ELSE launched
    /\ jobs' = Tail(jobs)
    /\ UNCHANGED <<setup, control_vars, batch, host_vars, node, forked, sampled, pinned, results,
                   sequence, bitmask, masked, matcher, released>>

Release ==
    /\ jobs # <<>> /\ Head(jobs).op = "release" /\ ~fatal
    /\ released' = released \cup Head(jobs).requests
    /\ jobs' = Tail(jobs)
    /\ UNCHANGED <<setup, control_vars, batch, host_vars, node, stream_vars, masked, matcher,
                   mask_vars, fatal>>

-----------------------------------------------------------------------------
(* The streams. *)

MaskRows(b) == 0..(Bs(b) * (IF HasCandidates(b) THEN Width ELSE 1) - 1)

\* The main stream reaches the next forward: with a host node it records
\* fork_event (schedule_fill); without one it copies the filled rows, or
\* clears what an earlier batch left.
Fork ==
    /\ forked < launched /\ forked = sampled
    /\ forked' = forked + 1
    /\ IF setup.capturable
       THEN UNCHANGED <<bitmask, masked>>
       ELSE LET b == batch[forked + 1]
            IN  /\ bitmask' = [row \in Rows |->
                        IF row \notin MaskRows(b) THEN bitmask[row]
                        ELSE IF Names(b) = {} THEN Free ELSE host_bitmask[row]]
                /\ masked' = forked + 1
    /\ UNCHANGED <<setup, control_vars, jobs, batch, host_vars, node, launched, sampled, pinned,
                   results, sequence, matcher, mask_vars, released, fatal>>

Token(n, i, j, legal) == [n |-> n, row |-> i, j |-> j, legal |-> legal]

\* What the mask of row i's position j should come after.
Due(b, i, j) ==
    LET r == Row(b, i).req
    IN  IF r = NoGrammar \/ Len(sequence[r]) + j >= Ends[r] THEN Free
        ELSE Mask(r, sequence[r], j)

\* A draft is kept only if the mask before it allows it: the kept length passes
\* the masked positions only where the grammar ends there.
MayKeep(b, i, len) ==
    LET rows == {j \in 0..(OutputWidth(b, i) - 1) : bitmask[FirstRow(b, i) + j] # Free}
    IN  \/ len <= Cardinality(rows) \/ rows = {}
        \/ Len(bitmask[FirstRow(b, i)].after) + Cardinality(rows) >= Ends[Row(b, i).req]

\* The lengths the sampler keeps: one token, or with a verify what it accepts,
\* none for a stopped request.
KeptLengths(b) ==
    {lens \in [Requesting(b) -> 0..Width] :
        \A i \in Requesting(b) :
            IF Row(b, i).kind # "decode" \/ ~setup.spec THEN lens[i] = OutputWidth(b, i)
            ELSE MayKeep(b, i, lens[i])}

\* Mutant: no join with the side stream before apply_mask.
SamplesUnjoined(n) == TRUE

\* wait_bitmask: the sampler runs behind this forward's masks.
Joined(n) == masked >= n

\* The forward samples under the device masks and copies its output to the
\* pinned buffer the next node reads (schedule_post_sampler) and to its own.
\* wild: whether a token sampled without its mask happens to fit.
Sample ==
    /\ sampled < forked
    /\ Joined(sampled + 1)
    /\ \E lens \in KeptLengths(batch[sampled + 1]), wild \in BOOLEAN :
        LET n == sampled + 1
            b == batch[n]
            Legal(i, j) ==
                IF Row(b, i).req # NoGrammar /\ Len(sequence[Row(b, i).req]) + j >= Ends[Row(b, i).req]
                THEN FALSE
                ELSE bitmask[FirstRow(b, i) + j] = Due(b, i, j) \/ wild
            Places == {<<i, j>> \in Requesting(b) \X (0..(Width - 1)) : j < OutputWidth(b, i)}
            tokens == [p \in 0..(NumOutputTokens(b) - 1) |->
                          LET at == CHOOSE at \in Places : TokenOffset(b, at[1]) + at[2] = p
                          IN  Token(n, at[1], at[2], Legal(at[1], at[2]))]
            Keeps(r) == {i \in Grammars(b) : AdvanceMask(b, i) /\ Row(b, i).req = r}
        IN  /\ sampled' = n
            /\ results' = Append(results, [tokens |-> tokens, lens |-> lens])
            /\ pinned' = [tokens |-> [p \in Rows |-> IF p \in DOMAIN tokens THEN tokens[p]
                                                     ELSE pinned.tokens[p]],
                          lens |-> [i \in 0..(MaxBs - 1) |-> IF i \in DOMAIN lens THEN lens[i]
                                                            ELSE pinned.lens[i]]]
            /\ sequence' = [r \in Requests |->
                    IF Keeps(r) = {} THEN sequence[r]
                    ELSE LET i == CHOOSE i \in Keeps(r) : TRUE
                         IN  sequence[r] \o
                                [j \in 1..lens[i] |-> Token(n, i, j - 1, Legal(i, j - 1))]]
    /\ UNCHANGED <<setup, control_vars, jobs, batch, host_vars, node, launched, forked, bitmask,
                   masked, matcher, mask_vars, released, fatal>>

-----------------------------------------------------------------------------
(* The host node (Host::Run), on the side stream behind fork_event. *)

NodesRun == masked

PopBatch ==
    /\ node = NoNode /\ setup.capturable /\ NodesRun < forked /\ queue # <<>>
    /\ node' = [n |-> Head(queue), previous |-> current, at |-> "previous"]
    /\ current' = Head(queue)
    /\ queue' = Tail(queue)
    /\ UNCHANGED <<setup, control_vars, jobs, batch, retired, reserved, stream_vars, masked,
                   matcher, mask_vars, released, fatal>>

NodeClaims ==
    /\ node.at = "previous" /\ node.previous # 0
    /\ Claim(node.previous)
    /\ node' = [node EXCEPT !.at = "advancing"]
    /\ UNCHANGED <<setup, control_vars, jobs, host_vars, stream_vars, masked, matcher, mask_vars,
                   released, fatal>>

NodeAdvances ==
    /\ node.at = "advancing"
    /\ Advance(node.previous, pinned)
    /\ node' = [node EXCEPT !.at = "fill"]
    /\ UNCHANGED <<setup, control_vars, jobs, host_vars, stream_vars, masked, mask_vars, released,
                   fatal>>

\* Mutant: the fill does not wait for a batch another thread advances.
PreviousClaimed == node.previous # 0 => batch[node.previous].state # "pending"

\* Nothing to advance, or another thread has (WaitDone).
PreviousDone == node.previous # 0 => batch[node.previous].state = "done"

NodeFindsDone ==
    /\ node.at = "previous"
    /\ PreviousDone
    /\ node' = [node EXCEPT !.at = "fill"]
    /\ UNCHANGED <<setup, control_vars, jobs, batch, host_vars, stream_vars, masked, matcher,
                   mask_vars, released, fatal>>

\* Mutant: the node drops the batch it advanced.
RetireDropping(n) == UNCHANGED retired

\* The previous batch goes to the next Add, which drops it on a Python thread.
Retire(n) == retired' = Append(retired, n)

\* Fill this forward's masks, retire the previous batch, copy the masks to the
\* device and record bitmask_event.  A failed fill is logged.
NodeFills ==
    /\ node.at = "fill"
    /\ \E walk \in MaskedPositions(batch[node.n]), failing \in MayFail(batch[node.n]) :
        Fill(batch[node.n], walk, failing)
    /\ Retire(node.previous)
    /\ node' = NoNode
    /\ bitmask' = host_bitmask'
    /\ masked' = masked + 1
    /\ UNCHANGED <<setup, control_vars, jobs, batch, queue, current, reserved, launched, forked,
                   sampled, pinned, results, sequence, matcher, released, fatal>>

NodeStep == PopBatch \/ NodeClaims \/ NodeAdvances \/ NodeFindsDone \/ NodeFills

-----------------------------------------------------------------------------

\* After the graph captures cleared the host (reset_state).
Init ==
    /\ setup \in Setups
    /\ prompting = Requests /\ live = Requests
    /\ control = [at |-> "round", n |-> 0, keep |-> 0]
    /\ planned = <<>> /\ ended = {} /\ in_flight = <<>> /\ jobs = <<>> /\ batch = <<>>
    /\ queue = <<>> /\ current = 0 /\ retired = <<>> /\ reserved = 0 /\ node = NoNode
    /\ launched = 0 /\ forked = 0 /\ masked = 0 /\ sampled = 0
    /\ matcher = [r \in Requests |-> <<>>]
    /\ host_bitmask = [row \in Rows |-> Free] /\ dirty = {} /\ bitmask = host_bitmask
    /\ pinned = [tokens |-> [p \in Rows |-> Token(0, 0, 0, FALSE)],
                 lens |-> [i \in 0..(MaxBs - 1) |-> 0]]
    /\ results = <<>>
    /\ sequence = matcher /\ output_ids = matcher
    /\ released = {} /\ failed = {} /\ fatal = FALSE

ControlStep ==
    \/ \E rows \in Batches : Plan(rows)
    \/ Execute
    \/ PlanNothing
    \/ TakeOldest
    \/ FindsDone
    \/ AdvanceOnHost
    \/ AdvancedOnHost
    \/ \E stops \in SUBSET Requests : Commit(stops)
    \/ EndRound

ForwardStep == AddBatch \/ FillNow \/ Release
StreamStep == Fork \/ Sample

\* Every forward is committed and nothing is enqueued, or the engine stopped.
AllCommitted ==
    \/ fatal
    \/ control.at = "round" /\ in_flight = <<>> /\ jobs = <<>> /\ sampled = Len(batch)
Drained == AllCommitted /\ UNCHANGED vars

Progress == ControlStep \/ ForwardStep \/ StreamStep \/ NodeStep
Next == Progress \/ Drained
Spec == Init /\ [][Next]_vars
FairSpec == Spec /\ WF_vars(Progress)

-----------------------------------------------------------------------------

\* The state has its types, and each forward passes the streams' stages in
\* order: it is launched, records fork_event, has its masks on the device
\* (bitmask_event), and only then samples.
TypeOK ==
    /\ setup \in Setups
    /\ live \subseteq Requests /\ prompting \subseteq Requests /\ released \subseteq Requests
    /\ control.at \in {"round", "planned", "drain", "sync", "advancing", "commit", "stopped"}
    /\ node.at \in {"idle", "previous", "advancing", "fill"}
    /\ \A n \in 1..Len(batch) : batch[n].state \in {"pending", "advancing", "done"}
    /\ dirty \subseteq Rows
    /\ 0 <= sampled /\ sampled <= masked /\ masked <= forked /\ forked <= launched
    /\ launched <= Len(batch)
    /\ Len(results) = sampled

\* Whenever a forward may sample, each of its rows is masked by its request's
\* grammar after exactly the tokens the device has kept for that request, and
\* by nothing where the request has no grammar or its grammar has ended: the
\* fill follows the advance of every earlier forward, and no mask of an
\* earlier forward is left in a row (Host::Run, Filler::Fill, schedule_fill;
\* without a host node, the commits that precede a fill).
MasksAreCurrent ==
    sampled < forked /\ masked > sampled =>
        LET b == batch[sampled + 1]
        IN  \A i \in Requesting(b), j \in 0..(Width - 1) :
                j < OutputWidth(b, i) /\ AdvanceMask(b, i) /\ Row(b, i).req \notin failed =>
                    LET mask == bitmask[FirstRow(b, i) + j]
                    IN  mask = Due(b, i, j) \/ (j > 0 /\ mask = Free)

\* Forwards whose tokens the matchers have taken.
Applied(n) ==
    IF setup.capturable THEN batch[n].state = "done"
    ELSE n # control.n /\ \A i \in 1..Len(in_flight) : in_flight[i] # n

\* A matcher has accepted, once and in order, the tokens of exactly the
\* forwards that completed, up to the one that ended its grammar: of the next
\* forward's node and the commit one advances a batch, each by that batch's
\* own tokens (Batch::TryAdvance, TokenOffset; "Exactly one of the two
\* advances").
MatchersAdvanceOnce ==
    \A r \in Requests \ failed :
        setup.capturable \/ r \in live =>
            LET applied == SelectSeq(sequence[r], LAMBDA t : Applied(t.n))
            IN  matcher[r] = SubSeq(applied, 1, IF Len(applied) < Ends[r] THEN Len(applied) ELSE Ends[r])

\* What a request is sent is what the device kept for it, every token of it
\* fits its grammar, and the request ends with the token that ends the grammar
\* and not after it, whichever thread advanced the matcher (terminated_at).
\* No commit meets a token its matcher rejects (GrammarRejected).
OutputEndsWithItsGrammar ==
    /\ fatal => failed # {}
    /\ \A r \in Requests \ failed :
            /\ IsPrefix(output_ids[r], sequence[r])
            /\ \A i \in 1..Len(output_ids[r]) : output_ids[r][i].legal
            /\ Len(output_ids[r]) <= Ends[r]
            /\ Len(output_ids[r]) = Ends[r] => r \notin live

\* A forward the forward thread has yet to run names no request released
\* before it: a release follows every forward that may read the matcher
\* (HostDataPlane.release; a Matcher of an unknown handle would raise).
ForwardsFindTheirMatchers ==
    \A i \in 1..Len(jobs) :
        jobs[i].op = "execute" => Names(batch[jobs[i].n]) \cap released = {}

\* The node never allocates to retire a batch: Add reserved room for every
\* execution that may retire one before the next Add.
RetireNeverAllocates == Len(retired) <= reserved

\* The Batch objects something refers to.
Referenced ==
    {n \in 1..Len(batch) :
        \/ n = current \/ n = node.n \/ n = node.previous \/ n = control.n
        \/ \E i \in 1..Len(queue) : queue[i] = n
        \/ \E i \in 1..Len(retired) : retired[i] = n
        \/ \E i \in 1..Len(in_flight) : in_flight[i] = n}

\* The host node never drops the last reference to a batch, so it never frees
\* a matcher: that is left to the next Add (Host::Retire).
NodeFreesNothing == [][node' # node => Referenced \subseteq Referenced']_vars

\* Every dispatched forward is committed, with or without a later forward: a
\* commit and a host node that meet on one batch never wait for each other.
EveryForwardCommits == <>[]AllCommitted

=============================================================================
