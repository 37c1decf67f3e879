----------------------------- MODULE RequestFsm -----------------------------
(***************************************************************************)
(* The request state machine (fsm/states.h and the events of fsm/): which  *)
(* state an event takes a request to.  An event with no overload for a     *)
(* state reaches InvalidTransitionHandler, which throws: Invalid.          *)
(***************************************************************************)

States == {"Bootstrapping", "Submitted", "Prefilling", "RemotePrefilling",
           "PrefillAwaitingResult", "PrefillDone", "Decoding", "Retracted",
           "Restoring", "Finishing", "Finished"}

Invalid == "Invalid"

\* States that carry ForwardResources (Request::HoldsPages).
HoldsPages == {"Prefilling", "RemotePrefilling", "PrefillAwaitingResult", "PrefillDone",
               "Decoding", "Restoring", "Finishing"}

\* States a capacity retraction may suspend (SnapshotRetractEvent).
Suspendable == {"Prefilling", "PrefillDone", "Decoding"}

\* Mutant: a completed prompt does not wait for its result.
AfterChunk_NeverAwaits(remote, completes, awaits_result) ==
    CASE remote -> "RemotePrefilling" [] ~remote /\ ~completes -> "Prefilling" [] OTHER -> "PrefillDone"

\* Where a prompt chunk leaves the request: SchedulePrefillFirstChunkEvent and
\* SchedulePrefillEvent.
AfterChunk(remote, completes, awaits_result) ==
    CASE remote -> "RemotePrefilling"
      [] ~remote /\ ~completes -> "Prefilling"
      [] ~remote /\ completes /\ awaits_result -> "PrefillAwaitingResult"
      [] OTHER -> "PrefillDone"

\* Mutant: no overload for the first decode of a completed prompt.
ScheduleDecodeEvent_NotFirst(s) == IF s = "Decoding" THEN "Decoding" ELSE Invalid

ScheduleDecodeEvent(s) ==
    IF s \in {"PrefillDone", "PrefillAwaitingResult", "Decoding"} THEN "Decoding" ELSE Invalid

FinishEvent(s) ==
    CASE s \in {"PrefillDone", "PrefillAwaitingResult", "Decoding", "Finishing"} -> "Finishing"
      [] s \in {"Retracted", "Restoring", "Finished"} -> "Finished"
      [] OTHER -> Invalid

\* Mutant: the first token does not complete the prompt.
ExtendResultEvent_KeepsAwaiting(s, token) ==
    CASE s = "Prefilling" -> IF token THEN Invalid ELSE s
      [] s \in {"PrefillAwaitingResult", "RemotePrefilling", "PrefillDone", "Decoding", "Finishing",
                "Finished"} -> s
      [] OTHER -> Invalid

\* Mutant: a finished request cannot take the result of an overlapped forward.
ExtendResultEvent_NotFinishing(s, token) ==
    CASE s = "PrefillAwaitingResult" -> IF token THEN "PrefillDone" ELSE s
      [] s = "Prefilling" -> IF token THEN Invalid ELSE s
      [] s \in {"RemotePrefilling", "PrefillDone", "Decoding", "Finished"} -> s
      [] OTHER -> Invalid

\* `token' says whether the result carries one: an intermediate chunk's does
\* not, and a Prefilling request asserts that.
ExtendResultEvent(s, token) ==
    CASE s = "PrefillAwaitingResult" -> IF token THEN "PrefillDone" ELSE s
      [] s = "Prefilling" -> IF token THEN Invalid ELSE s
      [] s \in {"RemotePrefilling", "PrefillDone", "Decoding", "Finishing", "Finished"} -> s
      [] OTHER -> Invalid

UpdateReserveNumTokensEvent(s) == IF s \in {"Decoding", "Finished"} THEN s ELSE Invalid

BootstrappedEvent(s) == IF s = "Bootstrapping" THEN "Submitted" ELSE Invalid

RemotePrefillDoneEvent(s) == IF s = "RemotePrefilling" THEN "PrefillDone" ELSE Invalid
=============================================================================
