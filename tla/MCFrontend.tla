----------------------------- MODULE MCFrontend -----------------------------
(***************************************************************************)
(* Instances of Frontend: a stream with a stop string alone, beside a      *)
(* parallel-sampling request, a batch, and a stream that repeats its ids.  *)
(***************************************************************************)
EXTENDS Frontend, TLC

CONSTANTS stream, group, rl

TwoClients == {stream, group}
AllTasks == {stream, group, rl}
OnlyStream == {stream}
OnlyGroup == {group}

Request(kind, tokens, stop, exposed) ==
    [kind |-> kind, tokens |-> tokens, stop |-> stop, cumulative |-> FALSE,
     refusable |-> exposed, abortable |-> exposed]
Absent == Request("absent", 0, 0, FALSE)

\* Outputs merged around a stop string, refused and aborted at any time.
LongStream == stream :> Request("single", 3, 2, TRUE) @@ group :> Absent

\* Two prompts waited for together, refused and aborted at any time.
BatchAlone == stream :> Absent @@ group :> Request("batch", 1, 0, TRUE)

\* Two readers, one of which sends more while the other ends.
StreamBesideSampling ==
    stream :> Request("single", 1, 0, FALSE) @@ group :> Request("sampling", 1, 0, FALSE)

\* Outputs that repeat every id so far, merged by replacement.
RawStream ==
    stream :> [Request("single", 3, 0, FALSE) EXCEPT !.cumulative = TRUE] @@ group :> Absent

AllMixes == {LongStream, RawStream, StreamBesideSampling, BatchAlone}
=============================================================================
