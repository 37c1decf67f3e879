--------------------------- MODULE MCGrammarHost ---------------------------
(***************************************************************************)
(* An instance of GrammarHost: two grammars, one of which ends inside a    *)
(* verified round, beside rows without one.                                *)
(***************************************************************************)
EXTENDS GrammarHost, TLC

CONSTANTS short, long

R(req, kind) == [req |-> req, kind |-> kind]
GrammarEnds == short :> 2 @@ long :> 3

\* A prompt in one chunk or two, alone or beside a decode; decodes together;
\* rows without a grammar before, after and alone.
PlannedBatches ==
    { <<R(short, "last")>>, <<R(short, "decode")>>,
      <<R(short, "last"), R(long, "chunk")>>,
      <<R(long, "last"), R(short, "decode")>>,
      <<R(short, "decode"), R(long, "decode")>>,
      <<R(NoGrammar, "decode"), R(short, "decode")>>,
      <<R(long, "decode"), R(NoGrammar, "decode")>>,
      <<R(NoGrammar, "decode")>> }

Setup(capturable, spec, compact, depth, forwards, failures) ==
    [capturable |-> capturable, spec |-> spec, compact |-> compact, depth |-> depth,
     forwards |-> forwards, failures |-> failures]

\* A host node with and without drafts, overlapping forwards or not; none.
EngineSetups ==
    { Setup(TRUE, TRUE, TRUE, 1, 3, 0), Setup(TRUE, FALSE, FALSE, 1, 4, 0),
      Setup(TRUE, FALSE, TRUE, 0, 3, 1), Setup(FALSE, TRUE, FALSE, 1, 3, 1) }
=============================================================================
