----------------------------- MODULE MCScheduler -----------------------------
EXTENDS Scheduler

\* The allocators hand out the lowest numbers first.
MCPick(S, n) == {x \in S : Cardinality({y \in S : y < x}) < n}
=============================================================================
