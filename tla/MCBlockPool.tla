---------------------------- MODULE MCBlockPool ----------------------------
(* BlockPool on three parents shared by a sharded group (four slots in two *)
(* buckets) and an unsharded one (two slots).                              *)
EXTENDS BlockPool

CONSTANTS attn, state

MCGroups == {attn, state}
MCPacking == [g \in MCGroups |-> IF g = attn THEN 4 ELSE 2]
MCShardCount == [g \in MCGroups |-> IF g = attn THEN 2 ELSE 1]
=============================================================================
