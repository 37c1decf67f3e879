--------------------------- MODULE SharedExclusive ---------------------------
(***************************************************************************)
(* What a reader-writer lock promises, with no queue and no counters: a    *)
(* task is outside, inside with others ("shared") or inside alone          *)
(* ("exclusive").  RWLock implements it.                                   *)
(***************************************************************************)
CONSTANT Tasks

VARIABLE mode

vars == <<mode>>

Modes == {"outside", "shared", "exclusive"}

Init == mode = [t \in Tasks |-> "outside"]

EnterShared(t) ==
    /\ mode[t] = "outside"
    /\ \A u \in Tasks : mode[u] # "exclusive"
    /\ mode' = [mode EXCEPT ![t] = "shared"]

EnterExclusive(t) ==
    /\ \A u \in Tasks : mode[u] = "outside"
    /\ mode' = [mode EXCEPT ![t] = "exclusive"]

Leave(t) ==
    /\ mode[t] # "outside"
    /\ mode' = [mode EXCEPT ![t] = "outside"]

Next == \E t \in Tasks : EnterShared(t) \/ EnterExclusive(t) \/ Leave(t)

Spec == Init /\ [][Next]_vars
=============================================================================
