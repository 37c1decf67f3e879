---------------------------- MODULE CopyService ----------------------------
(***************************************************************************)
(* What the host cache promises the scheduler, with no stream, lane or     *)
(* event in it: an operation carries the image its source held when the    *)
(* scheduler emitted it, and its acknowledgement, which comes once, makes  *)
(* exactly that image the content of its destination.  From then until the *)
(* next plan that names it a destination keeps the image.                  *)
(* HostCacheExecutor implements it.                                        *)
(***************************************************************************)
CONSTANTS
    Rows,           \* device rows: cache pages and request slots
    Blocks,         \* host blocks of both tiers
    Images,         \* contents of a place
    Unknown         \* the content of a place nobody may rely on

VARIABLES
    inflight,       \* [dst, image, ..] operations emitted and not acknowledged
    content         \* what the scheduler may rely on, per row and block

vars == <<inflight, content>>

Places == Rows \cup Blocks

Into(ops, x) == {o \in ops : o.dst = x}

Init ==
    /\ inflight = {}
    /\ content \in [Places -> Images \cup {Unknown}]

\* A plan: its destinations, and any row it grants or frees, lose their content.
Submit ==
    LET emitted == inflight' \ inflight
        before == content
        after == content'
    IN  /\ inflight \subseteq inflight'
        /\ DOMAIN after = Places
        /\ \A x \in Places :
              \/ after[x] = before[x] /\ Into(emitted, x) = {}
              \/ after[x] = Unknown /\ (x \in Rows \/ Into(emitted, x) # {})

\* Acknowledgements: every acknowledged image is where it belongs.
Acknowledge ==
    LET acked == inflight \ inflight'
        before == content
        after == content'
    IN  /\ inflight' \subseteq inflight
        /\ DOMAIN after = Places
        /\ \A x \in Places :
              \/ after[x] = before[x] /\ Into(acked, x) = {}
              \/ \E o \in Into(acked, x) : after[x] = o.image

Next == Submit \/ Acknowledge

Spec == Init /\ [][Next]_vars
=============================================================================
