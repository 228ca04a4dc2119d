--------------------------- MODULE ListenerGroup ---------------------------
(***************************************************************************)
(* What a Provider promises about its listeners (src/pubsub/pubsub.go,     *)
(* AddListener and Close), without mutex, contexts or goroutines: a        *)
(* listener joins once, it is over when its time is up, when its Receive   *)
(* fails or when the provider is closed, and a listener that is over is    *)
(* eventually released.  Close is one step that reaches every listener     *)
(* that has joined so far.                                                 *)
(***************************************************************************)
CONSTANT Listeners

VARIABLES joined,    \* the listeners AddListener has registered
          over,      \* those that take no further message
          released   \* those whose Pub/Sub client is closed

groupVars == <<joined, over, released>>

Init == joined = {} /\ over = {} /\ released = {}

(* A listener joins; its own deadline may have passed before it does. *)
Join(l) ==
    /\ l \notin joined
    /\ joined' = joined \union {l}
    /\ over' \in {over, over \union {l}}
    /\ UNCHANGED released

(* Its deadline passes, or its Receive gives up on an error. *)
Leave(l) ==
    /\ l \in joined \ over
    /\ over' = over \union {l}
    /\ UNCHANGED <<joined, released>>

CloseAll ==
    /\ over' = joined
    /\ UNCHANGED <<joined, released>>

Release(l) ==
    /\ l \in over \ released
    /\ released' = released \union {l}
    /\ UNCHANGED <<joined, over>>

Next == CloseAll \/ \E l \in Listeners : Join(l) \/ Leave(l) \/ Release(l)

Spec == Init /\ [][Next]_groupVars

FairSpec == Spec /\ \A l \in Listeners : WF_groupVars(Release(l))
=============================================================================
