---------------------------- MODULE LaunchContract ----------------------------
(***************************************************************************)
(* What an idempotency key promises its caller, whatever the daemon, its   *)
(* store and its crashes do: the key is bound to one task; at most one     *)
(* request carrying that task produces effects; no run appears once the    *)
(* outcome is on record; and the outcome is honest.  "failed" means that   *)
(* nothing was made, "completed" that a request got to make something, and *)
(* both are final.                                                         *)
(***************************************************************************)
CONSTANTS Bindings, Tasks, Requests, None

VARIABLES
    bound,         \* the task of each key
    effector,      \* the request that produces the effects of each key
    asked,         \* the task each request carries
    made,          \* keys for which a run exists
    outcome        \* "open", "completed", "failed" or "unresolved"

contractVars == <<bound, effector, asked, made, outcome>>

Init ==
    /\ bound = [b \in Bindings |-> None]
    /\ effector = [b \in Bindings |-> None]
    /\ asked = [r \in Requests |-> None]
    /\ made = {}
    /\ outcome = [b \in Bindings |-> "open"]

Ask(r, t) ==
    /\ asked[r] = None
    /\ asked' = [asked EXCEPT ![r] = t]
    /\ UNCHANGED <<bound, effector, made, outcome>>

BindTask(b, t) ==
    /\ bound[b] = None /\ outcome[b] = "open"
    /\ bound' = [bound EXCEPT ![b] = t]
    /\ UNCHANGED <<effector, asked, made, outcome>>

(* The one request that may touch the world. *)
Effect(b, r) ==
    /\ effector[b] = None /\ outcome[b] = "open"
    /\ bound[b] = asked[r]
    /\ effector' = [effector EXCEPT ![b] = r]
    /\ UNCHANGED <<bound, asked, made, outcome>>

MakeRun(b) ==
    /\ effector[b] # None /\ outcome[b] = "open"
    /\ made' = made \cup {b}
    /\ UNCHANGED <<bound, effector, asked, outcome>>

Decide(b, o) ==
    /\ bound[b] # None
    /\ \/ outcome[b] = "open"
       \/ outcome[b] = "unresolved" /\ o = "completed" /\ b \in made
    /\ o = "completed" => effector[b] # None
    /\ o = "failed" => b \notin made
    /\ outcome' = [outcome EXCEPT ![b] = o]
    /\ UNCHANGED <<bound, effector, asked, made>>

Next ==
    \/ \E r \in Requests, t \in Tasks : Ask(r, t)
    \/ \E b \in Bindings, t \in Tasks : BindTask(b, t)
    \/ \E b \in Bindings, r \in Requests : Effect(b, r)
    \/ \E b \in Bindings : MakeRun(b)
    \/ \E b \in Bindings, o \in {"completed", "failed", "unresolved"} : Decide(b, o)

Spec == Init /\ [][Next]_contractVars
=============================================================================
