------------------------------- MODULE PaneWorld -------------------------------
(***************************************************************************)
(* One lane's pane as its writers meet it: the terminal, its agent, the    *)
(* agent's composer and trace (all external, seen through the Herdr CLI),  *)
(* the run's sidecar, and the cross-process write lock with its durable    *)
(* fence of spent frames (src/src/pane-write-lock.ts).                     *)
(*                                                                         *)
(* The agent is a Devin: a prompt written while it works stays queued in   *)
(* its composer, one written while it idles is taken as a turn or stays a  *)
(* draft, and a later Enter submits what the composer holds.               *)
(***************************************************************************)
EXTENDS Naturals, FiniteSets

CONSTANTS
    Messages,       \* prompts that may be written to the pane
    LaunchPrompts,  \* those that are a launch's initial prompt
    Hints,          \* those that are the daemon's idle hints
    Hosts,          \* processes that write prompts and flush queues
    MaxOccupants,   \* bound: agents that occupy the pane one after another
    MaxSeq,         \* bound: state changes of the agent
    MaxSpent,       \* frames a fence holds (32 in the code)
    MaxFaults,      \* bound: crashes of hosts and deaths of lock holders
    Casts           \* bound: which actors and disturbances one behaviour has

ASSUME PaneAssumption ==
    /\ LaunchPrompts \cup Hints \subseteq Messages
    /\ LaunchPrompts \cap Hints = {}
    /\ Messages \cap Hosts = {}
    /\ {"nothing", "retirer"} \cap (Messages \cup Hosts) = {}
    /\ MaxOccupants \in Nat \ {0}
    /\ MaxSeq \in Nat /\ MaxSpent \in Nat /\ MaxFaults \in Nat

Nothing == "nothing"
Retirer == "retirer"
Controller == "controller"
Faults == "faults"              \* processes and lock holders may die
RawClients == "raw"             \* the user or a raw client may write without the lock
Newcomers == "newcomers"        \* other agents may take the pane over
Writers == Messages \cup Hosts \cup {Retirer}
DaemonWriters == Hints \cup {Retirer}

ASSUME CastAssumption == Casts \subseteq SUBSET (Writers \cup {Controller, Faults, RawClients, Newcomers})

VARIABLES
    cast,       \* the actors of this behaviour, chosen once
    pane,       \* the terminal: who is in it, what it does, what its composer holds
    turns,      \* prompts its trace holds as user turns
    landed,     \* prompts written into it by a writer under the lock
    lane,       \* the sidecar: whether the run is handed off, its mark, what it covers
    lock,       \* which writer's holder process has the pane's flock
    fence,      \* the durable record of frames an Enter was spent on
    pressed,    \* frames an Enter was sent on since the composer was last empty
    repeated,   \* some frame got a second Enter while the composer never emptied
    faults,     \* crashes and holder deaths so far
    lapsed      \* some holder died after its writer had checked the lease

worldVars == <<pane, turns, landed, lane, lock, fence, pressed, repeated, faults, lapsed>>

(* The part of the screen a fence digest is taken over. *)
Interiors == (SUBSET Messages) \X (SUBSET Messages)
Interior(p) == <<p.queued, p.draft>>

Composer(p) == [queued |-> p.queued # {}, inputEmpty |-> p.draft = {}, interior |-> Interior(p)]

PaneStates ==
    [open: BOOLEAN, closer: {"none", "retirer", "other"}, occ: 1..MaxOccupants,
     status: {"working", "idle", "gone"}, elsewhere: BOOLEAN, seq: 0..MaxSeq,
     queued: SUBSET Messages, draft: SUBSET Messages]

(* The reads of pane and agent join to a complete identity of occupant o. *)
Agent(o) == pane.status # "gone" /\ pane.occ = o
Joins(o) == pane.open /\ Agent(o)

LaneStates == [handed: BOOLEAN, reopened: BOOLEAN, covers: SUBSET Messages]

WorldTypeOK ==
    /\ cast \in Casts
    /\ pane \in PaneStates
    /\ turns \subseteq Messages
    /\ landed \subseteq Messages
    /\ lane \in LaneStates
    /\ lock \in Writers \cup {Nothing}
    /\ fence \in [occ: 0..MaxOccupants, spent: SUBSET Interiors]
    /\ Cardinality(fence.spent) <= MaxSpent
    /\ pressed \subseteq Interiors
    /\ repeated \in BOOLEAN
    /\ faults \in 0..MaxFaults
    /\ lapsed \in BOOLEAN

WorldInit ==
    /\ cast \in Casts
    /\ pane = [open |-> TRUE, closer |-> "none", occ |-> 1, status |-> "idle",
               elsewhere |-> FALSE, seq |-> 0,
               queued |-> {}, draft |-> {}]
    /\ turns = {}
    /\ landed = {}
    /\ lane = [handed |-> FALSE, reopened |-> FALSE, covers |-> {}]
    /\ lock = Nothing
    /\ fence = [occ |-> 0, spent |-> {}]
    /\ pressed = {}
    /\ repeated = FALSE
    /\ faults = 0
    /\ lapsed = FALSE

-----------------------------------------------------------------------------
(* The agent and its terminal. *)

Busy(p) == [p EXCEPT !.status = "working", !.seq = @ + 1]

(* The pane becomes p; an empty composer forgets what was pressed on it. *)
PaneBecomes(p) ==
    /\ pane' = p
    /\ pressed' = IF Interior(p) = <<{}, {}>> THEN {} ELSE pressed

(* The turn ends by itself; what was queued stays queued. *)
TurnEnds ==
    /\ pane.open /\ pane.status = "working" /\ pane.seq < MaxSeq
    /\ PaneBecomes([pane EXCEPT !.status = "idle", !.seq = @ + 1])
    /\ UNCHANGED <<turns, landed, lane, lock, fence, repeated, faults, lapsed>>

(* The agent submits its own queue when its turn ends, as it usually does. *)
QueueDrains ==
    /\ pane.open /\ pane.status = "idle" /\ pane.queued # {} /\ pane.seq < MaxSeq
    /\ turns' = turns \cup pane.queued
    /\ PaneBecomes(Busy([pane EXCEPT !.queued = {}]))
    /\ UNCHANGED <<landed, lane, lock, fence, repeated, faults, lapsed>>

(* Another agent takes the pane over; its composer and trace are its own. *)
OccupantReplaced ==
    /\ Newcomers \in cast /\ pane.open /\ pane.occ < MaxOccupants
    /\ PaneBecomes([pane EXCEPT !.occ = @ + 1, !.status = "idle", !.elsewhere = FALSE,
                                !.queued = {}, !.draft = {}])
    /\ UNCHANGED <<turns, landed, lane, lock, fence, repeated, faults, lapsed>>

(* The agent leaves the pane to its shell: it exits, or its session is moved  *)
(* to another pane.                                                           *)
AgentLeaves(moved) ==
    [pane EXCEPT !.status = "gone", !.elsewhere = moved, !.queued = {}, !.draft = {}]

AgentGone ==
    /\ pane.open /\ pane.status # "gone"
    /\ \E moved \in BOOLEAN : PaneBecomes(AgentLeaves(moved))
    /\ UNCHANGED <<turns, landed, lane, lock, fence, repeated, faults, lapsed>>

(* The user, or a client that is not herdr-tools, closes the pane. *)
ClosedByOther ==
    /\ pane.open
    /\ pane' = [pane EXCEPT !.open = FALSE, !.closer = "other"]
    /\ UNCHANGED <<turns, landed, lane, lock, fence, pressed, repeated, faults, lapsed>>

(* What a prompt does to an open pane: queued by a busy agent; taken as a turn *)
(* by an idle one, or left on its input line.                                  *)
TextLands(m) ==
    \/ /\ pane.status = "working"
       /\ PaneBecomes([pane EXCEPT !.queued = @ \cup {m}])
       /\ UNCHANGED turns
    \/ /\ pane.status = "idle" /\ pane.seq < MaxSeq
       /\ PaneBecomes(Busy([pane EXCEPT !.draft = {}]))
       /\ turns' = turns \cup pane.draft \cup {m}
    \/ /\ pane.status = "idle"
       /\ PaneBecomes([pane EXCEPT !.draft = @ \cup {m}])
       /\ UNCHANGED turns

(* What an Enter proven on frame f does: it submits what the composer holds by *)
(* now, or is not taken.                                                       *)
EnterLands(f) ==
    \/ UNCHANGED <<pane, turns>> /\ pressed' = pressed \cup {f}
    \/ /\ pane.open /\ pane.status # "gone" /\ Interior(pane) # <<{}, {}>> /\ pane.seq < MaxSeq
       /\ turns' = turns \cup pane.queued \cup pane.draft
       /\ LET sent == [pane EXCEPT !.queued = {}, !.draft = {}]
          IN pane' = IF pane.status = "working" THEN sent ELSE Busy(sent)
       /\ pressed' = {}

(* The supervisor accepts the artifact the idle child wrote, which answers the *)
(* turns so far, and clears the mark (persistHandoffOutcome, validate).        *)
ArtifactAccepted ==
    /\ Joins(1) /\ pane.status = "idle" /\ turns \ lane.covers # {}
    /\ lane' = [handed |-> TRUE, reopened |-> FALSE, covers |-> turns]
    /\ UNCHANGED <<pane, turns, landed, lock, fence, pressed, repeated, faults, lapsed>>

(* The supervisor sees the child work again and marks the run (markCycle). *)
CycleReopened ==
    /\ pane.open /\ pane.occ = 1 /\ pane.status = "working" /\ lane.handed /\ ~lane.reopened
    /\ lane' = [lane EXCEPT !.reopened = TRUE]
    /\ UNCHANGED <<pane, turns, landed, lock, fence, pressed, repeated, faults, lapsed>>

(* A process or a lock's holder dies. *)
Fault == Faults \in cast /\ faults < MaxFaults /\ faults' = faults + 1

-----------------------------------------------------------------------------
(* The lock and the fence. *)

(* acquire: a holder process got the flock within its wait. *)
TakeLock(w) == lock = Nothing /\ lock' = w

(* holder.check: the holder is alive, so the flock is still this writer's. *)
LeaseHolds(w) == lock = w

(* release: the holder exits, or is killed; a lease already lost stays lost. *)
DropLock(w) == lock' = IF lock = w THEN Nothing ELSE lock

(* fence.isSpent: a fence of another identity has spent nothing. *)
IsSpent(occ, f) == fence.occ = occ /\ f \in fence.spent

(* fence.record refuses when the identity's fence is full. *)
Recordable(occ, f) ==
    LET spent == IF fence.occ = occ THEN fence.spent ELSE {} IN
    f \in spent \/ Cardinality(spent) < MaxSpent

Recorded(occ, f) ==
    [occ |-> occ, spent |-> (IF fence.occ = occ THEN fence.spent ELSE {}) \cup {f}]

(* fence.rearm *)
Rearmed(occ) == [occ |-> occ, spent |-> {}]

=============================================================================
