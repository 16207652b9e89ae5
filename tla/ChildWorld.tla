------------------------------ MODULE ChildWorld ------------------------------
(***************************************************************************)
(* The world a supervisor watches: one child agent in a Herdr pane, the    *)
(* session's event stream, and the monitor that brings its events and      *)
(* snapshots to the supervisor (src/src/supervision/monitor.ts).           *)
(*                                                                         *)
(* Herdr is external.  A pane's revision counts from zero in each pane the *)
(* child moves to; the lifecycle sequence is the child's own and never     *)
(* restarts.  A snapshot is a copy of the child at the moment it is read,  *)
(* on a connection of its own, so it may overtake events that are still    *)
(* under way, and be overtaken by later ones.  The stream retains its log: *)
(* a new subscription replays it from a position of Herdr's choosing, so   *)
(* events may come twice, and the ones it no longer holds never come.      *)
(***************************************************************************)
EXTENDS Naturals, Sequences

CONSTANTS
    Statuses,       \* the agent statuses a child may report
    MaxTurns,       \* bound: status changes of the child
    MaxPanes,       \* bound: panes the child lives in, one after another
    MaxReads,       \* bound: periodic snapshots
    MaxDrops,       \* bound: lost connections
    MaxGlitches     \* bound: reads that fail or are invalid

ASSUME ChildAssumption ==
    /\ Statuses \subseteq {"idle", "working", "done", "blocked", "unknown"}
    /\ {"idle", "working"} \subseteq Statuses
    /\ MaxTurns \in Nat /\ MaxPanes \in Nat \ {0} /\ MaxReads \in Nat
    /\ MaxDrops \in Nat /\ MaxGlitches \in Nat

VARIABLES
    cast,           \* which disturbances this behaviour has (chosen once)
    child,          \* the child as Herdr sees it
    log,            \* the events Herdr emitted, in order
    link,           \* the subscription: up, the next event it delivers, degraded
    boot,           \* a bootstrap snapshot not announced yet
    periodic,       \* a periodic snapshot not dispatched yet
    spent           \* how much of each bound is used up

worldVars == <<cast, child, log, link, boot, periodic, spent>>

Panes == 1..MaxPanes
Theres == {"here", "exited", "replaced", "closed"}
Seqs == 0..MaxTurns
NoSnapshot == [status |-> "none"]

Child ==
    [pane: Panes, status: Statuses, rev: Nat, seq: 1..(MaxTurns + 1), there: Theres,
     ends: Nat, owner: BOOLEAN]
Event ==
    [kind: {"updated", "moved", "closed", "exited", "thin"}, pane: Panes, from: 0..MaxPanes,
     rev: Nat, status: Statuses, seq: 0..(MaxTurns + 1), ours: BOOLEAN]
Snapshot ==
    [status: Statuses, pane: Panes, rev: Nat, seq: 0..(MaxTurns + 1), there: Theres,
     owner: BOOLEAN, valid: BOOLEAN]

WorldTypeOK ==
    /\ child \in Child
    /\ log \in Seq(Event)
    /\ link \in [up: BOOLEAN, next: Nat, degraded: BOOLEAN]
    /\ boot \in Snapshot \cup {NoSnapshot}
    /\ periodic \in Snapshot \cup {NoSnapshot}
    /\ spent \in [reads: Nat, drops: Nat, glitches: Nat, thin: Nat]

WorldInit(status) ==
    /\ child = [pane |-> 1, status |-> status, rev |-> 0, seq |-> 1, there |-> "here",
                ends |-> 0, owner |-> TRUE]
    /\ log = <<>>
    /\ link = [up |-> TRUE, next |-> 1, degraded |-> FALSE]
    /\ boot = NoSnapshot
    /\ periodic = NoSnapshot
    /\ spent = [reads |-> 0, drops |-> 0, glitches |-> 0, thin |-> 0]

(* materialTransitionEvent: what one status change means to the manager. *)
Material(from, to) ==
    IF to = "blocked" THEN "blocked"
    ELSE IF to = "done" \/ (from = "working" /\ to = "idle") THEN "work_cycle_completed"
    ELSE "silent"

(* The lifecycle sequence, or 0 where this Herdr reports none. *)
Reported(seq) == IF "uncounted" \in cast THEN 0 ELSE seq

Record(kind, c, from) ==
    [kind |-> kind, pane |-> c.pane, from |-> from, rev |-> c.rev, status |-> c.status,
     seq |-> Reported(c.seq), ours |-> c.there = "here"]

(* What a snapshot read now shows; an invalid one has duplicate, malformed or *)
(* contradictory records for the target (classifySnapshotTarget).            *)
Snap(valid) ==
    [status |-> child.status, pane |-> child.pane, rev |-> child.rev,
     seq |-> Reported(child.seq), there |-> child.there, owner |-> child.owner,
     valid |-> valid]

-----------------------------------------------------------------------------
(* The child. *)

(* A turn begins or ends.  The revision follows the status in a behaviour     *)
(* that is "revised", and need not otherwise; in one that is "prompt" every    *)
(* event is out before the next change; one about the "trace" has only work    *)
(* and rest.                                                                   *)
ChildTurns ==
    /\ child.there = "here"
    /\ "prompt" \in cast => ~(link.up /\ link.next <= Len(log))
    /\ child.seq <= MaxTurns
    /\ \E to \in (IF "trace" \in cast THEN {"idle", "working"} ELSE Statuses) \ {child.status},
         step \in IF "revised" \in cast THEN {1} ELSE {0, 1} :
         /\ child' = [child EXCEPT !.status = to, !.seq = @ + 1, !.rev = @ + step,
                                   !.ends = IF Material(child.status, to) = "work_cycle_completed"
                                               /\ <<child.status, to>> # <<"done", "idle">>
                                            THEN @ + 1 ELSE @]
         /\ log' = Append(log, Record("updated", child', 0))
    /\ UNCHANGED <<cast, link, boot, periodic, spent>>

ChildMoves ==
    /\ "moves" \in cast
    /\ child.there = "here"
    /\ child.pane < MaxPanes
    /\ child' = [child EXCEPT !.pane = @ + 1, !.rev = 0]
    /\ log' = Append(log, Record("moved", child', child.pane))
    /\ UNCHANGED <<cast, link, boot, periodic, spent>>

(* The agent exits its pane, another takes it, or the pane is closed. *)
ChildLeaves ==
    /\ "leaves" \in cast
    /\ child.there = "here"
    /\ \E how \in {"exited", "replaced", "closed"} :
         /\ child' = [child EXCEPT !.there = how, !.rev = IF how = "replaced" THEN @ + 1 ELSE @]
         /\ log' = Append(log, Record(IF how = "replaced" THEN "updated" ELSE how, child', 0))
    /\ UNCHANGED <<cast, link, boot, periodic, spent>>

(* A thin event: only a pane id (an agent detected, a title, a layout). *)
ThinEvent ==
    /\ "thin" \in cast
    /\ spent.thin = 0
    /\ child.there # "closed"
    /\ log' = Append(log, Record("thin", child, 0))
    /\ spent' = [spent EXCEPT !.thin = 1]
    /\ UNCHANGED <<cast, child, link, boot, periodic>>

(* The session that owns the run leaves Herdr, or comes back. *)
OwnerTurns ==
    /\ "owner" \in cast
    /\ spent.thin = 0
    /\ child' = [child EXCEPT !.owner = ~@]
    /\ spent' = [spent EXCEPT !.thin = IF child.owner THEN 0 ELSE 1]
    /\ UNCHANGED <<cast, log, link, boot, periodic>>

-----------------------------------------------------------------------------
(* The monitor. *)

(* The event the subscription delivers next. *)
Pending == link.up /\ link.next <= Len(log)
Delivered == [link EXCEPT !.next = @ + 1]

(* onSocketClosed: the connection is gone, a reconnect is under way. *)
StreamDrops ==
    /\ link.up
    /\ spent.drops < MaxDrops
    /\ "drops" \in cast
    /\ link' = [link EXCEPT !.up = FALSE]
    /\ spent' = [spent EXCEPT !.drops = @ + 1]
    /\ UNCHANGED <<cast, child, log, boot, periodic>>

(* bootstrap after a drop: the snapshot is read before the subscription       *)
(* answers, and the retained log is replayed from some position.              *)
Resubscribe ==
    /\ ~link.up
    /\ boot = NoSnapshot
    /\ boot' = Snap(TRUE)
    /\ \E from \in 1..(Len(log) + 1) : 
         link' = [up |-> TRUE, next |-> from, degraded |-> FALSE]
    /\ UNCHANGED <<cast, child, log, periodic, spent>>

(* runPeriodicReconciliation: one read at a time. *)
PeriodicRead ==
    /\ "reads" \in cast
    /\ periodic = NoSnapshot
    /\ spent.reads < MaxReads
    /\ \E valid \in {TRUE} \cup {b \in {FALSE} : "glitches" \in cast /\ spent.glitches < MaxGlitches} :
         /\ periodic' = Snap(valid)
         /\ spent' = [spent EXCEPT !.reads = @ + 1,
                                   !.glitches = IF valid THEN @ ELSE @ + 1]
    /\ UNCHANGED <<cast, child, log, link, boot>>

=============================================================================
