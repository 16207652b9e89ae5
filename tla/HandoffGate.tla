------------------------------ MODULE HandoffGate ------------------------------
(***************************************************************************)
(* The managed-run completion gate (src/src/handoff-gate.ts) and the run's *)
(* sidecar it keeps (src/src/handoff.ts).  Every write of the sidecar is   *)
(* one read-modify-write under the run's flock, so one step; it may be     *)
(* lost, or land and still be reported as failed (its directory could not  *)
(* be synced).  The gate's own memory of the run, its mirror, is part of   *)
(* the supervisor's record (module Supervisor): open, life and accepted.   *)
(***************************************************************************)
EXTENDS Naturals

CONSTANTS
    Contents,           \* valid artifact contents the child may write
    BlockedContents,    \* the ones whose status is `blocked`
    MaxRepairs,         \* HANDOFF_MAX_REPAIR_ATTEMPTS
    MaxFaults,          \* bound: failing sidecar writes
    MaxWrites           \* bound: artifact files the child writes

ASSUME GateAssumption ==
    /\ BlockedContents \subseteq Contents
    /\ {"none", "missing", "invalid"} \cap Contents = {}
    /\ MaxRepairs \in Nat /\ MaxFaults \in Nat /\ MaxWrites \in Nat

VARIABLES
    sidecar,        \* the run's durable state
    artifact,       \* the artifact file as the child left it
    faults,         \* failing writes so far
    writes,         \* artifact files written so far
    since,          \* history: when the current acceptance was made
    handoffs,       \* history: acceptances that were recorded handed_off
    prompts         \* history: repair prompts sent for each artifact version

gateVars == <<sidecar, artifact, faults, writes, since, handoffs, prompts>>

Lives == {"awaiting_handoff", "handed_off", "cancelled", "failed", "recovery_pending"}
Details == {"none", "provider_limit", "cycle_reopened", "other"}
Versions == 0..MaxWrites
NoFence == MaxWrites + 1
When == [cycle: Nat, boot: Nat]

GateTypeOK ==
    /\ sidecar \in [life: Lives, detail: Details, sha: Contents \cup {"none"},
                    version: Versions, fence: Versions \cup {NoFence}, attempts: 0..MaxRepairs]
    /\ artifact \in Contents \cup {"missing", "invalid"}
    /\ faults \in 0..MaxFaults
    /\ writes \in 0..MaxWrites
    /\ since \in When
    /\ handoffs \subseteq [accepted: When, recorded: When]
    /\ prompts \in [Versions -> Nat]

GateInit ==
    /\ sidecar = [life |-> "awaiting_handoff", detail |-> "none", sha |-> "none",
                  version |-> 0, fence |-> NoFence, attempts |-> 0]
    /\ artifact = "missing"
    /\ faults = 0
    /\ writes = 0
    /\ since = [cycle |-> 0, boot |-> 0]
    /\ handoffs = {}
    /\ prompts = [v \in Versions |-> 0]

(* updateHandoffState: how a write of the new state turned out. *)
Commits(new, how) ==
    /\ how \in {"ok", "lost", "unsynced"}
    /\ how # "ok" => faults < MaxFaults
    /\ faults' = IF how = "ok" THEN faults ELSE faults + 1
    /\ sidecar' = IF how = "lost" THEN sidecar ELSE new

(* The child writes, or spoils, its artifact while it works. *)
ChildWrites ==
    /\ writes < MaxWrites
    /\ \E content \in (Contents \cup {"invalid"}) \ {artifact} : artifact' = content
    /\ writes' = writes + 1
    /\ UNCHANGED <<sidecar, faults, since, handoffs, prompts>>

(* validate's mutation: new content is a new version, and the acceptance      *)
(* belongs to the work cycle and the daemon that made it.                     *)
Accepting(content) ==
    IF sidecar.sha = content THEN sidecar
    ELSE [sidecar EXCEPT !.sha = content, !.version = @ + 1]

(* Mutant of IsStale: the open cycle is not looked at. *)
IsStaleNever(content, open) == FALSE

(* Content identical to the last acceptance is stale while a cycle is open. *)
IsStale(content, open) == sidecar.sha = content /\ open

(* handoffGateMatches for a terminal observation. *)
GateMatches(content, status) ==
    status \in {"idle", "done", "blocked"} /\ (status = "blocked" <=> content \in BlockedContents)

(* recordOutcome and markCycle. *)
WithOutcome(life, detail) == [sidecar EXCEPT !.life = life, !.detail = detail]
WithMark(detail) == [sidecar EXCEPT !.detail = detail]

(* Mutant of Fenceable: only the attempt bound is looked at. *)
FenceableAgain == sidecar.attempts < MaxRepairs

(* beginRepair: one fence for each artifact version, and a bound on them all. *)
Fenceable == sidecar.attempts < MaxRepairs /\ sidecar.fence # sidecar.version
WithFence ==
    IF Fenceable THEN [sidecar EXCEPT !.attempts = @ + 1, !.fence = sidecar.version] ELSE sidecar

=============================================================================
