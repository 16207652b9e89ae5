--------------------------- MODULE LaunchIntents ---------------------------
(***************************************************************************)
(* The durable launch-intent ledger of the daemon and the launch handler   *)
(* that drives it: src/daemon/intents.ts, src/daemon/handlers/launch.ts,   *)
(* the effect boundary of src/tools/launch.ts, and the restart sweep of    *)
(* src/daemon/main.ts and src/daemon/reattach.ts.                          *)
(*                                                                         *)
(* A binding is a (managerSessionKey, idempotencyKey) pair.  Its record is *)
(* created once and never removed, so it keeps one launchId for ever and   *)
(* the launchId comparison of `transition' never fails: a binding stands   *)
(* for its launchId.  A task stands for the pair (taskDigest, projectRoot) *)
(* that `begin' compares.  Every operation of the store reads and writes   *)
(* under the manager's flock and is one step; the awaits between them are  *)
(* where requests interleave and where the daemon may crash.               *)
(***************************************************************************)
EXTENDS Naturals, FiniteSets

CONSTANTS
    Bindings,     \* (managerSessionKey, idempotencyKey) pairs
    Tasks,        \* (taskDigest, projectRoot) pairs
    Requests,     \* launch and reconcile requests, each used once
    None,         \* no task, no request, no run
    MaxCrashes,   \* bound on daemon crashes
    MaxFaults     \* bound on faulty store writes

ASSUME NoneAssumption == None \notin Tasks /\ None \notin Requests

ASSUME BoundAssumption == MaxCrashes \in Nat /\ MaxFaults \in Nat

VARIABLES
    \* The daemon process.
    phase,        \* startup phase
    swept,        \* bindings this start's reattach sweep has passed
    inflight,     \* runtime.inflight: the request executing each binding
    \* The durable intent records.
    state,        \* lifecycle; "absent" until begin writes the record
    task,         \* the task the record binds
    child,        \* run recorded under each child name
    disp,         \* disposition recorded under each child name
    resolution,   \* why an unresolved record is unresolved
    reconciled,   \* completed through reconcile
    \* The requests.
    pc,           \* where each request is
    bind,         \* the binding a request names
    ask,          \* the task a launch request carries
    admitted,     \* requests that passed mailbox capacity admission
    prior,        \* the execution a waiting request awaits
    verdict,      \* how the launch pipeline of a request ended
    observed,     \* child names pushed by the intent allocator
    found,        \* dispositions a reconcile request computed
    relaunch,     \* the provider-limit relaunch of a request's child
    \* The world the launches act on.
    runs,         \* durable handoff runs, as <<request, child name>>
    agent,        \* the agent behind each run
    \* History and bounds.
    marker,       \* the request whose write made the record effecting
    crossed,      \* requests whose effect boundary let them through
    crashes, faults

proc    == <<phase, swept, inflight>>
record  == <<state, task, child, disp, resolution, reconciled>>
calls   == <<pc, bind, ask, admitted, prior, verdict, observed, found, relaunch>>
world   == <<runs, agent>>
history == <<marker, crossed, crashes, faults>>
vars    == <<proc, record, calls, world, history>>

(* LaunchIntentState, plus the record not existing. *)
States == {"absent", "recorded", "effecting", "completed", "failed", "unresolved"}

(* mintChildName gives the launch one child name; a provider-limit relaunch *)
(* mints a launch id, and so a child name, of its own.                      *)
Names == {"child", "relaunch"}

(* LaunchIntentChildDisposition; "none" while the child is unclassified. *)
Dispositions == {"none", "bound", "identity_lost", "ambiguous"}

Runs == Requests \X Names

(* A run's agent: not started, started with no identity in the sidecar,    *)
(* supervised under a recorded identity, or gone from the Herdr snapshot.  *)
AgentStates == {"none", "unbound", "live", "gone"}

Executing == {"routing", "effecting", "persisted", "launching", "started", "prompted", "settling", "settled"}
Places == {"idle", "peek", "begin", "begun", "waiting", "reconcile", "done", "lost"} \cup Executing

(* Every variable of the ledger, of the requests and of the world has its  *)
(* type; a request that has arrived names a binding.                       *)
TypeOK ==
    /\ phase \in {"down", "recovering", "sweeping", "serving"}
    /\ swept \subseteq Bindings
    /\ inflight \in [Bindings -> Requests \cup {None}]
    /\ state \in [Bindings -> States]
    /\ task \in [Bindings -> Tasks \cup {None}]
    /\ child \in [Bindings -> [Names -> Requests \cup {None}]]
    /\ disp \in [Bindings -> [Names -> Dispositions]]
    /\ resolution \in [Bindings -> {"none", "interrupted", "effect_uncertain"}]
    /\ reconciled \subseteq Bindings
    /\ pc \in [Requests -> Places]
    /\ bind \in [Requests -> Bindings \cup {None}]
    /\ \A r \in Requests : pc[r] # "idle" => bind[r] \in Bindings
    /\ \A r \in Requests : relaunch[r] # "no" => pc[r] # "idle"
    /\ ask \in [Requests -> Tasks \cup {None}]
    /\ admitted \subseteq Requests
    /\ prior \in [Requests -> Requests \cup {None}]
    /\ verdict \in [Requests -> {"none", "threw_absent", "threw_unknown", "failed", "launched"}]
    /\ observed \in [Requests -> SUBSET Names]
    /\ found \in [Requests -> [Names -> Dispositions]]
    /\ relaunch \in [Requests -> {"no", "armed", "persisted", "recorded", "refused"}]
    /\ runs \subseteq Runs
    /\ agent \in [Runs -> AgentStates]
    /\ marker \in [Bindings -> Requests \cup {None}]
    /\ crossed \subseteq Requests
    /\ crashes \in 0..MaxCrashes
    /\ faults \in 0..MaxFaults

NoChildren == [n \in Names |-> None]
NoDispositions == [n \in Names |-> "none"]

Init ==
    /\ phase = "serving"
    /\ swept = {}
    /\ inflight = [b \in Bindings |-> None]
    /\ state = [b \in Bindings |-> "absent"]
    /\ task = [b \in Bindings |-> None]
    /\ child = [b \in Bindings |-> NoChildren]
    /\ disp = [b \in Bindings |-> NoDispositions]
    /\ resolution = [b \in Bindings |-> "none"]
    /\ reconciled = {}
    /\ pc = [r \in Requests |-> "idle"]
    /\ bind = [r \in Requests |-> None]
    /\ ask = [r \in Requests |-> None]
    /\ admitted = {}
    /\ prior = [r \in Requests |-> None]
    /\ verdict = [r \in Requests |-> "none"]
    /\ observed = [r \in Requests |-> {}]
    /\ found = [r \in Requests |-> NoDispositions]
    /\ relaunch = [r \in Requests |-> "no"]
    /\ runs = {}
    /\ agent = [x \in Runs |-> "none"]
    /\ marker = [b \in Bindings |-> None]
    /\ crossed = {}
    /\ crashes = 0
    /\ faults = 0

-----------------------------------------------------------------------------
(* The store. *)

(* A write under the flock lands; or the flock wait, the staging or the    *)
(* rename fails and nothing changes; or the rename lands and the directory *)
(* fsync throws.  In the last two the operation throws to its caller.      *)
Writes == {"ok", "lost", "unsynced"}

Attempt(w) ==
    /\ w # "ok" => faults < MaxFaults
    /\ faults' = IF w = "ok" THEN faults ELSE faults + 1

Lands(w) == w # "lost"

(* Mutant of MarkExpect: a begun request may re-enter a crossed boundary. *)
MarkExpectReentrant == {"recorded", "effecting"}

(* Mutant of FailExpect: a late failure overwrites a completed record. *)
FailExpectAnySettled == {"recorded", "effecting", "completed"}

(* The states `transition' accepts for each operation. *)
MarkExpect     == {"recorded"}
ChildrenExpect == {"effecting"}
CompleteExpect == {"effecting"}
FailExpect     == {"recorded", "effecting"}

Kids(b) == {n \in Names : child[b][n] # None}

(* mergeChildren, for children that all belong to one request's runs: a    *)
(* later entry replaces the run, and the disposition when it carries one.  *)
MergeRuns(b, names, r) == [n \in Names |-> IF n \in names THEN r ELSE child[b][n]]
MergeDisp(b, d) == [n \in Names |-> IF d[n] # "none" THEN d[n] ELSE disp[b][n]]

(* The test of `fail': absent certainty and no recorded child. *)
ProvablyNothing(certainty, kids) == certainty = "absent" /\ kids = {}

(* The test of `reconcile': at least one child, all bound or provably absent. *)
AllAccounted(kids, d) == kids # {} /\ \A n \in kids : d[n] \in {"bound", "identity_lost"}

(* What the snapshot can say of a recorded child: a run without a recorded *)
(* identity is never classified, a failed bind is ambiguous, never absent. *)
Classify(a) ==
    CASE a = "live" -> {"bound", "ambiguous"}
      [] a = "gone" -> {"identity_lost", "ambiguous"}
      [] OTHER -> {"ambiguous"}

(* One classification of every child recorded under b. *)
Classification(b, d) ==
    \A n \in Names : IF n \in Kids(b) THEN d[n] \in Classify(agent[<<child[b][n], n>>])
                                      ELSE d[n] = "none"

(* IntentStore.reconcile, under the flock. *)
Reconcile(b, d) ==
    LET merged == MergeDisp(b, d)
    IN  /\ disp' = [disp EXCEPT ![b] = merged]
        /\ IF AllAccounted(Kids(b), merged)
              THEN /\ state' = [state EXCEPT ![b] = "completed"]
                   /\ reconciled' = reconciled \cup {b}
              ELSE UNCHANGED <<state, reconciled>>
        /\ UNCHANGED <<task, child, resolution>>

-----------------------------------------------------------------------------
(* A launch request up to its execution: handleDaemonLaunch. *)

Serving == phase = "serving"

(* The caller and its project root are verified; the request names b and t. *)
Arrive(r, b, t) ==
    /\ Serving
    /\ pc[r] = "idle"
    /\ pc' = [pc EXCEPT ![r] = "peek"]
    /\ bind' = [bind EXCEPT ![r] = b]
    /\ ask' = [ask EXCEPT ![r] = t]
    /\ UNCHANGED <<admitted, prior, verdict, observed, found, relaunch, proc, record, world, history>>

(* An unlocked read decides whether capacity admission applies. *)
WouldLaunch(r) ==
    \/ state[bind[r]] = "absent"
    \/ state[bind[r]] = "recorded" /\ task[bind[r]] = ask[r]

Peek(r) ==
    /\ Serving
    /\ pc[r] = "peek"
    /\ \/ /\ WouldLaunch(r)
          /\ admitted' = admitted \cup {r}
          /\ pc' = [pc EXCEPT ![r] = "begin"]
       \/ /\ pc' = [pc EXCEPT ![r] = "done"]   \* MAILBOX_FULL, or a record that cannot be read
          /\ UNCHANGED admitted
       \/ /\ ~WouldLaunch(r)
          /\ pc' = [pc EXCEPT ![r] = "begin"]
          /\ UNCHANGED admitted
    /\ UNCHANGED <<bind, ask, prior, verdict, observed, found, relaunch, proc, record, world, history>>

(* begin on an absent record writes it `recorded' before any effect. *)
BeginNew(r, w) ==
    LET b == bind[r]
    IN  /\ Serving
        /\ pc[r] = "begin"
        /\ state[b] = "absent"
        /\ Attempt(w)
        /\ IF Lands(w)
              THEN /\ state' = [state EXCEPT ![b] = "recorded"]
                   /\ task' = [task EXCEPT ![b] = ask[r]]
              ELSE UNCHANGED <<state, task>>
        /\ pc' = [pc EXCEPT ![r] = IF w = "ok" THEN "begun" ELSE "done"]
        /\ UNCHANGED <<child, disp, resolution, reconciled, bind, ask, admitted, prior, verdict,
                       observed, found, relaunch, proc, world, marker, crossed, crashes>>

(* Mutant of Resumes: the digest and root comparison is dropped. *)
ResumesAnyTask(r) == state[bind[r]] = "recorded"

(* begin on an existing record: only the same task on a still `recorded'   *)
(* record owns the effect; everything else is answered with no effect.     *)
Resumes(r) == task[bind[r]] = ask[r] /\ state[bind[r]] = "recorded"

BeginExisting(r, w) ==
    /\ Serving
    /\ pc[r] = "begin"
    /\ state[bind[r]] # "absent"
    /\ w \in {"ok", "lost"}
    /\ Attempt(w)
    /\ pc' = [pc EXCEPT ![r] = IF w = "ok" /\ Resumes(r) THEN "begun" ELSE "done"]
    /\ UNCHANGED <<bind, ask, admitted, prior, verdict, observed, found, relaunch,
                   proc, record, world, marker, crossed, crashes>>

(* Mutant of Enter: the inflight map is set without being looked at. *)
EnterUnchecked(r) ==
    LET b == bind[r]
    IN  /\ Serving
        /\ pc[r] = "begun"
        /\ inflight' = [inflight EXCEPT ![b] = r]
        /\ pc' = [pc EXCEPT ![r] = "routing"]
        /\ UNCHANGED <<phase, swept, bind, ask, admitted, prior, verdict, observed, found, relaunch,
                       record, world, history>>

(* The synchronous check and set of runtime.inflight. *)
Enter(r) ==
    LET b == bind[r]
    IN  /\ Serving
        /\ pc[r] = "begun"
        /\ inflight[b] = None
        /\ inflight' = [inflight EXCEPT ![b] = r]
        /\ pc' = [pc EXCEPT ![r] = "routing"]
        /\ UNCHANGED <<phase, swept, bind, ask, admitted, prior, verdict, observed, found, relaunch,
                       record, world, history>>

AwaitPrior(r) ==
    /\ Serving
    /\ pc[r] = "begun"
    /\ inflight[bind[r]] # None
    /\ prior' = [prior EXCEPT ![r] = inflight[bind[r]]]
    /\ pc' = [pc EXCEPT ![r] = "waiting"]
    /\ UNCHANGED <<bind, ask, admitted, verdict, observed, found, relaunch, proc, record, world, history>>

(* The awaited execution has settled: begin again. *)
Wake(r) ==
    /\ Serving
    /\ pc[r] = "waiting"
    /\ pc[prior[r]] \in {"settled", "done"}
    /\ prior' = [prior EXCEPT ![r] = None]
    /\ pc' = [pc EXCEPT ![r] = "begin"]
    /\ UNCHANGED <<bind, ask, admitted, verdict, observed, found, relaunch, proc, record, world, history>>

-----------------------------------------------------------------------------
(* One execution: executeDaemonLaunch around the launch pipeline. *)

End(r, v) ==
    /\ pc' = [pc EXCEPT ![r] = "settling"]
    /\ verdict' = [verdict EXCEPT ![r] = v]

(* Validation, the freeze gate or routing throws before the boundary.  A   *)
(* LAUNCH_FROZEN carries no certainty of its own and reads as unknown.     *)
PipelineThrows(r, v) ==
    /\ Serving
    /\ pc[r] = "routing"
    /\ v \in {"threw_absent", "threw_unknown"}
    /\ End(r, v)
    /\ UNCHANGED <<bind, ask, admitted, prior, observed, found, relaunch, proc, record, world, history>>

(* beforeFirstEffect: markEffecting.  A throw of the hook, a conflict or a *)
(* faulty write alike, ends the pipeline with LAUNCH_INTENT_REFUSED.       *)
MarkEffecting(r, w) ==
    LET b  == bind[r]
        ok == state[b] \in MarkExpect
    IN  /\ Serving
        /\ pc[r] = "routing"
        /\ Attempt(w)
        /\ IF ok /\ Lands(w)
              THEN /\ state' = [state EXCEPT ![b] = "effecting"]
                   /\ marker' = [marker EXCEPT ![b] = r]
              ELSE UNCHANGED <<state, marker>>
        /\ IF ok /\ w = "ok"
              THEN /\ pc' = [pc EXCEPT ![r] = "effecting"]
                   /\ crossed' = crossed \cup {r}
                   /\ UNCHANGED verdict
              ELSE /\ End(r, "failed")
                   /\ UNCHANGED crossed
        /\ UNCHANGED <<task, child, disp, resolution, reconciled, bind, ask, admitted, prior, observed,
                       found, relaunch, proc, world, crashes>>

(* The decision is logged; then the task is not admitted (abstained), or   *)
(* the log, the gate, the compilation or the persist fails.                *)
EndsBeforeRun(r, v) ==
    /\ Serving
    /\ pc[r] = "effecting"
    /\ v \in {"failed", "launched"}
    /\ End(r, v)
    /\ UNCHANGED <<bind, ask, admitted, prior, observed, found, relaunch, proc, record, world, history>>

(* Mutant of Persist: the run is recorded but never pushed to `children'. *)
PersistUnobserved(r) ==
    /\ Serving
    /\ pc[r] = "effecting"
    /\ runs' = runs \cup {<<r, "child">>}
    /\ pc' = [pc EXCEPT ![r] = "persisted"]
    /\ UNCHANGED <<agent, bind, ask, admitted, prior, verdict, observed, found, relaunch, proc, record, history>>

(* intentAllocator.persist: the run is durable, then it is observed. *)
Persist(r) ==
    /\ Serving
    /\ pc[r] = "effecting"
    /\ runs' = runs \cup {<<r, "child">>}
    /\ observed' = [observed EXCEPT ![r] = @ \cup {"child"}]
    /\ pc' = [pc EXCEPT ![r] = "persisted"]
    /\ UNCHANGED <<agent, bind, ask, admitted, prior, verdict, found, relaunch, proc, record, history>>

(* ... then recorded in the intent; a failed record fails the child closed. *)
RecordChildren(r, w) ==
    LET b  == bind[r]
        ok == state[b] \in ChildrenExpect
    IN  /\ Serving
        /\ pc[r] = "persisted"
        /\ Attempt(w)
        /\ child' = IF ok /\ Lands(w) THEN [child EXCEPT ![b] = MergeRuns(b, {"child"}, r)] ELSE child
        /\ IF ok /\ w = "ok"
              THEN pc' = [pc EXCEPT ![r] = "launching"] /\ UNCHANGED verdict
              ELSE End(r, "failed")
        /\ UNCHANGED <<state, task, disp, resolution, reconciled, bind, ask, admitted, prior, observed,
                       found, relaunch, proc, world, marker, crossed, crashes>>

(* Placement and agent start; the agent has no recorded identity yet. *)
StartAgent(r) ==
    /\ Serving
    /\ pc[r] = "launching"
    /\ agent' = [agent EXCEPT ![<<r, "child">>] = "unbound"]
    /\ pc' = [pc EXCEPT ![r] = "started"]
    /\ UNCHANGED <<runs, bind, ask, admitted, prior, verdict, observed, found, relaunch, proc, record, history>>

(* Readiness, the supervision bind that records the identity, the          *)
(* completion-signal registration, and the prompt.                         *)
BindAndPrompt(r) ==
    /\ Serving
    /\ pc[r] = "started"
    /\ agent' = [agent EXCEPT ![<<r, "child">>] = "live"]
    /\ relaunch' = [relaunch EXCEPT ![r] = "armed"]
    /\ pc' = [pc EXCEPT ![r] = "prompted"]
    /\ UNCHANGED <<runs, bind, ask, admitted, prior, verdict, observed, found, proc, record, history>>

(* The pipeline's result: the child launched, or it failed on the way. *)
PipelineEnds(r, v) ==
    /\ Serving
    /\ \/ pc[r] \in {"launching", "started", "prompted"} /\ v = "failed"
       \/ pc[r] = "prompted" /\ v = "launched"
    /\ End(r, v)
    /\ UNCHANGED <<bind, ask, admitted, prior, observed, found, relaunch, proc, record, world, history>>

(* Mutant of SettleDisp: the launch outcome is stored as the disposition. *)
SettleOutcomes(r) ==
    [n \in Names |-> IF n = "child" /\ n \in observed[r] THEN verdict[r] ELSE "none"]

(* settleChildren: `bound' for a launched child, `ambiguous' for a failed  *)
(* one; a relaunched child is not in the launch's result.                  *)
SettleDisp(r) ==
    [n \in Names |->
        IF n = "child" /\ n \in observed[r]
           THEN IF verdict[r] = "launched" THEN "bound" ELSE "ambiguous"
           ELSE "none"]
(* The certainty handed to `fail': what a throw carried, else `absent'     *)
(* only when no run was observed.                                          *)
Certainty(r) ==
    CASE verdict[r] = "threw_absent" -> "absent"
      [] verdict[r] = "threw_unknown" -> "unknown"
      [] OTHER -> IF observed[r] = {} THEN "absent" ELSE "partial"

(* The state `complete' or `fail' would write. *)
SettleState(r) ==
    IF verdict[r] = "launched" THEN "completed"
    ELSE IF ProvablyNothing(Certainty(r), Kids(bind[r]) \cup observed[r]) THEN "failed"
    ELSE "unresolved"

SettleExpect(r) == IF verdict[r] = "launched" THEN CompleteExpect ELSE FailExpect

(* complete or fail; a conflict or a fault throws to the caller and leaves *)
(* the record as it was.                                                   *)
Settle(r, w) ==
    LET b == bind[r]
    IN  /\ Serving
        /\ pc[r] = "settling"
        /\ Attempt(w)
        /\ IF state[b] \in SettleExpect(r) /\ Lands(w)
              THEN /\ state' = [state EXCEPT ![b] = SettleState(r)]
                   /\ child' = [child EXCEPT ![b] = MergeRuns(b, observed[r], r)]
                   /\ disp' = [disp EXCEPT ![b] = MergeDisp(b, SettleDisp(r))]
                   /\ resolution' = IF SettleState(r) = "unresolved"
                                       THEN [resolution EXCEPT ![b] = "effect_uncertain"] ELSE resolution
              ELSE UNCHANGED <<state, child, disp, resolution>>
        /\ pc' = [pc EXCEPT ![r] = "settled"]
        /\ UNCHANGED <<task, reconciled, bind, ask, admitted, prior, verdict, observed, found, relaunch,
                       proc, world, marker, crossed, crashes>>

(* Mutant of Finish: the inflight entry survives its execution. *)
FinishKeepsFlight(r) ==
    /\ Serving
    /\ pc[r] = "settled"
    /\ pc' = [pc EXCEPT ![r] = "done"]
    /\ UNCHANGED <<bind, ask, admitted, prior, verdict, observed, found, relaunch,
                   proc, record, world, history>>

(* The reply or the throw: the finally clause drops the inflight entry. *)
Finish(r) ==
    /\ Serving
    /\ pc[r] = "settled"
    /\ inflight' = [inflight EXCEPT ![bind[r]] = None]
    /\ pc' = [pc EXCEPT ![r] = "done"]
    /\ UNCHANGED <<phase, swept, bind, ask, admitted, prior, verdict, observed, found, relaunch,
                   record, world, history>>

-----------------------------------------------------------------------------
(* The provider-limit relaunch of a launched child: providerLimitRecovery. *)

(* The dead pane is closed, and the relaunch persists its own run through  *)
(* the same intent allocator.  It may come before or after the settle; the *)
(* settle works on the children observed when the pipeline ended.          *)
RelaunchPersist(r) ==
    /\ Serving
    /\ relaunch[r] = "armed"
    /\ agent' = [agent EXCEPT ![<<r, "child">>] = "gone"]
    /\ runs' = runs \cup {<<r, "relaunch">>}
    /\ observed' = IF pc[r] = "prompted" THEN [observed EXCEPT ![r] = @ \cup {"relaunch"}] ELSE observed
    /\ relaunch' = [relaunch EXCEPT ![r] = "persisted"]
    /\ UNCHANGED <<pc, bind, ask, admitted, prior, verdict, found, proc, record, history>>

RelaunchRecord(r, w) ==
    LET b  == bind[r]
        ok == state[b] \in ChildrenExpect
    IN  /\ Serving
        /\ relaunch[r] = "persisted"
        /\ Attempt(w)
        /\ child' = IF ok /\ Lands(w) THEN [child EXCEPT ![b] = MergeRuns(b, {"relaunch"}, r)] ELSE child
        /\ IF ok /\ w = "ok"
              THEN /\ relaunch' = [relaunch EXCEPT ![r] = "recorded"]
                   /\ \E a \in {"none", "live"} : agent' = [agent EXCEPT ![<<r, "relaunch">>] = a]
              ELSE /\ relaunch' = [relaunch EXCEPT ![r] = "refused"]
                   /\ UNCHANGED agent
        /\ UNCHANGED <<state, task, disp, resolution, reconciled, pc, bind, ask, admitted, prior, verdict,
                       observed, found, runs, proc, marker, crossed, crashes>>

(* An agent leaves the Herdr snapshot. *)
AgentExits(x) ==
    /\ agent[x] = "live"
    /\ agent' = [agent EXCEPT ![x] = "gone"]
    /\ UNCHANGED <<runs, proc, record, calls, history>>

-----------------------------------------------------------------------------
(* The reconcile request: reconcileRun and ownership.reconcile. *)

(* The record is read without the flock and its children are classified    *)
(* against one snapshot; a settled record is returned unchanged.           *)
ReconcileRead(r, b, d) ==
    /\ Serving
    /\ pc[r] = "idle"
    /\ state[b] # "absent"
    /\ bind' = [bind EXCEPT ![r] = b]
    /\ Classification(b, d)
    /\ IF state[b] = "unresolved"
          THEN /\ found' = [found EXCEPT ![r] = d]
               /\ pc' = [pc EXCEPT ![r] = "reconcile"]
          ELSE /\ pc' = [pc EXCEPT ![r] = "done"]
               /\ UNCHANGED found
    /\ UNCHANGED <<ask, admitted, prior, verdict, observed, relaunch, proc, record, world, history>>

ReconcileWrite(r, w) ==
    LET b == bind[r]
    IN  /\ Serving
        /\ pc[r] = "reconcile"
        /\ Attempt(w)
        /\ IF state[b] = "unresolved" /\ Lands(w) THEN Reconcile(b, found[r]) ELSE UNCHANGED record
        /\ pc' = [pc EXCEPT ![r] = "done"]
        /\ UNCHANGED <<bind, ask, admitted, prior, verdict, observed, found, relaunch,
                       proc, world, marker, crossed, crashes>>

-----------------------------------------------------------------------------
(* Crash and restart: startDaemon. *)

(* Every request in flight, the inflight map and the completion signals    *)
(* die with the process; the records, the runs and the agents stay.        *)
Crash ==
    /\ phase # "down"
    /\ crashes < MaxCrashes
    /\ crashes' = crashes + 1
    /\ phase' = "down"
    /\ swept' = {}
    /\ inflight' = [b \in Bindings |-> None]
    /\ pc' = [r \in Requests |-> IF pc[r] \in {"idle", "done"} THEN pc[r] ELSE "lost"]
    /\ prior' = [r \in Requests |-> None]
    /\ verdict' = [r \in Requests |-> "none"]
    /\ observed' = [r \in Requests |-> {}]
    /\ found' = [r \in Requests |-> NoDispositions]
    /\ relaunch' = [r \in Requests |-> IF relaunch[r] \in {"armed", "persisted"} THEN "no" ELSE relaunch[r]]
    /\ UNCHANGED <<record, bind, ask, admitted, world, marker, crossed, faults>>

StartDaemon ==
    /\ phase = "down"
    /\ phase' = "recovering"
    /\ UNCHANGED <<swept, inflight, record, calls, world, history>>

(* Mutant of Interrupted: records that already have children are passed over. *)
InterruptedChildless(b) == state[b] = "effecting" /\ Kids(b) = {}

(* recoverInterrupted rewrites each effecting record; a failure refuses    *)
(* the start and releases the instance lock.                               *)
Interrupted(b) == state[b] = "effecting"

RecoverInterrupted(b, w) ==
    /\ phase = "recovering"
    /\ Interrupted(b)
    /\ Attempt(w)
    /\ IF Lands(w)
          THEN /\ state' = [state EXCEPT ![b] = "unresolved"]
               /\ resolution' = [resolution EXCEPT ![b] = "interrupted"]
          ELSE UNCHANGED <<state, resolution>>
    /\ phase' = IF w = "ok" THEN phase ELSE "down"
    /\ UNCHANGED <<task, child, disp, reconciled, swept, inflight, calls, world, marker, crossed, crashes>>

RecoveryDone ==
    /\ phase = "recovering"
    /\ \A b \in Bindings : ~Interrupted(b)
    /\ phase' = "sweeping"
    /\ UNCHANGED <<swept, inflight, record, calls, world, history>>

(* What the sweep hands to reconcile for a recorded child: its verdict on  *)
(* a run with an identity, or, for a run it skipped, the disposition the   *)
(* record already carries.                                                 *)
SweepFinds(b, n) ==
    LET a == agent[<<child[b][n], n>>]
    IN  (IF a \in {"live", "gone"} THEN Classify(a) ELSE {}) \cup ({disp[b][n]} \ {"none"})

(* reattachDaemonRuns: an unresolved intent whose children all carry a     *)
(* disposition is reconciled; a failed reconcile is logged and passed over. *)
SweepIntent(b, w, d) ==
    /\ phase = "sweeping"
    /\ b \notin swept
    /\ state[b] = "unresolved"
    /\ \A n \in Names : IF n \in Kids(b) THEN d[n] \in SweepFinds(b, n) ELSE d[n] = "none"
    /\ Attempt(w)
    /\ IF Lands(w) THEN Reconcile(b, d) ELSE UNCHANGED record
    /\ swept' = swept \cup {b}
    /\ UNCHANGED <<phase, inflight, calls, world, marker, crossed, crashes>>

SweepSkips(b) ==
    /\ phase = "sweeping"
    /\ b \notin swept
    /\ swept' = swept \cup {b}
    /\ UNCHANGED <<phase, inflight, record, calls, world, history>>

(* The socket is bound last. *)
Serve ==
    /\ phase = "sweeping"
    /\ swept = Bindings
    /\ phase' = "serving"
    /\ swept' = {}
    /\ UNCHANGED <<inflight, record, calls, world, history>>

-----------------------------------------------------------------------------
(* What the daemon does for a request once it has arrived. *)
Step(r) ==
    \/ Peek(r) \/ Enter(r) \/ AwaitPrior(r) \/ Wake(r)
    \/ \E w \in Writes : BeginNew(r, w) \/ BeginExisting(r, w)
    \/ \E v \in {"threw_absent", "threw_unknown"} : PipelineThrows(r, v)
    \/ \E v \in {"failed", "launched"} : EndsBeforeRun(r, v) \/ PipelineEnds(r, v)
    \/ \E w \in Writes : MarkEffecting(r, w) \/ RecordChildren(r, w) \/ Settle(r, w)
    \/ Persist(r) \/ StartAgent(r) \/ BindAndPrompt(r) \/ Finish(r)
    \/ \E w \in Writes : ReconcileWrite(r, w)

Restart ==
    \/ StartDaemon \/ RecoveryDone \/ Serve
    \/ \E b \in Bindings, w \in Writes : RecoverInterrupted(b, w)
    \/ \E b \in Bindings : SweepSkips(b)
    \/ \E b \in Bindings, w \in Writes, d \in [Names -> Dispositions] : SweepIntent(b, w, d)

Next ==
    \/ \E r \in Requests, b \in Bindings, t \in Tasks : Arrive(r, b, t)
    \/ \E r \in Requests, b \in Bindings, d \in [Names -> Dispositions] : ReconcileRead(r, b, d)
    \/ \E r \in Requests : Step(r)
    \/ \E r \in Requests : RelaunchPersist(r)
    \/ \E r \in Requests, w \in Writes : RelaunchRecord(r, w)
    \/ \E x \in Runs : AgentExits(x)
    \/ Crash
    \/ Restart

Spec == Init /\ [][Next]_vars

(* The event loop runs every request it has accepted: each await in the    *)
(* handler is bounded (flock waits, CLI and routing time-outs), so no      *)
(* request is left standing; systemd restarts a daemon that failed.        *)
Fairness == (\A r \in Requests : WF_vars(Step(r))) /\ WF_vars(Restart)

FairSpec == Spec /\ Fairness

-----------------------------------------------------------------------------
(* An execution of b: a request between the inflight set and its delete. *)
Executes(r, b) == bind[r] = b /\ pc[r] \in Executing

(* At most once.  The durable effects of a binding are produced by one     *)
(* request only, across concurrent requests, retries and restarts: no two  *)
(* requests on one key get past the beforeFirstEffect boundary.            *)
AtMostOnce ==
    \A r1, r2 \in crossed : bind[r1] = bind[r2] => r1 = r2

(* runtime.inflight serializes the executors of a binding: two requests    *)
(* that both began on a `recorded' record never run the pipeline at once.  *)
SingleFlight ==
    \A r1, r2 \in Requests : \A b \in Bindings :
        Executes(r1, b) /\ Executes(r2, b) => r1 = r2

(* A record settles `failed' only if no child effect exists, and           *)
(* `completed' only with every run its launch persisted on record; what    *)
(* the store cannot account for stays unresolved.                          *)
SettledAccountsForRuns ==
    \A r \in Requests :
        <<r, "child">> \in runs /\ state[bind[r]] \in {"completed", "failed"}
            => child[bind[r]]["child"] = r

(* A key executes only the task it was first bound to: a request carrying  *)
(* another digest or project root never reaches an effect.                 *)
OnlyTheBoundTask ==
    \A r \in crossed : ask[r] = task[bind[r]]

(* No launch effect without mailbox capacity admission, although the peek  *)
(* that decides on admission is not under the flock begin runs under.      *)
AdmittedBeforeEffect ==
    \A r \in Requests : pc[r] \in Executing => r \in admitted

(* Once a start has swept, an effecting record is one this process made so *)
(* itself: no request is answered from an effect that died with a crash.   *)
EffectingIsThisProcess ==
    \A b \in Bindings :
        phase \in {"sweeping", "serving"} /\ state[b] = "effecting"
            => marker[b] # None /\ pc[marker[b]] # "lost"

(* reconcile closes an intent only when every recorded child was seen live *)
(* under its recorded identity or gone; a child that never got an identity *)
(* keeps the intent unresolved.                                            *)
ReconciledIsAccounted ==
    \A b \in reconciled :
        /\ Kids(b) # {}
        /\ \A n \in Kids(b) : agent[<<child[b][n], n>>] \in {"live", "gone"}

(* What the ledger says of a binding accounts for every child that exists  *)
(* under it: as settled by its own execution, and as closed by reconcile.  *)
VerdictsAreAccounted == SettledAccountsForRuns /\ ReconciledIsAccounted

(* Where a record in state s may go in one step. *)
Onward(s) ==
    CASE s = "absent" -> {"absent", "recorded"}
      [] s = "recorded" -> {"recorded", "effecting", "failed", "unresolved"}
      [] s = "effecting" -> {"effecting", "completed", "failed", "unresolved"}
      [] s = "unresolved" -> {"unresolved", "completed"}
      [] OTHER -> {s}

(* The lifecycle only moves forward: completed and failed are final,       *)
(* unresolved leaves only through reconcile, and nothing returns to a      *)
(* state in which begin would launch again.                                *)
LifecycleMovesOnward ==
    [][\A b \in Bindings : state'[b] \in Onward(state[b])]_vars

(* The ledger seen by a caller: the request that crossed the boundary, the *)
(* keys whose launch persisted a run, and the outcome on record.           *)
EffectorOf(b) ==
    LET through == {r \in crossed : bind[r] = b}
    IN  IF through = {} THEN None ELSE CHOOSE r \in through : TRUE
MadeFor == {bind[x[1]] : x \in {y \in runs : y[2] = "child"}}
OutcomeOf(s) == IF s \in {"absent", "recorded", "effecting"} THEN "open" ELSE s

Contract == INSTANCE LaunchContract
            WITH bound <- task, effector <- [b \in Bindings |-> EffectorOf(b)], asked <- ask,
                 made <- MadeFor, outcome <- [b \in Bindings |-> OutcomeOf(state[b])]

(* The store, its handler and the restart sweep together implement the     *)
(* contract of an idempotency key: one task, one effecting request, no run *)
(* after the outcome, and an outcome that is honest and final.             *)
ImplementsContract == Contract!Spec

(* Every accepted request is answered, unless the daemon dies under it: a  *)
(* request that waits for another execution never waits or loops for ever. *)
RequestsAreAnswered ==
    \A r \in Requests : pc[r] # "idle" ~> pc[r] \in {"done", "lost"}

(* What launch.ts says of a provider-limit relaunch: the caller's intent   *)
(* boundary does not apply to it, so the intent never refuses it.          *)
RelaunchIsOutsideTheIntent ==
    \A r \in Requests : relaunch[r] # "refused"

-----------------------------------------------------------------------------
(* The inductive strengthening: what makes the properties above hold in    *)
(* every step, whatever the order of the requests.                         *)

(* The inflight entry of a binding is its one executor. *)
FlightIsTheExecutor ==
    \A r \in Requests : pc[r] \in Executing => inflight[bind[r]] = r

(* A request that begin let through is admitted, on a record of its task. *)
BegunIsBound ==
    \A r \in Requests :
        pc[r] \in {"begun", "waiting"} \cup Executing
            => /\ r \in admitted
               /\ state[bind[r]] # "absent"
               /\ task[bind[r]] = ask[r]

(* The peek that found nothing to launch stays right until begin. *)
PeekStaysRight ==
    \A r \in Requests : pc[r] = "begin" /\ r \notin admitted => ~WouldLaunch(r)

(* The record of a crossing left `recorded' for good. *)
CrossingIsRecorded ==
    \A r \in crossed : /\ pc[r] # "idle"
                       /\ state[bind[r]] \notin {"absent", "recorded"}

LedgerInv ==
    /\ TypeOK
    /\ AtMostOnce
    /\ OnlyTheBoundTask
    /\ EffectingIsThisProcess
    /\ FlightIsTheExecutor
    /\ BegunIsBound
    /\ PeekStaysRight
    /\ CrossingIsRecorded

=============================================================================
