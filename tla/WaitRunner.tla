------------------------------ MODULE WaitRunner -------------------------------
(***************************************************************************)
(* The runner of a wait job (src/src/tools/wait.ts, runPreparedWait) over  *)
(* the registry of module JobRegistry.  A wait pins the occupant of every  *)
(* target pane when it is prepared, then reads all targets concurrently,   *)
(* pass after pass, until its condition holds, its deadline passes, a      *)
(* target cannot be read or a reviewer asks for the manager.  Panes change *)
(* occupant and state at any time, the gate of the job closes at any time, *)
(* and a pass that ends early leaves reads in flight behind it.            *)
(*                                                                         *)
(* One read of a pane and one of its agent that must name the same         *)
(* occupant are one step: occupants are never reused, so the later of the  *)
(* two decides.  "met" stands for a pane state or a screen the condition   *)
(* accepts, "absent" for a pane whose agent is gone.                       *)
(***************************************************************************)
EXTENDS JobRegistry

CONSTANTS
    Targets,        \* the target panes of a wait
    GatedTargets,   \* the targets bound to a managed run, completed by an artifact
    MaxOccupants,   \* bound: how many agents occupy a pane one after another
    MaxChanges      \* bound: changes of panes and artifacts while a wait runs

ASSUME WaitAssumption ==
    /\ IsFiniteSet(Targets)
    /\ GatedTargets \subseteq Targets
    /\ MaxOccupants \in Nat
    /\ MaxChanges \in Nat

VARIABLES
    pane,           \* the world: occupant and state of each target pane
    changes,        \* how often the world changed
    artifact,       \* targets whose current-cycle handoff artifact validates
    wait,           \* the runner of each wait
    past,           \* waits whose deadline passed
    hit,            \* history: targets whose pinned occupant met the condition in time
    vouched         \* history: targets whose artifact validated during the wait

waitVars == <<pane, changes, artifact, wait, past, hit, vouched>>
vars == <<regVars, waitVars>>

Stages_ == {"idle", "prepared", "poll", "await", "sleep", "context", "recheck", "review",
            "after", "confirm", "confirm_await", "over"}

(* A target's part of a pass.  "event" is a native wait_matched event not yet *)
(* verified, "screen_met" a screen whose closing identity read is still due,   *)
(* "seen" a satisfying observation not yet gated, "moved" the same of an agent *)
(* working again.                                                             *)
(* guardedCall holds an activity of the job for the guarded ones.             *)
Finished == {"matched", "working", "other", "error", "covered", "fine", "hard", "unsure"}
Guarded == {"started", "event", "screen_met", "screen_unmet"}
InFlight == Guarded \cup {"seen", "moved"}

Observations == Finished \cup InFlight \cup {"none"}

PaneStates == [occ: 0..MaxOccupants, state: {"working", "met", "absent"}]

WaitStates ==
    [stage: Stages_, kind: {"state", "output"}, match: {"any", "all"},
     pin: [Targets -> 0..MaxOccupants], obs: [Targets -> Observations],
     due: BOOLEAN, doubt: SUBSET Targets, hard: BOOLEAN, matched: SUBSET Targets]

WaitTypeOK ==
    /\ pane \in [Targets -> PaneStates]
    /\ changes \in 0..MaxChanges
    /\ artifact \subseteq Targets
    /\ wait \in [Waits -> WaitStates]
    /\ past \subseteq Waits
    /\ hit \in [Waits -> SUBSET Targets]
    /\ vouched \in [Waits -> SUBSET Targets]

(* The reads that hold an activity of the job. *)
GuardedReads(obs) == {t \in Targets : obs[t] \in Guarded}

(* The reads a runner left behind still hold their activity, so the count of  *)
(* a job is that of its reads in flight even when the job is over.            *)
TypeOK ==
    /\ RegTypeOK
    /\ WaitTypeOK
    /\ \A w \in Waits : rec[w].acts = Cardinality(GuardedReads(wait[w].obs))

NoObs == [t \in Targets |-> "none"]

Init ==
    /\ RegInit
    /\ pane \in [Targets -> [occ: {0}, state: {"working", "met"}]]
    /\ changes = 0
    /\ artifact \in SUBSET GatedTargets
    /\ wait = [w \in Waits |-> [stage |-> "idle", kind |-> "state", match |-> "any",
                                pin |-> [t \in Targets |-> 0], obs |-> NoObs, due |-> FALSE,
                                doubt |-> {}, hard |-> FALSE, matched |-> {}]]
    /\ past = {}
    /\ hit = [w \in Waits |-> {}]
    /\ vouched = [w \in Waits |-> {}]

-----------------------------------------------------------------------------
(* The panes, the artifacts, the supervisors and the clock. *)

(* History: what has been true of the pinned occupants so far, in time. *)
Witness(panes, artifacts) ==
    /\ hit' = [w \in Waits |->
                 IF w \in past \/ wait[w].stage = "idle" THEN hit[w]
                 ELSE hit[w] \cup {t \in Targets : /\ panes[t].state = "met"
                                                  /\ panes[t].occ = wait[w].pin[t]}]
    /\ vouched' = [w \in Waits |-> vouched[w] \cup artifacts]

(* Panes change while a wait can still use what it reads of them. *)
Watched == \E w \in Waits \ past :
             wait[w].stage = "prepared" \/ (rec[w].gate /\ wait[w].stage # "idle")

WorldChanges ==
    /\ Watched
    /\ changes < MaxChanges
    /\ changes' = changes + 1

PaneChanges(t, next) ==
    /\ WorldChanges
    /\ pane[t] # next
    /\ pane' = [pane EXCEPT ![t] = next]
    /\ Witness(pane', artifact)
    /\ UNCHANGED <<regVars, artifact, wait, past>>

(* The occupant works, finishes or exits. *)
AgentMoves(t) ==
    \E s \in {"working", "met", "absent"} :
        /\ pane[t].state # "absent"
        /\ PaneChanges(t, [pane[t] EXCEPT !.state = s])

(* Another agent takes the pane; an identity never comes back. *)
OccupantReplaced(t) ==
    \E s \in {"working", "met"} :
        /\ pane[t].occ < MaxOccupants
        /\ PaneChanges(t, [occ |-> pane[t].occ + 1, state |-> s])

(* A managed child writes its artifact, or works again and makes it stale. *)
ArtifactChanges(t) ==
    /\ WorldChanges
    /\ t \in GatedTargets
    /\ artifact' = IF t \in artifact THEN artifact \ {t} ELSE artifact \cup {t}
    /\ Witness(pane, artifact')
    /\ UNCHANGED <<regVars, pane, wait, past>>

DeadlinePasses(w) ==
    /\ runner[w] = "live"
    /\ rec[w].gate
    /\ w \notin past
    /\ past' = past \cup {w}
    /\ UNCHANGED <<regVars, pane, changes, artifact, wait, hit, vouched>>

-----------------------------------------------------------------------------
(* prepareWait and the tool. *)

(* The generation is captured first; the targets are resolved and pinned on   *)
(* the far side of several awaits.                                            *)
AskWait(w) == CaptureGeneration(w) /\ UNCHANGED waitVars

PrepareWait(w) ==
    /\ asked[w] # NoGeneration
    /\ wait[w].stage = "idle"
    /\ \A t \in Targets : pane[t].state # "absent"
    /\ \E kind \in {"state", "output"}, match \in {"any", "all"} :
         wait' = [wait EXCEPT ![w] = [wait[w] EXCEPT !.stage = "prepared", !.kind = kind,
                                                     !.match = match,
                                                     !.pin = [t \in Targets |-> pane[t].occ]]]
    /\ hit' = [hit EXCEPT ![w] = {t \in Targets : pane[t].state = "met"}]
    /\ vouched' = [vouched EXCEPT ![w] = artifact]
    /\ UNCHANGED <<regVars, pane, changes, artifact, past>>

(* Invalid input or settings, an unresolved target or identity, an abort: the *)
(* tool call ends with nothing registered.                                    *)
PrepareFails(w) ==
    /\ asked[w] # NoGeneration
    /\ wait[w].stage = "idle"
    /\ asked' = [asked EXCEPT ![w] = NoGeneration]
    /\ UNCHANGED <<session, rec, runner, answer, port, prep, retired, call, told, posted, waitVars>>

RegisterWait(w) == wait[w].stage = "prepared" /\ Register(w) /\ UNCHANGED waitVars

RefuseWait(w) ==
    /\ wait[w].stage = "prepared"
    /\ RefuseRegistration(w)
    /\ wait' = [wait EXCEPT ![w].stage = "idle"]
    /\ UNCHANGED <<pane, changes, artifact, past, hit, vouched>>

StartWait(w) == StartRunner(w) /\ UNCHANGED waitVars

-----------------------------------------------------------------------------
(* Passes over the targets. *)

(* How the readers of a stage look at a target: the current state, the native *)
(* agent.wait, the identity-bracketed screen, or a reviewer.                  *)
Reader(w, stage) ==
    IF stage \in {"poll", "recheck", "after", "confirm"} THEN "current"
    ELSE IF stage = "context" THEN "screen"
    ELSE IF stage = "review" THEN "reviewer"
    ELSE IF wait[w].kind = "state" THEN "native" ELSE "screen"

PassOpen(w) == \E t \in Targets : wait[w].obs[t] # "none"

(* fanOutTargets starts every reader, each under its own activity; a closed   *)
(* gate refuses the first guarded call.                                       *)
StartPass(w, stage, slots) ==
    /\ runner[w] = "live"
    /\ rec[w].gate
    /\ wait' = [wait EXCEPT ![w] = [wait[w] EXCEPT !.stage = stage, !.obs = slots]]
    /\ rec' = [rec EXCEPT ![w].acts = Cardinality(GuardedReads(slots))]
    /\ UNCHANGED <<session, asked, runner, answer, port, prep, retired, call, told, posted,
                   pane, changes, artifact, past, hit, vouched>>

AllStarted == [t \in Targets |-> "started"]

FirstPass(w) ==
    /\ wait[w].stage = "prepared"
    /\ StartPass(w, IF wait[w].kind = "state" THEN "poll" ELSE "await", AllStarted)

NextPass(w) ==
    /\ wait[w].stage \in {"poll", "await", "context", "recheck", "after", "confirm",
                          "confirm_await"}
    /\ ~PassOpen(w)
    /\ StartPass(w, wait[w].stage, AllStarted)

(* Mutant of Observe: a failed read keeps its activity. *)
ObserveLeaks(w, t, o) ==
    /\ wait' = [wait EXCEPT ![w].obs[t] = o]
    /\ rec' = IF wait[w].obs[t] \in Guarded /\ o \notin Guarded \cup {"error"}
              THEN [rec EXCEPT ![w].acts = @ - 1] ELSE rec
    /\ UNCHANGED <<session, asked, runner, answer, port, prep, retired, call, told, posted,
                   pane, changes, artifact, past, hit, vouched>>

(* One observation of target t.  A read that ends releases its activity. *)
Observe(w, t, o) ==
    /\ wait' = [wait EXCEPT ![w].obs[t] = o]
    /\ rec' = IF wait[w].obs[t] \in Guarded /\ o \notin Guarded
              THEN [rec EXCEPT ![w].acts = @ - 1] ELSE rec
    /\ UNCHANGED <<session, asked, runner, answer, port, prep, retired, call, told, posted,
                   pane, changes, artifact, past, hit, vouched>>

(* A guarded call of a live runner returns only through an open gate. *)
Reading(w, t, o) ==
    /\ runner[w] = "live"
    /\ rec[w].gate
    /\ wait[w].obs[t] = o

SameOccupant(w, t) == pane[t].occ = wait[w].pin[t]

(* attachHandoffGate: only a managed target's state has an artifact to ask for. *)
Gated(w, t) == t \in GatedTargets /\ wait[w].kind = "state"

(* matches: a match counts only when it was observed before the deadline; a   *)
(* managed target's also needs its artifact, which a later step validates.    *)
Satisfied(w, t, o) ==
    IF Gated(w, t) THEN o
    ELSE IF w \notin past THEN "matched" ELSE IF o = "moved" THEN "working" ELSE "other"

(* The artifact verdict attached to a satisfying observation.  It is not a    *)
(* guarded call.                                                              *)
AttachHandoffGate(w, t) ==
    /\ runner[w] = "live"
    /\ wait[w].obs[t] \in {"seen", "moved"}
    /\ Observe(w, t, IF w \notin past /\ t \in artifact THEN "matched"
                     ELSE IF wait[w].obs[t] = "moved" THEN "working" ELSE "other")

(* readCurrentStateTarget, also the fallback of a native wait that timed out; *)
(* an absent agent of the pinned pane reads unknown.                          *)
ReadCurrentStateTarget(w, t) ==
    /\ Reading(w, t, "started")
    /\ Reader(w, wait[w].stage) \in {"current", "native"}
    /\ Observe(w, t,
         IF ~SameOccupant(w, t) THEN "error"
         ELSE CASE pane[t].state = "met" -> Satisfied(w, t, "seen")
                [] pane[t].state = "working" -> "working"
                [] OTHER -> "other")

(* readNativeTarget: the event names a pane and a status, whoever occupies    *)
(* the pane.                                                                  *)
NativeEvent(w, t) ==
    /\ Reading(w, t, "started")
    /\ Reader(w, wait[w].stage) = "native"
    /\ pane[t].state = "met"
    /\ Observe(w, t, "event")

(* Mutant of VerifyOccupant: the event's pane and status are taken as they are. *)
VerifyNothing(w, t) ==
    /\ Reading(w, t, "event")
    /\ Observe(w, t, Satisfied(w, t, "seen"))

(* The verification after the event binds it to the pinned occupant. *)
VerifyOccupant(w, t) ==
    /\ Reading(w, t, "event")
    /\ Observe(w, t,
         IF ~SameOccupant(w, t) \/ pane[t].state = "absent" THEN "error"
         ELSE Satisfied(w, t, IF pane[t].state = "met" THEN "seen" ELSE "moved"))

(* readTarget: the screen is read between two reads of the identity. *)
ReadScreen(w, t) ==
    /\ Reading(w, t, "started")
    /\ Reader(w, wait[w].stage) = "screen"
    /\ Observe(w, t,
         IF ~SameOccupant(w, t) \/ pane[t].state = "absent" THEN "error"
         ELSE IF pane[t].state = "met" THEN "screen_met" ELSE "screen_unmet")

BracketCloses(w, t) ==
    /\ \E o \in {"screen_met", "screen_unmet"} : Reading(w, t, o)
    /\ Observe(w, t,
         IF ~SameOccupant(w, t) \/ pane[t].state = "absent" THEN "error"
         ELSE LET working == pane[t].state = "working" IN
              IF wait[w].obs[t] = "screen_met" /\ wait[w].stage # "context"
              THEN Satisfied(w, t, IF working THEN "moved" ELSE "seen")
              ELSE IF working THEN "working" ELSE "other")

(* Any guarded call can fail; fanOutTargets keeps the error beside the values. *)
ReadFails(w, t) ==
    /\ wait[w].obs[t] \in Guarded
    /\ Reading(w, t, wait[w].obs[t])
    /\ Observe(w, t, "error")

(* A read the pass or the runner no longer waits for ends without authority. *)
ReleaseLate(w, t) ==
    /\ wait[w].obs[t] \in InFlight
    /\ runner[w] = "ended"
    /\ Observe(w, t, "none")

-----------------------------------------------------------------------------
(* The end of a pass. *)

Values(w) == {t \in Targets : wait[w].obs[t] \in Finished \ {"error"}}
Matched(w) == {t \in Targets : wait[w].obs[t] = "matched"}
Errors(w) == {t \in Targets : wait[w].obs[t] = "error"}

(* fanOutTargets returns when every reader is over, and for "any" already on  *)
(* a match that is still in time.                                             *)
PassReturns(w) ==
    \/ \A t \in Targets : wait[w].obs[t] \in Finished
    \/ wait[w].match = "any" /\ Matched(w) # {} /\ w \notin past

(* aggregate: over the snapshots that were read, which leaves errors out. *)
Aggregate(w) ==
    /\ Values(w) # {}
    /\ IF wait[w].match = "any" THEN Matched(w) # {} ELSE Matched(w) = Values(w)

LeftBehind(obs) == [t \in Targets |-> IF obs[t] \in InFlight THEN obs[t] ELSE "none"]

(* The runner returns, its unfinished reads stay behind. *)
Returns(w, outcome, matched) ==
    /\ RunnerEnds(w, outcome)
    /\ wait' = [wait EXCEPT ![w] = [wait[w] EXCEPT !.stage = "over", !.matched = matched,
                                                   !.obs = LeftBehind(wait[w].obs),
                                                   !.due = FALSE, !.doubt = {}, !.hard = FALSE]]
    /\ UNCHANGED <<pane, changes, artifact, past, hit, vouched>>

(* The runner goes on to another stage; every read of the pass is over. *)
GoesOn(w, stage) ==
    /\ wait' = [wait EXCEPT ![w] =
                   [wait[w] EXCEPT !.stage = stage, !.obs = NoObs,
                                   !.due = wait[w].due /\ stage \notin {"context", "review"},
                                   !.doubt = IF stage = "sleep" THEN {} ELSE wait[w].doubt,
                                   !.hard = wait[w].hard /\ stage # "sleep"]]
    /\ UNCHANGED <<regVars, pane, changes, artifact, past, hit, vouched>>

(* What follows a pass with neither match, error nor timeout. *)
AfterPass(w) ==
    CASE wait[w].stage = "poll" -> "await"
      [] wait[w].stage = "await" ->
           IF ~wait[w].due THEN "sleep" ELSE IF wait[w].kind = "state" THEN "context" ELSE "review"
      [] wait[w].stage = "recheck" -> "review"
      [] wait[w].stage = "after" ->
           IF wait[w].hard \/ wait[w].doubt # {} THEN "confirm" ELSE "sleep"
      [] wait[w].stage = "confirm" -> "confirm_await"
      [] OTHER -> "sleep"

(* observationResult: timeout first, then the match, then target errors. *)
ObservationResult(w) ==
    /\ runner[w] = "live"
    /\ wait[w].stage \in {"poll", "await", "recheck", "after", "confirm", "confirm_await"}
    /\ PassReturns(w)
    /\ IF w \in past THEN Returns(w, "timed_out", {})
       ELSE IF Aggregate(w) THEN Returns(w, "condition_met", Matched(w))
       ELSE IF Errors(w) # {} THEN Returns(w, "rejected", {})
       ELSE IF wait[w].stage # "confirm_await" THEN GoesOn(w, AfterPass(w))
       \* unknownReviewProvesWorking, of the snapshots this pass retained
       ELSE IF wait[w].hard \/ \E t \in wait[w].doubt : wait[w].obs[t] # "working"
            THEN Returns(w, "manager_judgment_required", {})
            ELSE GoesOn(w, "sleep")

(* The reviewer's own read of the screens never satisfies the predicate. *)
ContextRead(w) ==
    /\ runner[w] = "live"
    /\ wait[w].stage = "context"
    /\ \A t \in Targets : wait[w].obs[t] \in Finished
    /\ IF w \in past THEN Returns(w, "timed_out", {})
       ELSE IF Errors(w) # {} THEN Returns(w, "rejected", {})
       ELSE GoesOn(w, "recheck")

(* The sleep of the loop ends; the review cadence may be due (long waits). *)
Sleep(w) ==
    /\ runner[w] = "live"
    /\ rec[w].gate
    /\ wait[w].stage = "sleep"
    /\ IF w \in past THEN Returns(w, "timed_out", {})
       ELSE \E due \in BOOLEAN :
              /\ wait' = [wait EXCEPT ![w] = [wait[w] EXCEPT !.due = due,
                            !.stage = IF wait[w].kind = "state" THEN "poll" ELSE "await"]]
              /\ UNCHANGED <<regVars, pane, changes, artifact, past, hit, vouched>>

-----------------------------------------------------------------------------
(* The review of a long wait. *)

(* activeSupervisorFor: the targets an active supervisor job covers at this   *)
(* turn are left to it; nothing is reviewed when it covers them all.          *)
StartReview(w) ==
    /\ wait[w].stage = "review"
    /\ ~PassOpen(w)
    /\ runner[w] = "live" /\ rec[w].gate
    /\ \E covered \in SUBSET Targets :
         IF covered = Targets THEN GoesOn(w, "sleep")
         ELSE StartPass(w, "review",
                        [t \in Targets |-> IF t \in covered THEN "covered" ELSE "started"])

(* A reviewer answers with a classification or fails. *)
ReviewerAnswers(w, t) ==
    /\ Reading(w, t, "started")
    /\ wait[w].stage = "review"
    /\ \E o \in {"fine", "hard", "unsure"} : Observe(w, t, o)

(* runReviewersWithDeadline: the deadline beats answers still on their way. *)
ReviewTimesOut(w) ==
    /\ wait[w].stage = "review" /\ PassOpen(w)
    /\ w \in past
    /\ Returns(w, "timed_out", {})

ReviewFails(w) ==
    /\ wait[w].stage = "review"
    /\ Errors(w) # {}
    /\ w \notin past
    /\ Returns(w, "rejected", {})

(* Every answer is in: a native wait reads the targets again before it lets a *)
(* hard or unknown classification count.                                      *)
ReviewEnds(w) ==
    /\ runner[w] = "live"
    /\ wait[w].stage = "review"
    /\ \A t \in Targets : wait[w].obs[t] \in Finished \ {"error"}
    /\ w \notin past
    /\ LET hard == \E t \in Targets : wait[w].obs[t] = "hard"
           doubt == {t \in Targets : wait[w].obs[t] = "unsure"}
           stage == IF wait[w].kind = "state" THEN "after"
                    ELSE IF hard \/ doubt # {} THEN "confirm_await" ELSE "sleep"
       IN  /\ wait' = [wait EXCEPT ![w] = [wait[w] EXCEPT !.stage = stage, !.obs = NoObs,
                         !.hard = hard /\ stage # "sleep",
                         !.doubt = IF stage = "sleep" THEN {} ELSE doubt]]
           /\ UNCHANGED <<regVars, pane, changes, artifact, past, hit, vouched>>

(* A closed gate: the next check, guarded call or sleep throws ABORTED. *)
Aborts(w) ==
    /\ runner[w] = "live"
    /\ ~rec[w].gate
    /\ Returns(w, "rejected", {})

-----------------------------------------------------------------------------
Quiet(A) == A /\ UNCHANGED waitVars

TargetStep(w, t) ==
    \/ AttachHandoffGate(w, t)
    \/ ReadCurrentStateTarget(w, t)
    \/ NativeEvent(w, t)
    \/ VerifyOccupant(w, t)
    \/ ReadScreen(w, t)
    \/ BracketCloses(w, t)
    \/ ReadFails(w, t)
    \/ ReleaseLate(w, t)
    \/ ReviewerAnswers(w, t)

(* The steps the runner takes by itself once it is live. *)
RunnerStep(w) ==
    \/ FirstPass(w)
    \/ NextPass(w)
    \/ ObservationResult(w)
    \/ ContextRead(w)
    \/ Sleep(w)
    \/ StartReview(w)
    \/ ReviewTimesOut(w)
    \/ ReviewFails(w)
    \/ ReviewEnds(w)
    \/ Aborts(w)

(* The registry's own turns: they need nobody's help. *)
RegistryStep(w) ==
    \/ StartWait(w)
    \/ Quiet(SkipRunner(w))
    \/ Quiet(SettleRunner(w))

CancelStep(c) ==
    \/ Quiet(DrainObserved(c))
    \/ Quiet(SettleCancel(c))

(* Nothing is owed any more: every wait settled, or its session ended and its *)
(* runner unwound, and every cancellation returned.  Any other state without  *)
(* a next step is a hang.                                                     *)
AllOver ==
    /\ \A w \in Waits :
         /\ runner[w] = "ended" /\ answer[w] = "none" /\ rec[w].acts = 0
         /\ rec[w].phase = "settled" \/ ~rec[w].listed
    /\ \A c \in Callers : call[c].pc = "idle"
    /\ UNCHANGED vars

Next ==
    \/ AllOver
    \/ \E w \in Waits :
         \/ AskWait(w) \/ PrepareWait(w) \/ PrepareFails(w) \/ RegisterWait(w) \/ RefuseWait(w)
         \/ DeadlinePasses(w)
         \/ RegistryStep(w)
         \/ RunnerStep(w)
         \/ \E t \in Targets : TargetStep(w, t)
    \/ \E c \in Callers :
         \/ \E j \in Jobs : Quiet(RequestCancel(c, j))
         \/ CancelStep(c)
    \/ Quiet(BeginSession)
    \/ Quiet(Shutdown)
    \/ \E t \in Targets :
         AgentMoves(t) \/ OccupantReplaced(t) \/ ArtifactChanges(t)

Spec == Init /\ [][Next]_vars

-----------------------------------------------------------------------------
(* Properties. *)

(* A wait that reports condition_met names only targets whose pinned occupant *)
(* did meet the condition after the wait was asked for and before its         *)
(* deadline, and a managed one only with a validated artifact: no event of a  *)
(* later occupant of the pane, no reviewer's read and no observation after    *)
(* the deadline counts (readNativeTarget's verification, observationResult).  *)
MetIsWitnessed ==
    \A w \in Waits :
        (answer[w] = "condition_met" \/ rec[w].result = "condition_met") =>
            /\ wait[w].matched # {}
            /\ wait[w].matched \subseteq hit[w]
            /\ wait[w].kind = "state" => wait[w].matched \cap GatedTargets \subseteq vouched[w]

(* A wait the manager was told to be cancelled is quiet: its runner is over   *)
(* and none of its pane reads is in flight, so it touches no pane again;      *)
(* one that could not be shown quiet is reported unknown (cancel,             *)
(* waitForDrain).  A session that ends under the drain is the exception the   *)
(* record marks with the reason "shutdown".                                   *)
CancelledIsQuiet ==
    \A w \in Waits :
        rec[w].result = "cancelled" /\ rec[w].reason = "cancelled" =>
            runner[w] = "ended" /\ \A t \in Targets : wait[w].obs[t] \notin Guarded

(* The manager hears of each wait's own ending exactly once, and of a         *)
(* cancelled or abandoned one never, whatever order the runner's answer, the  *)
(* cancellation and the session's end take the lock in (settleOnce, late).    *)
EndingIsToldOnce ==
    \A w \in Waits :
        told[w] = IF rec[w].phase = "settled" /\ rec[w].reason = "none" THEN 1 ELSE 0

=============================================================================
