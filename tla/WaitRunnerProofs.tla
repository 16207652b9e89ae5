--------------------------- MODULE WaitRunnerProofs ---------------------------
(***************************************************************************)
(* Proofs about the wait jobs: the types and the count of a job's reads,   *)
(* the one notification of an ending, the quiet of a cancelled wait and    *)
(* the witnesses of a condition that is reported met, for any waits,       *)
(* targets, cancellations, sessions and changes of the panes.              *)
(***************************************************************************)
EXTENDS WaitRunner, FiniteSetTheorems, TLAPS

-----------------------------------------------------------------------------
(* The inductive invariant.                                                *)

(* What a wait's record, its runner and its answer say of each other.  The *)
(* registry sets done for a job it abandons whose runner still unwinds;    *)
(* the reason "shutdown" marks those.                                      *)
JobOK(w) ==
    /\ rec[w].phase = "absent" <=> runner[w] = "none"
    /\ rec[w].phase = "absent" => ~rec[w].listed
    /\ rec[w].phase = "accepted" => rec[w].gate
    /\ rec[w].phase = "running" => runner[w] = "live" \/ answer[w] # "none"
    /\ rec[w].phase \in {"absent", "accepted", "running"} => rec[w].reason = "none"
    /\ rec[w].phase = "cancel_requested" => rec[w].reason # "none"
    /\ rec[w].result # "none" => rec[w].phase = "settled"
    /\ answer[w] # "none" => runner[w] = "ended"
    /\ answer[w] \in WaitResults \cup {"none", "rejected"}
    /\ rec[w].done /\ rec[w].reason # "shutdown" => runner[w] = "ended"

JobInv == \A w \in Waits : JobOK(w)

(* A wait that is not registered has no read.                              *)
StageOK(w) ==
    /\ wait[w].stage = "idle" => runner[w] = "none"
    /\ wait[w].stage \in {"idle", "prepared"} => \A t \in Targets : wait[w].obs[t] = "none"

StageInv == \A w \in Waits : StageOK(w)

(* A cancellation in progress is of a job that was asked to stop, and one  *)
(* that saw its wait drained stays right until it settles it.              *)
DrainInv ==
    \A c \in Callers :
        call[c].pc # "idle" =>
            /\ call[c].job \in Jobs
            /\ \A w \in Waits : call[c].job = w =>
                 /\ rec[w].phase \in {"cancel_requested", "settled"}
                 /\ rec[w].reason # "none"
                 /\ call[c].pc = "settling" /\ call[c].drained /\ rec[w].reason # "shutdown"
                        => runner[w] = "ended" /\ rec[w].acts = 0

-----------------------------------------------------------------------------
(* Lemmas about counts and records.                                        *)

(* The reads under guard are finitely many, and none when there are zero.  *)
LEMMA ReadsAreCounted ==
    ASSUME NEW obs
    PROVE  /\ IsFiniteSet(GuardedReads(obs))
           /\ Cardinality(GuardedReads(obs)) \in Nat
           /\ Cardinality(GuardedReads(obs)) = 0 <=> \A t \in Targets : obs[t] \notin Guarded
<1>1. GuardedReads(obs) \in SUBSET Targets
    BY DEF GuardedReads
<1>2. IsFiniteSet(GuardedReads(obs))
    BY <1>1, FS_Subset, WaitAssumption
<1>3. Cardinality(GuardedReads(obs)) \in Nat
    BY <1>2, FS_CardinalityType
<1>4. Cardinality(GuardedReads(obs)) = 0 <=> GuardedReads(obs) = {}
    BY <1>2, FS_EmptySet
<1>5. GuardedReads(obs) = {} <=> \A t \in Targets : obs[t] \notin Guarded
    BY DEF GuardedReads
<1> QED
    BY <1>2, <1>3, <1>4, <1>5

(* One observation takes at most its own read out of the count.            *)
LEMMA ObservationCounts ==
    ASSUME NEW obs \in [Targets -> Observations], NEW t \in Targets, NEW o \in Observations,
           o \in Guarded => obs[t] \in Guarded
    PROVE  Cardinality(GuardedReads([obs EXCEPT ![t] = o])) =
              IF obs[t] \in Guarded /\ o \notin Guarded
              THEN Cardinality(GuardedReads(obs)) - 1 ELSE Cardinality(GuardedReads(obs))
<1> DEFINE after == [obs EXCEPT ![t] = o]
<1>1. \A u \in Targets : after[u] = IF u = t THEN o ELSE obs[u]
    OBVIOUS
<1> HIDE DEF after
<1>2. CASE obs[t] \in Guarded /\ o \notin Guarded
    <2>1. GuardedReads(after) = GuardedReads(obs) \ {t}
        BY <1>1, <1>2 DEF GuardedReads
    <2>2. t \in GuardedReads(obs)
        BY <1>2 DEF GuardedReads
    <2>3. IsFiniteSet(GuardedReads(obs))
        BY ReadsAreCounted
    <2> QED
        BY <2>1, <2>2, <2>3, <1>2, FS_RemoveElement DEF after
<1>3. CASE ~(obs[t] \in Guarded /\ o \notin Guarded)
    <2>1. GuardedReads(after) = GuardedReads(obs)
        BY <1>1, <1>3 DEF GuardedReads
    <2> QED
        BY <2>1, <1>3 DEF after
<1> QED
    BY <1>2, <1>3

(* What the steps do to a job record leaves a job record.                  *)
LEMMA RecordMoves ==
    ASSUME NEW r \in JobRecord
    PROVE  /\ \A n \in Nat : [r EXCEPT !.acts = n] \in JobRecord
           /\ [r EXCEPT !.phase = "running"] \in JobRecord
           /\ [r EXCEPT !.done = TRUE] \in JobRecord
           /\ [r EXCEPT !.gate = FALSE, !.phase = "cancel_requested", !.reason = "cancelled"] \in JobRecord
           /\ [r EXCEPT !.listed = FALSE] \in JobRecord
           /\ [r EXCEPT !.listed = FALSE, !.gate = FALSE, !.done = TRUE,
                        !.phase = "cancel_requested", !.reason = "shutdown"] \in JobRecord
           /\ \A kind \in {"fulfilled", "rejected"} : Late(r, kind) \in JobRecord
           /\ \A outcome \in Results : SettleOnce(r, outcome) \in JobRecord
<1>1. [r EXCEPT !.phase = "running"] \in JobRecord /\ [r EXCEPT !.done = TRUE] \in JobRecord
    BY DEF JobRecord, Phases
<1>2. \A n \in Nat : [r EXCEPT !.acts = n] \in JobRecord
    BY DEF JobRecord
<1>3. [r EXCEPT !.gate = FALSE, !.phase = "cancel_requested", !.reason = "cancelled"] \in JobRecord
    BY DEF JobRecord, Phases
<1>4. [r EXCEPT !.listed = FALSE] \in JobRecord
    BY DEF JobRecord
<1>5. [r EXCEPT !.listed = FALSE, !.gate = FALSE, !.done = TRUE,
                !.phase = "cancel_requested", !.reason = "shutdown"] \in JobRecord
    BY DEF JobRecord, Phases
<1>6. \A kind \in {"fulfilled", "rejected"} : Late(r, kind) \in JobRecord
    BY DEF Late, JobRecord
<1>7. \A outcome \in Results : SettleOnce(r, outcome) \in JobRecord
    BY DEF SettleOnce, JobRecord, Phases
<1> QED
    BY <1>1, <1>2, <1>3, <1>4, <1>5, <1>6, <1>7

-----------------------------------------------------------------------------
(* The types of the registry.                                              *)

(* Settling a job leaves records and counts.                               *)
LEMMA SettlingTypes ==
    ASSUME RegTypeOK, NEW j \in Jobs, NEW outcome \in Results, SettleLocked(j, outcome)
    PROVE  rec' \in [Jobs -> JobRecord] /\ told' \in [Jobs -> Nat] /\ posted' \in [Jobs -> Nat]
<1>1. rec' \in [Jobs -> JobRecord]
    <2>1. rec[j] \in JobRecord
        BY DEF RegTypeOK
    <2>2. SettleOnce(rec[j], outcome) \in JobRecord
        BY <2>1, RecordMoves
    <2> QED
        BY <2>2 DEF SettleLocked, RegTypeOK
<1>2. told' \in [Jobs -> Nat]
    BY DEF SettleLocked, NotifyTerminal, RegTypeOK
<1>3. posted' \in [Jobs -> Nat]
    BY DEF SettleLocked, PersistTerminalEvent, RegTypeOK
<1> QED
    BY <1>1, <1>2, <1>3

(* Registration and execution keep the types of the registry.              *)
LEMMA RegistrationTypes ==
    ASSUME RegTypeOK, NEW j \in Jobs,
           \/ CaptureGeneration(j) \/ RefuseRegistration(j) \/ Register(j)
           \/ StartRunner(j) \/ SkipRunner(j) \/ SettleRunner(j)
    PROVE  RegTypeOK'
<1> USE JobsAssumption
<1>1. CASE CaptureGeneration(j)
    BY <1>1 DEF CaptureGeneration, RegTypeOK, NoGeneration
<1>2. CASE RefuseRegistration(j)
    BY <1>2 DEF RefuseRegistration, RegTypeOK, NoGeneration
<1>3. CASE Register(j)
    <2> DEFINE fresh == [Absent EXCEPT !.phase = "accepted", !.gate = TRUE,
                                       !.gen = asked[j], !.listed = TRUE]
    <2>1. fresh \in JobRecord
        BY DEF JobRecord, Absent, Phases, Stages, Results, RegTypeOK
    <2>2. rec' = [rec EXCEPT ![j] = fresh]
        BY <1>3 DEF Register
    <2> HIDE DEF fresh
    <2> QED
        BY <2>1, <2>2, <1>3 DEF Register, RegTypeOK
<1>4. CASE StartRunner(j)
    <2>1. rec[j] \in JobRecord
        BY DEF RegTypeOK
    <2>2. [rec[j] EXCEPT !.phase = "running"] \in JobRecord
        BY <2>1, RecordMoves
    <2> QED
        BY <2>2, <1>4 DEF StartRunner, RegTypeOK
<1>5. CASE SkipRunner(j)
    <2>1. rec[j] \in JobRecord
        BY DEF RegTypeOK
    <2>2. [rec[j] EXCEPT !.done = TRUE] \in JobRecord
        BY <2>1, RecordMoves
    <2> QED
        BY <2>2, <1>5 DEF SkipRunner, RegTypeOK
<1>6. CASE SettleRunner(j)
    <2>1. answer' \in [Jobs -> Results \cup {"none", "rejected"}]
        BY <1>6 DEF SettleRunner, RegTypeOK
    <2>2. rec' \in [Jobs -> JobRecord] /\ told' \in [Jobs -> Nat] /\ posted' \in [Jobs -> Nat]
        <3>1. CASE rec[j].phase # "running"
            <4>1. \E kind \in {"fulfilled", "rejected"} : rec' = [rec EXCEPT ![j] = Late(rec[j], kind)]
                BY <1>6, <3>1 DEF SettleRunner
            <4>2. rec[j] \in JobRecord
                BY DEF RegTypeOK
            <4>3. \A kind \in {"fulfilled", "rejected"} : Late(rec[j], kind) \in JobRecord
                BY <4>2, RecordMoves
            <4> QED
                BY <4>1, <4>3, <1>6, <3>1 DEF SettleRunner, RegTypeOK
        <3>2. CASE rec[j].phase = "running"
            <4>1. (IF answer[j] = "rejected" THEN "failed" ELSE answer[j]) \in Results
                BY <1>6 DEF SettleRunner, RegTypeOK, Results, GenericTerminals
            <4>2. SettleLocked(j, IF answer[j] = "rejected" THEN "failed" ELSE answer[j])
                BY <1>6, <3>2 DEF SettleRunner
            <4> QED
                BY <4>1, <4>2, SettlingTypes
        <3> QED
            BY <3>1, <3>2
    <2> QED
        BY <2>1, <2>2, <1>6 DEF SettleRunner, RegTypeOK
<1> QED
    BY <1>1, <1>2, <1>3, <1>4, <1>5, <1>6

(* Cancellations keep the types of the registry.                           *)
LEMMA CancellationTypes ==
    ASSUME RegTypeOK, DrainInv, NEW c \in Callers,
           \/ \E j \in Jobs : RequestCancel(c, j)
           \/ DrainObserved(c) \/ SettleCancel(c)
    PROVE  RegTypeOK'
<1>1. ASSUME NEW j \in Jobs, RequestCancel(c, j)
      PROVE  RegTypeOK'
    <2>1. rec[j] \in JobRecord
        BY DEF RegTypeOK
    <2>2. rec' \in [Jobs -> JobRecord]
        BY <2>1, <1>1, RecordMoves DEF RequestCancel, RegTypeOK
    <2>3. call' \in [Callers -> CallStates]
        BY <1>1 DEF RequestCancel, RegTypeOK, CallStates
    <2> QED
        BY <2>2, <2>3, <1>1 DEF RequestCancel, RegTypeOK
<1>2. CASE DrainObserved(c)
    <2>1. call[c] \in CallStates
        BY DEF RegTypeOK
    <2>2. IsDrained(call[c].job) \in BOOLEAN
        BY <1>2, Zenon DEF DrainObserved, DrainInv, IsDrained
    <2>3. [call[c] EXCEPT !.pc = "settling", !.drained = IsDrained(call[c].job)] \in CallStates
        BY <2>1, <2>2 DEF CallStates
    <2> QED
        BY <2>3, <1>2 DEF DrainObserved, RegTypeOK
<1>3. CASE SettleCancel(c)
    <2>1. call[c].job \in Jobs
        BY <1>3 DEF SettleCancel, DrainInv
    <2>2. (IF call[c].drained THEN "cancelled" ELSE "unknown") \in Results
        BY DEF Results, GenericTerminals
    <2>3. rec' \in [Jobs -> JobRecord] /\ told' \in [Jobs -> Nat] /\ posted' \in [Jobs -> Nat]
        BY <2>1, <2>2, <1>3, SettlingTypes DEF SettleCancel
    <2>4. call' \in [Callers -> CallStates]
        BY <1>3 DEF SettleCancel, NoCall, RegTypeOK, CallStates
    <2> QED
        BY <2>3, <2>4, <1>3 DEF SettleCancel, RegTypeOK
<1> QED
    BY <1>1, <1>2, <1>3

(* So do a new session and the end of one.                                 *)
LEMMA SessionTypes ==
    ASSUME RegTypeOK, BeginSession \/ Shutdown
    PROVE  RegTypeOK'
<1>1. AbandonAll
    BY DEF BeginSession, Shutdown
<1>2. \A j \in Jobs : rec'[j] \in JobRecord
    <2> TAKE j \in Jobs
    <2>1. rec[j] \in JobRecord
        BY DEF RegTypeOK
    <2> QED
        BY <2>1, <1>1, RecordMoves DEF AbandonAll
<1>3. rec' \in [Jobs -> JobRecord]
    <2>1. rec' = [j \in Jobs |-> rec'[j]]
        BY <1>1 DEF AbandonAll
    <2> QED
        BY <2>1, <1>2
<1>4. port' \in [Sups -> {"none", "starting", "provisional", "active", "settled"}]
    BY <1>1 DEF AbandonAll, RegTypeOK
<1>5. session' \in [gen: 0..MaxSessions, accepting: BOOLEAN]
    <2>1. session.gen \in 0..MaxSessions /\ session.gen < MaxSessions
        BY DEF BeginSession, Shutdown, RegTypeOK
    <2>2. session.gen + 1 \in 0..MaxSessions
        BY <2>1, JobsAssumption
    <2>3. \E b \in BOOLEAN : session' = [gen |-> session.gen + 1, accepting |-> b]
        BY DEF BeginSession, Shutdown
    <2> QED
        BY <2>2, <2>3
<1> QED
    BY <1>3, <1>4, <1>5 DEF BeginSession, Shutdown, RegTypeOK

-----------------------------------------------------------------------------
(* The shapes of a runner's steps.                                         *)

(* Where an observation comes from: an event from a pane that met the      *)
(* condition, a satisfying one from the pinned occupant meeting it now or  *)
(* when the event or the screen was read, and a match from a satisfying    *)
(* one in time, with its artifact where one is asked for.                  *)
Sourced(w, t, o) ==
    /\ o = "event" => pane[t].state = "met"
    /\ o \in {"seen", "screen_met"} => pane[t].state = "met" /\ SameOccupant(w, t)
    /\ o = "moved" => wait[w].obs[t] \in {"event", "screen_met"} /\ SameOccupant(w, t)
    /\ o = "matched" =>
         /\ w \notin past
         /\ \/ wait[w].obs[t] \in {"seen", "moved"} /\ t \in artifact
            \/ /\ ~Gated(w, t)
               /\ SameOccupant(w, t)
               /\ pane[t].state = "met" \/ wait[w].obs[t] \in {"event", "screen_met"}

(* One observation of a target: what is observed, and by whom.             *)
Observes(w) ==
    \E t \in Targets, o \in Observations :
        /\ Observe(w, t, o)
        /\ o \in Guarded => wait[w].obs[t] \in Guarded
        /\ wait[w].obs[t] \in InFlight
        /\ runner[w] \in {"live", "ended"}
        /\ o # "none" => runner[w] = "live"
        /\ Sourced(w, t, o)

(* The start of a pass.                                                    *)
PassStarts(w) ==
    \E stage \in Stages_ \ {"idle", "prepared"}, slots \in [Targets -> {"started", "covered"}] :
        StartPass(w, stage, slots)

(* The end of the runner, which names the targets that matched.            *)
RunnerReturns(w) ==
    \E outcome \in WaitResults \cup {"rejected"}, matched \in SUBSET Targets :
        /\ Returns(w, outcome, matched)
        /\ outcome = "condition_met" => matched # {} /\ matched = Matched(w)

(* A step of the runner between passes: no read is under way.              *)
RunnerRests(w) ==
    \E next \in WaitStates :
        /\ runner[w] = "live"
        /\ wait' = [wait EXCEPT ![w] = next]
        /\ next.stage \notin {"idle", "prepared"}
        /\ \/ next.obs = wait[w].obs
           \/ next.obs = NoObs /\ \A t \in Targets : wait[w].obs[t] \notin Guarded
        /\ next.pin = wait[w].pin /\ next.kind = wait[w].kind /\ next.matched = wait[w].matched
        /\ UNCHANGED <<regVars, pane, changes, artifact, past, hit, vouched>>

(* A finished part of a pass is not under guard.                           *)
LEMMA FinishedIsOver ==
    /\ Finished \cap Guarded = {} /\ "none" \notin Guarded /\ "covered" \notin Guarded
    /\ InFlight \cap Finished = {} /\ Guarded \subseteq InFlight
    /\ "seen" \notin Guarded /\ "moved" \notin Guarded
    /\ "none" \in Observations /\ "started" \in Observations /\ "covered" \in Observations
    /\ "none" \notin InFlight /\ "error" \in Finished
BY DEF Finished, Guarded, InFlight, Observations

(* To go on to another stage once every read is over is a step between     *)
(* passes.                                                                 *)
LEMMA GoingOnRests ==
    ASSUME WaitTypeOK, NEW w \in Waits, NEW stage \in Stages_ \ {"idle", "prepared"},
           runner[w] = "live", GoesOn(w, stage), \A t \in Targets : wait[w].obs[t] \notin Guarded
    PROVE  RunnerRests(w)
<1> DEFINE next == [wait[w] EXCEPT !.stage = stage, !.obs = NoObs,
                                   !.due = wait[w].due /\ stage \notin {"context", "review"},
                                   !.doubt = IF stage = "sleep" THEN {} ELSE wait[w].doubt,
                                   !.hard = wait[w].hard /\ stage # "sleep"]
<1>1. wait[w] \in WaitStates
    BY DEF WaitTypeOK
<1>2. NoObs \in [Targets -> Observations]
    BY FinishedIsOver DEF NoObs
<1>3. (wait[w].due /\ stage \notin {"context", "review"}) \in BOOLEAN
      /\ (wait[w].hard /\ stage # "sleep") \in BOOLEAN
    OBVIOUS
<1>4. (IF stage = "sleep" THEN {} ELSE wait[w].doubt) \in SUBSET Targets
    BY <1>1 DEF WaitStates
<1>5. next \in WaitStates
    BY <1>1, <1>2, <1>3, <1>4 DEF WaitStates
<1>6. /\ next.stage = stage /\ next.obs = NoObs /\ next.pin = wait[w].pin
      /\ next.kind = wait[w].kind /\ next.matched = wait[w].matched
    BY <1>1 DEF WaitStates
<1>7. wait' = [wait EXCEPT ![w] = next]
    BY DEF GoesOn
<1> HIDE DEF next
<1> QED
    BY <1>5, <1>6, <1>7 DEF RunnerRests, GoesOn

(* The end of a pass either ends the runner or lets it go on; when it goes *)
(* on, every read of the pass is over.                                     *)
LEMMA PassEnds ==
    ASSUME WaitTypeOK, NEW w \in Waits, ObservationResult(w)
    PROVE  RunnerReturns(w) \/ RunnerRests(w)
<1> USE DEF WaitResults
<1>1. CASE w \in past
    <2>1. Returns(w, "timed_out", {})
        BY <1>1 DEF ObservationResult
    <2> QED
        BY <2>1 DEF RunnerReturns
<1>2. CASE w \notin past /\ Aggregate(w)
    <2>1. Returns(w, "condition_met", Matched(w))
        BY <1>2 DEF ObservationResult
    <2>2. Matched(w) # {} /\ Matched(w) \in SUBSET Targets
        BY <1>2 DEF Aggregate, Matched
    <2> QED
        BY <2>1, <2>2 DEF RunnerReturns
<1>3. CASE w \notin past /\ ~Aggregate(w) /\ Errors(w) # {}
    <2>1. Returns(w, "rejected", {})
        BY <1>3 DEF ObservationResult
    <2> QED
        BY <2>1 DEF RunnerReturns
<1>4. CASE w \notin past /\ ~Aggregate(w) /\ Errors(w) = {}
    <2>1. \A t \in Targets : wait[w].obs[t] \in Finished
        <3>1. CASE wait[w].match = "any" /\ Matched(w) # {}
            <4>1. Values(w) # {}
                BY <3>1 DEF Matched, Values, Finished
            <4> QED
                BY <4>1, <3>1, <1>4 DEF Aggregate
        <3> QED
            BY <3>1 DEF ObservationResult, PassReturns
    <2>2. \A t \in Targets : wait[w].obs[t] \notin Guarded
        BY <2>1, FinishedIsOver
    <2>3. CASE wait[w].stage # "confirm_await"
        <3>1. GoesOn(w, AfterPass(w)) /\ runner[w] = "live"
            BY <1>4, <2>3 DEF ObservationResult
        <3>2. AfterPass(w) \in Stages_ \ {"idle", "prepared"}
            BY DEF AfterPass, Stages_
        <3> QED
            BY <3>1, <3>2, <2>2, GoingOnRests
    <2>4. CASE wait[w].stage = "confirm_await"
        <3>1. \/ Returns(w, "manager_judgment_required", {})
              \/ GoesOn(w, "sleep") /\ runner[w] = "live"
            BY <1>4, <2>4 DEF ObservationResult
        <3>2. "sleep" \in Stages_ \ {"idle", "prepared"}
            BY DEF Stages_
        <3> QED
            BY <3>1, <3>2, <2>2, GoingOnRests DEF RunnerReturns
    <2> QED
        BY <2>3, <2>4
<1> QED
    BY <1>1, <1>2, <1>3, <1>4

(* Every step of a runner starts a pass, ends the runner or rests between  *)
(* passes.                                                                 *)
LEMMA RunnerSteps ==
    ASSUME WaitTypeOK, NEW w \in Waits, RunnerStep(w)
    PROVE  PassStarts(w) \/ RunnerReturns(w) \/ RunnerRests(w)
<1> USE DEF WaitResults
<1>0. wait[w] \in WaitStates /\ wait[w].obs \in [Targets -> Observations]
    BY DEF WaitTypeOK, WaitStates
<1>1. CASE FirstPass(w) \/ NextPass(w)
    <2>1. AllStarted \in [Targets -> {"started", "covered"}]
        BY DEF AllStarted
    <2>2. \E stage \in Stages_ \ {"idle", "prepared"} : StartPass(w, stage, AllStarted)
        BY <1>1 DEF FirstPass, NextPass, Stages_
    <2> QED
        BY <2>1, <2>2 DEF PassStarts
<1>2. CASE ObservationResult(w)
    BY <1>2, PassEnds
<1>3. CASE ContextRead(w)
    <2>1. \A t \in Targets : wait[w].obs[t] \notin Guarded
        BY <1>3, FinishedIsOver DEF ContextRead
    <2>2. \/ Returns(w, "timed_out", {}) \/ Returns(w, "rejected", {})
          \/ GoesOn(w, "recheck") /\ runner[w] = "live"
        BY <1>3 DEF ContextRead
    <2>3. "recheck" \in Stages_ \ {"idle", "prepared"}
        BY DEF Stages_
    <2> QED
        BY <2>1, <2>2, <2>3, GoingOnRests DEF RunnerReturns
<1>4. CASE Sleep(w)
    <2>1. CASE w \in past
        BY <2>1, <1>4 DEF Sleep, RunnerReturns
    <2>2. CASE w \notin past
        <3>1. PICK due \in BOOLEAN :
                 /\ wait' = [wait EXCEPT ![w] = [wait[w] EXCEPT !.due = due,
                               !.stage = IF wait[w].kind = "state" THEN "poll" ELSE "await"]]
                 /\ UNCHANGED <<regVars, pane, changes, artifact, past, hit, vouched>>
            BY <2>2, <1>4 DEF Sleep
        <3> DEFINE next == [wait[w] EXCEPT !.due = due,
                               !.stage = IF wait[w].kind = "state" THEN "poll" ELSE "await"]
        <3>2. next \in WaitStates
            BY <1>0 DEF WaitStates, Stages_
        <3>3. /\ next.stage \notin {"idle", "prepared"} /\ next.obs = wait[w].obs
              /\ next.pin = wait[w].pin /\ next.kind = wait[w].kind /\ next.matched = wait[w].matched
            BY <1>0 DEF WaitStates
        <3>4. runner[w] = "live"
            BY <1>4 DEF Sleep
        <3> HIDE DEF next
        <3> QED
            BY <3>1, <3>2, <3>3, <3>4 DEF RunnerRests, next
    <2> QED
        BY <2>1, <2>2
<1>5. CASE StartReview(w)
    <2>1. PICK covered \in SUBSET Targets :
             IF covered = Targets THEN GoesOn(w, "sleep")
             ELSE StartPass(w, "review",
                            [t \in Targets |-> IF t \in covered THEN "covered" ELSE "started"])
        BY <1>5 DEF StartReview
    <2>2. \A t \in Targets : wait[w].obs[t] \notin Guarded
        BY <1>5, FinishedIsOver DEF StartReview, PassOpen
    <2>3. "sleep" \in Stages_ \ {"idle", "prepared"} /\ "review" \in Stages_ \ {"idle", "prepared"}
        BY DEF Stages_
    <2>4. runner[w] = "live"
        BY <1>5 DEF StartReview
    <2>5. CASE covered = Targets
        BY <2>1, <2>2, <2>3, <2>4, <2>5, GoingOnRests
    <2>6. CASE covered # Targets
        <3>1. [t \in Targets |-> IF t \in covered THEN "covered" ELSE "started"]
                  \in [Targets -> {"started", "covered"}]
            OBVIOUS
        <3> QED
            BY <3>1, <2>1, <2>3, <2>6 DEF PassStarts
    <2> QED
        BY <2>5, <2>6
<1>6. CASE ReviewTimesOut(w) \/ ReviewFails(w) \/ Aborts(w)
    BY <1>6 DEF ReviewTimesOut, ReviewFails, Aborts, RunnerReturns
<1>7. CASE ReviewEnds(w)
    <2>1. \A t \in Targets : wait[w].obs[t] \notin Guarded
        BY <1>7, FinishedIsOver DEF ReviewEnds
    <2>2. \E stage \in {"after", "confirm_await", "sleep"}, hard \in BOOLEAN, doubt \in SUBSET Targets :
             wait' = [wait EXCEPT ![w] = [wait[w] EXCEPT !.stage = stage, !.obs = NoObs,
                                                         !.hard = hard, !.doubt = doubt]]
        <3> DEFINE hard == \E t \in Targets : wait[w].obs[t] = "hard"
                   doubt == {t \in Targets : wait[w].obs[t] = "unsure"}
                   stage == IF wait[w].kind = "state" THEN "after"
                            ELSE IF hard \/ doubt # {} THEN "confirm_await" ELSE "sleep"
        <3>1. wait' = [wait EXCEPT ![w] = [wait[w] EXCEPT !.stage = stage, !.obs = NoObs,
                         !.hard = hard /\ stage # "sleep",
                         !.doubt = IF stage = "sleep" THEN {} ELSE doubt]]
            BY <1>7 DEF ReviewEnds
        <3>2. stage \in {"after", "confirm_await", "sleep"}
            OBVIOUS
        <3>3. doubt \in SUBSET Targets
            OBVIOUS
        <3> HIDE DEF hard, doubt, stage
        <3>4. (hard /\ stage # "sleep") \in BOOLEAN
            OBVIOUS
        <3>5. (IF stage = "sleep" THEN {} ELSE doubt) \in SUBSET Targets
            BY <3>3
        <3> QED
            BY <3>1, <3>2, <3>4, <3>5
    <2>3. PICK stage \in {"after", "confirm_await", "sleep"}, hard \in BOOLEAN, doubt \in SUBSET Targets :
             wait' = [wait EXCEPT ![w] = [wait[w] EXCEPT !.stage = stage, !.obs = NoObs,
                                                         !.hard = hard, !.doubt = doubt]]
        BY <2>2
    <2> DEFINE next == [wait[w] EXCEPT !.stage = stage, !.obs = NoObs, !.hard = hard, !.doubt = doubt]
    <2>4. NoObs \in [Targets -> Observations]
        BY FinishedIsOver DEF NoObs
    <2>5. next \in WaitStates
        BY <1>0, <2>4 DEF WaitStates, Stages_
    <2>6. /\ next.stage \notin {"idle", "prepared"} /\ next.obs = NoObs
          /\ next.pin = wait[w].pin /\ next.kind = wait[w].kind /\ next.matched = wait[w].matched
        BY <1>0 DEF WaitStates
    <2>7. runner[w] = "live" /\ UNCHANGED <<regVars, pane, changes, artifact, past, hit, vouched>>
        BY <1>7 DEF ReviewEnds
    <2> HIDE DEF next
    <2> QED
        BY <2>1, <2>3, <2>5, <2>6, <2>7 DEF RunnerRests, next
<1> QED
    BY <1>1, <1>2, <1>3, <1>4, <1>5, <1>6, <1>7 DEF RunnerStep

(* Every step of a read is one observation.                                *)
LEMMA ReadsObserve ==
    ASSUME WaitTypeOK, NEW w \in Waits, NEW t \in Targets, TargetStep(w, t)
    PROVE  Observes(w)
<1>0. pane[t].state \in {"working", "met", "absent"}
    BY DEF WaitTypeOK, PaneStates
<1> USE <1>0 DEF Finished, Guarded, InFlight, Observations, Reading, Satisfied, Sourced
<1> SUFFICES \E o \in Observations :
                /\ Observe(w, t, o)
                /\ o \in Guarded => wait[w].obs[t] \in Guarded
                /\ wait[w].obs[t] \in InFlight
                /\ runner[w] \in {"live", "ended"}
                /\ o # "none" => runner[w] = "live"
                /\ Sourced(w, t, o)
    BY DEF Observes
<1>1. CASE AttachHandoffGate(w, t)
    BY <1>1 DEF AttachHandoffGate
<1>2. CASE ReadCurrentStateTarget(w, t)
    BY <1>2 DEF ReadCurrentStateTarget
<1>3. CASE NativeEvent(w, t)
    BY <1>3 DEF NativeEvent
<1>4. CASE VerifyOccupant(w, t)
    BY <1>4 DEF VerifyOccupant
<1>5. CASE ReadScreen(w, t)
    BY <1>5 DEF ReadScreen
<1>6. CASE BracketCloses(w, t)
    BY <1>6 DEF BracketCloses
<1>7. CASE ReadFails(w, t)
    BY <1>7 DEF ReadFails
<1>8. CASE ReleaseLate(w, t)
    BY <1>8 DEF ReleaseLate
<1>9. CASE ReviewerAnswers(w, t)
    BY <1>9 DEF ReviewerAnswers
<1> QED
    BY <1>1, <1>2, <1>3, <1>4, <1>5, <1>6, <1>7, <1>8, <1>9 DEF TargetStep

-----------------------------------------------------------------------------
(* The types and the counts.                                               *)

(* What the registry does to its records leaves the counts as they are,    *)
(* but for a registration, which starts at zero.                           *)
LEMMA RegistryCounts ==
    ASSUME RegTypeOK, DrainInv, NEW w \in Waits,
           \/ \E j \in Jobs : \/ CaptureGeneration(j) \/ RefuseRegistration(j)
                              \/ StartRunner(j) \/ SkipRunner(j) \/ SettleRunner(j)
           \/ \E j \in Jobs : Register(j) /\ j # w
           \/ \E c \in Callers : \/ \E j \in Jobs : RequestCancel(c, j)
                                 \/ DrainObserved(c) \/ SettleCancel(c)
           \/ BeginSession \/ Shutdown
    PROVE  rec'[w].acts = rec[w].acts
<1>0. w \in Jobs /\ rec \in [Jobs -> JobRecord]
    BY DEF Jobs, RegTypeOK
<1> USE DEF JobRecord
<1>1. ASSUME NEW j \in Jobs, CaptureGeneration(j) \/ RefuseRegistration(j)
      PROVE  rec'[w].acts = rec[w].acts
    BY <1>1 DEF CaptureGeneration, RefuseRegistration
<1>2. ASSUME NEW j \in Jobs, StartRunner(j)
      PROVE  rec'[w].acts = rec[w].acts
    BY <1>0, <1>2 DEF StartRunner
<1>3. ASSUME NEW j \in Jobs, SkipRunner(j)
      PROVE  rec'[w].acts = rec[w].acts
    BY <1>0, <1>3 DEF SkipRunner
<1>4. ASSUME NEW j \in Jobs, NEW outcome, SettleLocked(j, outcome)
      PROVE  rec'[w].acts = rec[w].acts
    <2>1. SettleOnce(rec[j], outcome).acts = rec[j].acts
        BY <1>0 DEF SettleOnce
    <2> QED
        BY <2>1, <1>0, <1>4 DEF SettleLocked
<1>5. ASSUME NEW j \in Jobs, SettleRunner(j)
      PROVE  rec'[w].acts = rec[w].acts
    <2>1. CASE rec[j].phase = "running"
        BY <2>1, <1>4, <1>5 DEF SettleRunner
    <2>2. CASE rec[j].phase # "running"
        <3>1. PICK kind : rec' = [rec EXCEPT ![j] = Late(rec[j], kind)]
            BY <2>2, <1>5 DEF SettleRunner
        <3>2. Late(rec[j], kind).acts = rec[j].acts
            BY <1>0 DEF Late
        <3> QED
            BY <3>1, <3>2, <1>0
    <2> QED
        BY <2>1, <2>2
<1>6. ASSUME NEW j \in Jobs, Register(j), j # w
      PROVE  rec'[w].acts = rec[w].acts
    BY <1>0, <1>6 DEF Register
<1>7. ASSUME NEW c \in Callers, NEW j \in Jobs, RequestCancel(c, j)
      PROVE  rec'[w].acts = rec[w].acts
    BY <1>0, <1>7 DEF RequestCancel
<1>8. ASSUME NEW c \in Callers, DrainObserved(c)
      PROVE  rec'[w].acts = rec[w].acts
    BY <1>8 DEF DrainObserved
<1>9. ASSUME NEW c \in Callers, SettleCancel(c)
      PROVE  rec'[w].acts = rec[w].acts
    <2>1. call[c].job \in Jobs
        BY <1>9 DEF SettleCancel, DrainInv
    <2> QED
        BY <2>1, <1>4, <1>9 DEF SettleCancel
<1>10. CASE BeginSession \/ Shutdown
    <2>1. AbandonAll
        BY <1>10 DEF BeginSession, Shutdown
    <2> QED
        BY <2>1, <1>0 DEF AbandonAll
<1> QED
    BY <1>1, <1>2, <1>3, <1>5, <1>6, <1>7, <1>8, <1>9, <1>10

(* An observation keeps the types and the count.                           *)
LEMMA ObservationTypes ==
    ASSUME TypeOK, NEW w \in Waits, Observes(w)
    PROVE  TypeOK'
<1> PICK t \in Targets, o \in Observations :
        Observe(w, t, o) /\ (o \in Guarded => wait[w].obs[t] \in Guarded)
    BY DEF Observes
<1>0. w \in Jobs /\ rec[w] \in JobRecord /\ wait[w] \in WaitStates
    BY DEF Jobs, TypeOK, RegTypeOK, WaitTypeOK
<1> DEFINE obs == [wait[w].obs EXCEPT ![t] = o]
<1>1. wait[w].obs \in [Targets -> Observations] /\ obs \in [Targets -> Observations]
    BY <1>0 DEF WaitStates
<1>2. [wait[w] EXCEPT !.obs = obs] \in WaitStates
    BY <1>0, <1>1 DEF WaitStates
<1>3. wait' = [wait EXCEPT ![w] = [wait[w] EXCEPT !.obs = obs]]
    BY DEF Observe
<1>4. wait'[w].obs = obs /\ \A v \in Waits : v # w => wait'[v] = wait[v]
    BY <1>0, <1>3 DEF TypeOK, WaitTypeOK, WaitStates
<1>5. Cardinality(GuardedReads(obs)) =
         IF wait[w].obs[t] \in Guarded /\ o \notin Guarded THEN rec[w].acts - 1 ELSE rec[w].acts
    BY <1>1, ObservationCounts DEF TypeOK
<1>6. Cardinality(GuardedReads(obs)) \in Nat
    BY ReadsAreCounted
<1> HIDE DEF obs
<1>7. rec' = [rec EXCEPT ![w] = [rec[w] EXCEPT !.acts = Cardinality(GuardedReads(obs))]]
    <2>1. CASE wait[w].obs[t] \in Guarded /\ o \notin Guarded
        BY <2>1, <1>5 DEF Observe
    <2>2. CASE ~(wait[w].obs[t] \in Guarded /\ o \notin Guarded)
        <3>1. rec' = rec
            BY <2>2 DEF Observe
        <3>2. [rec[w] EXCEPT !.acts = Cardinality(GuardedReads(obs))] = rec[w]
            BY <2>2, <1>5, <1>0 DEF JobRecord
        <3> QED
            BY <3>1, <3>2 DEF TypeOK, RegTypeOK
    <2> QED
        BY <2>1, <2>2
<1>8. [rec[w] EXCEPT !.acts = Cardinality(GuardedReads(obs))] \in JobRecord
    BY <1>0, <1>6, RecordMoves
<1>9. RegTypeOK'
    <2>1. rec' \in [Jobs -> JobRecord]
        BY <1>0, <1>7, <1>8 DEF TypeOK, RegTypeOK
    <2> QED
        BY <2>1 DEF Observe, TypeOK, RegTypeOK
<1>10. WaitTypeOK'
    BY <1>2, <1>3 DEF Observe, TypeOK, WaitTypeOK
<1>11. \A v \in Waits : rec'[v].acts = Cardinality(GuardedReads(wait'[v].obs))
    <2> TAKE v \in Waits
    <2>1. CASE v = w
        BY <2>1, <1>0, <1>4, <1>7, <1>8 DEF TypeOK, RegTypeOK, JobRecord
    <2>2. CASE v # w
        <3>1. rec'[v] = rec[v] /\ wait'[v] = wait[v]
            BY <2>2, <1>4, <1>7 DEF TypeOK, RegTypeOK, Jobs
        <3> QED
            BY <3>1 DEF TypeOK
    <2> QED
        BY <2>1, <2>2
<1> QED
    BY <1>9, <1>10, <1>11 DEF TypeOK

(* The start of a pass counts its reads.                                   *)
LEMMA PassTypes ==
    ASSUME TypeOK, NEW w \in Waits, PassStarts(w)
    PROVE  TypeOK'
<1> PICK stage \in Stages_ \ {"idle", "prepared"}, slots \in [Targets -> {"started", "covered"}] :
        StartPass(w, stage, slots)
    BY DEF PassStarts
<1>0. w \in Jobs /\ rec[w] \in JobRecord /\ wait[w] \in WaitStates
    BY DEF Jobs, TypeOK, RegTypeOK, WaitTypeOK
<1>1. slots \in [Targets -> Observations]
    BY FinishedIsOver
<1>2. [wait[w] EXCEPT !.stage = stage, !.obs = slots] \in WaitStates
    BY <1>0, <1>1 DEF WaitStates
<1>3. wait' = [wait EXCEPT ![w] = [wait[w] EXCEPT !.stage = stage, !.obs = slots]]
    BY DEF StartPass
<1>4. wait'[w].obs = slots /\ \A v \in Waits : v # w => wait'[v] = wait[v]
    BY <1>0, <1>3 DEF TypeOK, WaitTypeOK, WaitStates
<1>5. Cardinality(GuardedReads(slots)) \in Nat
    BY ReadsAreCounted
<1>6. rec' = [rec EXCEPT ![w] = [rec[w] EXCEPT !.acts = Cardinality(GuardedReads(slots))]]
    BY DEF StartPass
<1>7. [rec[w] EXCEPT !.acts = Cardinality(GuardedReads(slots))] \in JobRecord
    BY <1>0, <1>5, RecordMoves
<1>8. RegTypeOK'
    <2>1. rec' \in [Jobs -> JobRecord]
        BY <1>0, <1>6, <1>7 DEF TypeOK, RegTypeOK
    <2> QED
        BY <2>1 DEF StartPass, TypeOK, RegTypeOK
<1>9. WaitTypeOK'
    BY <1>2, <1>3 DEF StartPass, TypeOK, WaitTypeOK
<1>10. \A v \in Waits : rec'[v].acts = Cardinality(GuardedReads(wait'[v].obs))
    <2> TAKE v \in Waits
    <2>1. CASE v = w
        BY <2>1, <1>0, <1>4, <1>6, <1>7 DEF TypeOK, RegTypeOK, JobRecord
    <2>2. CASE v # w
        <3>1. rec'[v] = rec[v] /\ wait'[v] = wait[v]
            BY <2>2, <1>4, <1>6 DEF TypeOK, RegTypeOK, Jobs
        <3> QED
            BY <3>1 DEF TypeOK
    <2> QED
        BY <2>1, <2>2
<1> QED
    BY <1>8, <1>9, <1>10 DEF TypeOK

(* The runner that ends leaves its reads, and their count, behind.         *)
LEMMA ReturnTypes ==
    ASSUME TypeOK, NEW w \in Waits, RunnerReturns(w)
    PROVE  TypeOK'
<1> PICK outcome \in WaitResults \cup {"rejected"}, matched \in SUBSET Targets :
        Returns(w, outcome, matched)
    BY DEF RunnerReturns
<1>0. w \in Jobs /\ rec[w] \in JobRecord /\ wait[w] \in WaitStates
    BY DEF Jobs, TypeOK, RegTypeOK, WaitTypeOK
<1> DEFINE obs == LeftBehind(wait[w].obs)
           next == [wait[w] EXCEPT !.stage = "over", !.matched = matched, !.obs = obs,
                                   !.due = FALSE, !.doubt = {}, !.hard = FALSE]
<1>1. obs \in [Targets -> Observations]
    BY <1>0 DEF LeftBehind, WaitStates, Observations
<1>2. GuardedReads(obs) = GuardedReads(wait[w].obs)
    BY FinishedIsOver DEF GuardedReads, LeftBehind
<1>3. wait' = [wait EXCEPT ![w] = next]
    BY DEF Returns
<1> HIDE DEF obs
<1>4. next \in WaitStates
    BY <1>0, <1>1 DEF WaitStates, Stages_
<1>5. next.obs = obs
    BY <1>0 DEF WaitStates
<1> HIDE DEF next
<1>6. [rec[w] EXCEPT !.done = TRUE] \in JobRecord
    BY <1>0, RecordMoves
<1>7. rec' = [rec EXCEPT ![w].done = TRUE]
    BY DEF Returns, RunnerEnds
<1>8. RegTypeOK'
    <2>1. rec' \in [Jobs -> JobRecord]
        BY <1>0, <1>6, <1>7 DEF TypeOK, RegTypeOK
    <2>2. answer' \in [Jobs -> Results \cup {"none", "rejected"}]
        BY <1>0 DEF Returns, RunnerEnds, TypeOK, RegTypeOK, Results
    <2>3. runner' \in [Jobs -> {"none", "queued", "live", "ended"}]
        BY <1>0 DEF Returns, RunnerEnds, TypeOK, RegTypeOK
    <2> QED
        BY <2>1, <2>2, <2>3 DEF Returns, RunnerEnds, TypeOK, RegTypeOK
<1>9. WaitTypeOK'
    BY <1>3, <1>4 DEF Returns, TypeOK, WaitTypeOK
<1>10. \A v \in Waits : rec'[v].acts = Cardinality(GuardedReads(wait'[v].obs))
    <2> TAKE v \in Waits
    <2>1. rec'[v].acts = rec[v].acts
        BY <1>0, <1>7 DEF TypeOK, RegTypeOK, Jobs, JobRecord
    <2>2. GuardedReads(wait'[v].obs) = GuardedReads(wait[v].obs)
        <3>1. wait'[v] = IF v = w THEN next ELSE wait[v]
            BY <1>3 DEF TypeOK, WaitTypeOK
        <3> QED
            BY <3>1, <1>2, <1>5
    <2> QED
        BY <2>1, <2>2 DEF TypeOK
<1> QED
    BY <1>8, <1>9, <1>10 DEF TypeOK

(* Between passes nothing is counted.                                      *)
LEMMA RestTypes ==
    ASSUME TypeOK, NEW w \in Waits, RunnerRests(w)
    PROVE  TypeOK'
<1> PICK next \in WaitStates :
        /\ wait' = [wait EXCEPT ![w] = next]
        /\ \/ next.obs = wait[w].obs
           \/ next.obs = NoObs /\ \A t \in Targets : wait[w].obs[t] \notin Guarded
        /\ UNCHANGED <<regVars, pane, changes, artifact, past, hit, vouched>>
    BY DEF RunnerRests
<1>1. RegTypeOK'
    BY DEF TypeOK, RegTypeOK, regVars
<1>2. WaitTypeOK'
    BY DEF TypeOK, WaitTypeOK
<1>3. \A v \in Waits : rec'[v].acts = Cardinality(GuardedReads(wait'[v].obs))
    <2> TAKE v \in Waits
    <2>1. rec'[v] = rec[v]
        BY DEF regVars
    <2>2. GuardedReads(wait'[v].obs) = GuardedReads(wait[v].obs)
        <3>1. wait'[v] = IF v = w THEN next ELSE wait[v]
            BY DEF TypeOK, WaitTypeOK
        <3>2. GuardedReads(next.obs) = GuardedReads(wait[w].obs)
            BY FinishedIsOver DEF GuardedReads, NoObs
        <3> QED
            BY <3>1, <3>2
    <2> QED
        BY <2>1, <2>2 DEF TypeOK
<1> QED
    BY <1>1, <1>2, <1>3 DEF TypeOK

(* The steps of the panes, of the artifacts and of the deadline.           *)
WorldStep ==
    \/ \E t \in Targets : AgentMoves(t) \/ OccupantReplaced(t) \/ ArtifactChanges(t)
    \/ \E w \in Waits : DeadlinePasses(w)

(* The registry's steps that leave the waits alone.                        *)
RegistryAlone ==
    /\ UNCHANGED waitVars
    /\ \/ \E w \in Waits : \/ CaptureGeneration(w) \/ StartRunner(w) \/ SkipRunner(w) \/ SettleRunner(w)
                           \/ wait[w].stage = "prepared" /\ Register(w)
       \/ \E c \in Callers : \/ \E j \in Jobs : RequestCancel(c, j)
                             \/ DrainObserved(c) \/ SettleCancel(c)
       \/ BeginSession \/ Shutdown

(* Every step has one of these shapes.                                     *)
LEMMA Shapes ==
    ASSUME WaitTypeOK, [Next]_vars
    PROVE  \/ UNCHANGED vars
           \/ RegistryAlone
           \/ WorldStep
           \/ \E w \in Waits : \/ PrepareWait(w) \/ PrepareFails(w) \/ RefuseWait(w)
                               \/ Observes(w) \/ PassStarts(w) \/ RunnerReturns(w) \/ RunnerRests(w)
<1>1. CASE UNCHANGED vars \/ AllOver
    BY <1>1 DEF AllOver
<1>2. ASSUME NEW w \in Waits, AskWait(w) \/ RegisterWait(w) \/ RegistryStep(w)
      PROVE  RegistryAlone
    BY <1>2 DEF AskWait, RegisterWait, RegistryStep, StartWait, Quiet, RegistryAlone
<1>3. ASSUME NEW c \in Callers, (\E j \in Jobs : Quiet(RequestCancel(c, j))) \/ CancelStep(c)
      PROVE  RegistryAlone
    BY <1>3 DEF CancelStep, Quiet, RegistryAlone
<1>4. CASE Quiet(BeginSession) \/ Quiet(Shutdown)
    BY <1>4 DEF Quiet, RegistryAlone
<1>5. ASSUME NEW w \in Waits, RunnerStep(w)
      PROVE  PassStarts(w) \/ RunnerReturns(w) \/ RunnerRests(w)
    BY <1>5, RunnerSteps
<1>6. ASSUME NEW w \in Waits, NEW t \in Targets, TargetStep(w, t)
      PROVE  Observes(w)
    BY <1>6, ReadsObserve
<1>7. ASSUME NEW t \in Targets, AgentMoves(t) \/ OccupantReplaced(t) \/ ArtifactChanges(t)
      PROVE  WorldStep
    BY <1>7 DEF WorldStep
<1>8. ASSUME NEW w \in Waits, DeadlinePasses(w)
      PROVE  WorldStep
    BY <1>8 DEF WorldStep
<1> QED
    BY <1>1, <1>2, <1>3, <1>4, <1>5, <1>6, <1>7, <1>8 DEF Next

(* The panes and the clock keep the types.                                 *)
LEMMA WorldTypes ==
    ASSUME TypeOK, WorldStep
    PROVE  TypeOK'
<1> USE WaitAssumption
<1>1. UNCHANGED <<regVars, wait>>
    BY DEF WorldStep, AgentMoves, OccupantReplaced, PaneChanges, ArtifactChanges, DeadlinePasses
<1>2. RegTypeOK' /\ \A w \in Waits : rec'[w].acts = Cardinality(GuardedReads(wait'[w].obs))
    BY <1>1 DEF TypeOK, RegTypeOK, regVars
<1>3. ASSUME NEW panes, NEW artifacts \in SUBSET Targets, Witness(panes, artifacts)
      PROVE  hit' \in [Waits -> SUBSET Targets] /\ vouched' \in [Waits -> SUBSET Targets]
    BY <1>3 DEF Witness, TypeOK, WaitTypeOK
<1>4. ASSUME NEW t \in Targets, NEW next \in PaneStates, PaneChanges(t, next)
      PROVE  WaitTypeOK'
    <2>1. changes' \in 0..MaxChanges
        BY <1>4 DEF PaneChanges, WorldChanges, TypeOK, WaitTypeOK
    <2>2. artifact \in SUBSET Targets /\ Witness(pane', artifact)
        BY <1>4 DEF PaneChanges, TypeOK, WaitTypeOK
    <2>3. hit' \in [Waits -> SUBSET Targets] /\ vouched' \in [Waits -> SUBSET Targets]
        BY <2>2, <1>3
    <2> QED
        BY <2>1, <2>3, <1>4 DEF PaneChanges, TypeOK, WaitTypeOK
<1>5. ASSUME NEW t \in Targets, AgentMoves(t)
      PROVE  WaitTypeOK'
    <2>1. PICK s \in {"working", "met", "absent"} : PaneChanges(t, [pane[t] EXCEPT !.state = s])
        BY <1>5 DEF AgentMoves
    <2>2. [pane[t] EXCEPT !.state = s] \in PaneStates
        BY DEF TypeOK, WaitTypeOK, PaneStates
    <2> QED
        BY <2>1, <2>2, <1>4
<1>6. ASSUME NEW t \in Targets, OccupantReplaced(t)
      PROVE  WaitTypeOK'
    <2>1. PICK s \in {"working", "met"} :
              pane[t].occ < MaxOccupants /\ PaneChanges(t, [occ |-> pane[t].occ + 1, state |-> s])
        BY <1>6 DEF OccupantReplaced
    <2>2. pane[t].occ + 1 \in 0..MaxOccupants
        BY <2>1 DEF TypeOK, WaitTypeOK, PaneStates
    <2>3. [occ |-> pane[t].occ + 1, state |-> s] \in PaneStates
        BY <2>2 DEF PaneStates
    <2> QED
        BY <2>1, <2>3, <1>4
<1>7. ASSUME NEW t \in Targets, ArtifactChanges(t)
      PROVE  WaitTypeOK'
    <2>1. changes' \in 0..MaxChanges
        BY <1>7 DEF ArtifactChanges, WorldChanges, TypeOK, WaitTypeOK
    <2>2. artifact' \in SUBSET Targets /\ Witness(pane, artifact')
        BY <1>7 DEF ArtifactChanges, TypeOK, WaitTypeOK
    <2>3. hit' \in [Waits -> SUBSET Targets] /\ vouched' \in [Waits -> SUBSET Targets]
        BY <2>2, <1>3
    <2> QED
        BY <2>1, <2>2, <2>3, <1>7 DEF ArtifactChanges, TypeOK, WaitTypeOK
<1>8. ASSUME NEW w \in Waits, DeadlinePasses(w)
      PROVE  WaitTypeOK'
    BY <1>8 DEF DeadlinePasses, TypeOK, WaitTypeOK
<1>9. WaitTypeOK'
    BY <1>5, <1>6, <1>7, <1>8 DEF WorldStep
<1> QED
    BY <1>2, <1>9 DEF TypeOK

(* So does the registry, whose counts start at zero.                       *)
LEMMA RegistryTypes ==
    ASSUME TypeOK, StageInv, DrainInv, RegistryAlone
    PROVE  TypeOK'
<1>0. RegTypeOK /\ Waits \subseteq Jobs
    BY DEF TypeOK, Jobs
<1>1. WaitTypeOK' /\ wait' = wait
    BY DEF RegistryAlone, waitVars, TypeOK, WaitTypeOK
<1>2. RegTypeOK'
    BY <1>0, RegistrationTypes, CancellationTypes, SessionTypes DEF RegistryAlone
<1>3. ASSUME NEW v \in Waits
      PROVE  rec'[v].acts = Cardinality(GuardedReads(wait[v].obs))
    <2>1. CASE Register(v) /\ wait[v].stage = "prepared"
        <3>1. rec'[v].acts = 0
            BY <1>0, <2>1 DEF Register, RegTypeOK, Absent
        <3>2. \A t \in Targets : wait[v].obs[t] \notin Guarded
            BY <2>1, FinishedIsOver DEF StageInv, StageOK
        <3> QED
            BY <3>1, <3>2, ReadsAreCounted
    <2>2. CASE ~(Register(v) /\ wait[v].stage = "prepared")
        <3>1. rec'[v].acts = rec[v].acts
            BY <1>0, <2>2, RegistryCounts DEF RegistryAlone
        <3> QED
            BY <3>1 DEF TypeOK
    <2> QED
        BY <2>1, <2>2
<1> QED
    BY <1>1, <1>2, <1>3 DEF TypeOK

(* The preparation of a wait keeps the types.                              *)
LEMMA PreparationTypes ==
    ASSUME TypeOK, NEW w \in Waits, PrepareWait(w) \/ PrepareFails(w) \/ RefuseWait(w)
    PROVE  TypeOK'
<1>0. wait[w] \in WaitStates /\ w \in Jobs
    BY DEF TypeOK, WaitTypeOK, Jobs
<1>1. RegTypeOK' /\ rec' = rec
    <2>1. CASE PrepareWait(w)
        BY <2>1 DEF PrepareWait, TypeOK, RegTypeOK, regVars
    <2>2. CASE PrepareFails(w)
        <3>1. asked' \in [Jobs -> 0..NoGeneration]
            BY <2>2, <1>0, JobsAssumption DEF PrepareFails, TypeOK, RegTypeOK, NoGeneration
        <3> QED
            BY <3>1, <2>2 DEF PrepareFails, TypeOK, RegTypeOK
    <2>3. CASE RefuseWait(w)
        BY <2>3, <1>0, RegistrationTypes DEF RefuseWait, RefuseRegistration, TypeOK
    <2> QED
        BY <2>1, <2>2, <2>3
<1>2. WaitTypeOK' /\ \A v \in Waits : wait'[v].obs = wait[v].obs
    <2>1. CASE PrepareWait(w)
        <3>1. PICK kind \in {"state", "output"}, match \in {"any", "all"} :
                 wait' = [wait EXCEPT ![w] = [wait[w] EXCEPT !.stage = "prepared", !.kind = kind,
                                                     !.match = match,
                                                     !.pin = [t \in Targets |-> pane[t].occ]]]
            BY <2>1 DEF PrepareWait
        <3>2. [t \in Targets |-> pane[t].occ] \in [Targets -> 0..MaxOccupants]
            BY DEF TypeOK, WaitTypeOK, PaneStates
        <3> DEFINE next == [wait[w] EXCEPT !.stage = "prepared", !.kind = kind, !.match = match,
                                           !.pin = [t \in Targets |-> pane[t].occ]]
        <3>3. next \in WaitStates /\ next.obs = wait[w].obs
            BY <1>0, <3>2 DEF WaitStates, Stages_
        <3> HIDE DEF next
        <3>4. wait' = [wait EXCEPT ![w] = next]
            BY <3>1 DEF next
        <3>5. wait' \in [Waits -> WaitStates] /\ \A v \in Waits : wait'[v].obs = wait[v].obs
            BY <3>3, <3>4 DEF TypeOK, WaitTypeOK
        <3>6. hit' \in [Waits -> SUBSET Targets] /\ vouched' \in [Waits -> SUBSET Targets]
            BY <2>1 DEF PrepareWait, TypeOK, WaitTypeOK
        <3> QED
            BY <2>1, <3>5, <3>6 DEF PrepareWait, TypeOK, WaitTypeOK
    <2>2. CASE PrepareFails(w)
        BY <2>2 DEF PrepareFails, waitVars, TypeOK, WaitTypeOK
    <2>3. CASE RefuseWait(w)
        <3>1. [wait[w] EXCEPT !.stage = "idle"] \in WaitStates
              /\ [wait[w] EXCEPT !.stage = "idle"].obs = wait[w].obs
            BY <1>0 DEF WaitStates, Stages_
        <3>2. wait' \in [Waits -> WaitStates] /\ \A v \in Waits : wait'[v].obs = wait[v].obs
            BY <3>1, <2>3 DEF RefuseWait, TypeOK, WaitTypeOK
        <3> QED
            BY <2>3, <3>2 DEF RefuseWait, TypeOK, WaitTypeOK
    <2> QED
        BY <2>1, <2>2, <2>3
<1> QED
    BY <1>1, <1>2 DEF TypeOK

(* Every step keeps the types and the counts.                              *)
LEMMA TypeStep ==
    ASSUME TypeOK, StageInv, DrainInv, [Next]_vars
    PROVE  TypeOK'
<1>1. CASE UNCHANGED vars
    BY <1>1 DEF vars, regVars, waitVars, TypeOK, RegTypeOK, WaitTypeOK
<1>2. WaitTypeOK
    BY DEF TypeOK
<1> QED
    BY <1>1, <1>2, Shapes, RegistryTypes, WorldTypes, PreparationTypes, ObservationTypes, PassTypes,
       ReturnTypes, RestTypes

-----------------------------------------------------------------------------
(* The records, the runners and what the manager is told.                  *)

(* What the manager was told of a wait.                                    *)
ToldOK(w) == told[w] = IF rec[w].phase = "settled" /\ rec[w].reason = "none" THEN 1 ELSE 0

(* A job the step leaves alone, but for its count.                         *)
JobKept(w) ==
    /\ rec'[w].phase = rec[w].phase /\ rec'[w].gate = rec[w].gate /\ rec'[w].done = rec[w].done
    /\ rec'[w].reason = rec[w].reason /\ rec'[w].result = rec[w].result /\ rec'[w].listed = rec[w].listed
    /\ runner'[w] = runner[w] /\ answer'[w] = answer[w] /\ told'[w] = told[w]

LEMMA KeptIsKept ==
    ASSUME NEW w \in Waits, JobKept(w)
    PROVE  (JobOK(w) => JobOK(w)') /\ (ToldOK(w) => ToldOK(w)')
BY DEF JobKept, JobOK, ToldOK

(* The steps of the waits that do not end a runner leave the jobs alone.   *)
LEMMA JobsAreKept ==
    ASSUME RegTypeOK, NEW w \in Waits, NEW v \in Waits,
           \/ WorldStep \/ PrepareWait(w) \/ PrepareFails(w) \/ RefuseWait(w)
           \/ Observes(w) \/ PassStarts(w) \/ RunnerRests(w) \/ UNCHANGED vars
    PROVE  JobKept(v) /\ UNCHANGED <<runner, answer, call, told>>
<1>0. w \in Jobs /\ v \in Jobs /\ rec \in [Jobs -> JobRecord]
    BY DEF Jobs, RegTypeOK
<1>1. CASE WorldStep
    BY <1>1 DEF WorldStep, AgentMoves, OccupantReplaced, PaneChanges, ArtifactChanges, DeadlinePasses,
                regVars, JobKept
<1>2. CASE PrepareWait(w) \/ PrepareFails(w) \/ RefuseWait(w) \/ UNCHANGED vars
    BY <1>2 DEF PrepareWait, PrepareFails, RefuseWait, RefuseRegistration, vars, regVars, JobKept
<1>3. CASE Observes(w)
    <2>1. PICK t \in Targets, o \in Observations : Observe(w, t, o)
        BY <1>3 DEF Observes
    <2>2. rec' = rec \/ \E n : rec' = [rec EXCEPT ![w].acts = n]
        BY <2>1 DEF Observe
    <2> QED
        BY <1>0, <2>1, <2>2 DEF Observe, JobKept, JobRecord
<1>4. CASE PassStarts(w)
    <2>1. PICK stage, slots : StartPass(w, stage, slots)
        BY <1>4 DEF PassStarts
    <2>2. \E n : rec' = [rec EXCEPT ![w].acts = n]
        BY <2>1 DEF StartPass
    <2> QED
        BY <1>0, <2>1, <2>2 DEF StartPass, JobKept, JobRecord
<1>5. CASE RunnerRests(w)
    BY <1>5 DEF RunnerRests, regVars, JobKept
<1> QED
    BY <1>1, <1>2, <1>3, <1>4, <1>5

(* The end of a runner.                                                    *)
LEMMA ReturnKeepsJobs ==
    ASSUME RegTypeOK, NEW w \in Waits, NEW v \in Waits, JobOK(v), ToldOK(v), RunnerReturns(w)
    PROVE  JobOK(v)' /\ ToldOK(v)'
<1>0. w \in Jobs /\ v \in Jobs /\ rec \in [Jobs -> JobRecord]
    BY DEF Jobs, RegTypeOK
<1> PICK outcome \in WaitResults \cup {"rejected"}, matched \in SUBSET Targets :
        Returns(w, outcome, matched)
    BY DEF RunnerReturns
<1>1. CASE v # w
    <2>1. JobKept(v)
        BY <1>0, <1>1 DEF Returns, RunnerEnds, RegTypeOK, JobKept
    <2> QED
        BY <2>1, KeptIsKept
<1>2. CASE v = w
    <2>1. /\ rec'[v].phase = rec[v].phase /\ rec'[v].gate = rec[v].gate /\ rec'[v].reason = rec[v].reason
          /\ rec'[v].result = rec[v].result /\ rec'[v].listed = rec[v].listed
          /\ runner'[v] = "ended" /\ answer'[v] = outcome /\ told' = told /\ runner[v] = "live"
        BY <1>0, <1>2 DEF Returns, RunnerEnds, RegTypeOK, JobRecord
    <2>2. outcome # "none"
        BY DEF WaitResults
    <2> QED
        BY <2>1, <2>2 DEF JobOK, ToldOK
<1> QED
    BY <1>1, <1>2

(* A job that the manager is told of settles for itself.                   *)
LEMMA SettlingTells ==
    ASSUME RegTypeOK, NEW v \in Waits, JobOK(v), ToldOK(v), NEW j \in Jobs, NEW outcome \in Results,
           SettleLocked(j, outcome),
           v = j => rec[v].phase # "absent" /\ (rec[v].reason = "none" => outcome # "cancelled")
    PROVE  /\ ToldOK(v)'
           /\ v # j => rec'[v] = rec[v] /\ told'[v] = told[v]
           /\ v = j => /\ rec'[v].phase = "settled" /\ rec'[v].reason = rec[v].reason
                       /\ rec'[v].done = rec[v].done /\ rec'[v].listed = rec[v].listed
                       /\ rec'[v].result = IF rec[v].phase = "settled" THEN rec[v].result ELSE outcome
<1>0. v \in Jobs /\ v \notin Sups /\ rec \in [Jobs -> JobRecord] /\ told \in [Jobs -> Nat]
    BY JobsAssumption DEF Jobs, RegTypeOK
<1>1. CASE v # j
    <2>1. rec'[v] = rec[v] /\ told'[v] = told[v]
        BY <1>0, <1>1 DEF SettleLocked, NotifyTerminal
    <2> QED
        BY <2>1, <1>1 DEF ToldOK
<1>2. CASE v = j
    <2>1. rec'[v] = SettleOnce(rec[v], outcome)
        BY <1>0, <1>2 DEF SettleLocked
    <2>2. /\ rec'[v].phase = "settled" /\ rec'[v].reason = rec[v].reason
          /\ rec'[v].done = rec[v].done /\ rec'[v].listed = rec[v].listed
          /\ rec'[v].result = IF rec[v].phase = "settled" THEN rec[v].result ELSE outcome
        BY <1>0, <2>1 DEF SettleOnce, JobRecord
    <2>3. NotifyTerminal(v, outcome)
        BY <1>0, <1>2 DEF SettleLocked
    <2>4. told'[v] = IF rec[v].phase # "settled" /\ rec[v].reason = "none" THEN told[v] + 1 ELSE told[v]
        BY <1>0, <1>2, <2>3 DEF NotifyTerminal
    <2>5. ToldOK(v)'
        BY <2>2, <2>4 DEF ToldOK
    <2> QED
        BY <2>2, <2>5, <1>2
<1> QED
    BY <1>1, <1>2

(* The registry's own steps keep a job right.                              *)
LEMMA RegistryKeepsJobs ==
    ASSUME RegTypeOK, JobInv, DrainInv, NEW v \in Waits, ToldOK(v), RegistryAlone
    PROVE  JobOK(v)' /\ ToldOK(v)'
<1>0. v \in Jobs /\ Waits \subseteq Jobs /\ rec \in [Jobs -> JobRecord] /\ JobOK(v)
    BY DEF Jobs, RegTypeOK, JobInv
<1>1. ASSUME NEW w \in Waits, CaptureGeneration(w)
      PROVE  JobOK(v)' /\ ToldOK(v)'
    BY <1>0, <1>1, KeptIsKept DEF CaptureGeneration, JobKept
<1>2. ASSUME NEW w \in Waits, Register(w)
      PROVE  JobOK(v)' /\ ToldOK(v)'
    <2>1. CASE v # w
        <3>1. JobKept(v)
            BY <1>0, <1>2, <2>1 DEF Register, RegTypeOK, JobKept
        <3> QED
            BY <3>1, <1>0, KeptIsKept
    <2>2. CASE v = w
        <3>1. /\ rec'[v].phase = "accepted" /\ rec'[v].gate /\ ~rec'[v].done /\ rec'[v].reason = "none"
              /\ rec'[v].result = "none" /\ rec'[v].listed
              /\ runner'[v] = "queued" /\ answer'[v] = answer[v] /\ told'[v] = told[v]
              /\ rec[v].phase = "absent"
            BY <1>0, <1>2, <2>2 DEF Register, RegTypeOK, Absent
        <3> QED
            BY <3>1, <1>0 DEF JobOK, ToldOK
    <2> QED
        BY <2>1, <2>2
<1>3. ASSUME NEW w \in Waits, StartRunner(w)
      PROVE  JobOK(v)' /\ ToldOK(v)'
    <2>1. CASE v # w
        <3>1. JobKept(v)
            BY <1>0, <1>3, <2>1 DEF StartRunner, RegTypeOK, JobKept
        <3> QED
            BY <3>1, <1>0, KeptIsKept
    <2>2. CASE v = w
        <3>1. /\ rec'[v].phase = "running" /\ rec'[v].done = rec[v].done /\ rec'[v].reason = rec[v].reason
              /\ rec'[v].result = rec[v].result /\ rec'[v].listed = rec[v].listed
              /\ runner'[v] = "live" /\ answer'[v] = answer[v] /\ told'[v] = told[v]
              /\ rec[v].phase = "accepted" /\ runner[v] = "queued"
            BY <1>0, <1>3, <2>2 DEF StartRunner, RegTypeOK, JobRecord
        <3> QED
            BY <3>1, <1>0 DEF JobOK, ToldOK
    <2> QED
        BY <2>1, <2>2
<1>4. ASSUME NEW w \in Waits, SkipRunner(w)
      PROVE  JobOK(v)' /\ ToldOK(v)'
    <2>1. CASE v # w
        <3>1. JobKept(v)
            BY <1>0, <1>4, <2>1 DEF SkipRunner, RegTypeOK, JobKept
        <3> QED
            BY <3>1, <1>0, KeptIsKept
    <2>2. CASE v = w
        <3>1. /\ rec'[v].phase = rec[v].phase /\ rec'[v].gate = rec[v].gate /\ rec'[v].reason = rec[v].reason
              /\ rec'[v].result = rec[v].result /\ rec'[v].listed = rec[v].listed
              /\ runner'[v] = "ended" /\ answer'[v] = answer[v] /\ told'[v] = told[v]
              /\ runner[v] = "queued" /\ rec[v].phase # "absent"
            BY <1>0, <1>4, <2>2 DEF SkipRunner, RegTypeOK, JobRecord, JobOK
        <3> QED
            BY <3>1, <1>0 DEF JobOK, ToldOK
    <2> QED
        BY <2>1, <2>2
<1>5. ASSUME NEW w \in Waits, SettleRunner(w)
      PROVE  JobOK(v)' /\ ToldOK(v)'
    <2>0. w \in Jobs /\ JobOK(w) /\ answer' = [answer EXCEPT ![w] = "none"] /\ runner' = runner
        BY <1>0, <1>5 DEF SettleRunner, JobInv
    <2>1. CASE rec[w].phase # "running"
        <3>1. PICK kind : rec' = [rec EXCEPT ![w] = Late(rec[w], kind)]
            BY <2>1, <1>5 DEF SettleRunner
        <3>2. /\ rec'[v].phase = rec[v].phase /\ rec'[v].gate = rec[v].gate /\ rec'[v].reason = rec[v].reason
              /\ rec'[v].result = rec[v].result /\ rec'[v].listed = rec[v].listed /\ rec'[v].done = rec[v].done
            BY <1>0, <2>0, <3>1 DEF Late, JobRecord
        <3>3. told' = told
            BY <2>1, <1>5 DEF SettleRunner
        <3>4. answer'[v] = IF v = w THEN "none" ELSE answer[v]
            BY <1>0, <2>0 DEF RegTypeOK
        <3> QED
            BY <3>2, <3>3, <3>4, <2>0, <2>1, <1>0 DEF JobOK, ToldOK
    <2>2. CASE rec[w].phase = "running"
        <3> DEFINE outcome == IF answer[w] = "rejected" THEN "failed" ELSE answer[w]
        <3>1. outcome \in Results /\ outcome # "cancelled" /\ outcome # "none"
            BY <2>0, <1>5 DEF SettleRunner, JobOK, WaitResults, Results, GenericTerminals
        <3>2. SettleLocked(w, outcome)
            BY <2>2, <1>5 DEF SettleRunner
        <3> HIDE DEF outcome
        <3>3. /\ ToldOK(v)'
              /\ v # w => rec'[v] = rec[v] /\ told'[v] = told[v]
              /\ v = w => /\ rec'[v].phase = "settled" /\ rec'[v].reason = rec[v].reason
                          /\ rec'[v].done = rec[v].done
            BY <3>1, <3>2, <2>0, <2>2, <1>0, SettlingTells
        <3>4. answer'[v] = IF v = w THEN "none" ELSE answer[v]
            BY <1>0, <2>0 DEF RegTypeOK
        <3> QED
            BY <3>3, <3>4, <2>0, <2>2, <1>0 DEF JobOK
    <2> QED
        BY <2>1, <2>2
<1>6. ASSUME NEW c \in Callers, NEW j \in Jobs, RequestCancel(c, j)
      PROVE  JobOK(v)' /\ ToldOK(v)'
    <2>1. CASE v # j \/ rec[j].phase = "cancel_requested"
        <3>1. JobKept(v)
            BY <1>0, <1>6, <2>1 DEF RequestCancel, RegTypeOK, JobKept
        <3> QED
            BY <3>1, <1>0, KeptIsKept
    <2>2. CASE v = j /\ rec[j].phase # "cancel_requested"
        <3>1. /\ rec'[v].phase = "cancel_requested" /\ rec'[v].reason = "cancelled" /\ rec'[v].done = rec[v].done
              /\ rec'[v].result = rec[v].result /\ rec'[v].listed = rec[v].listed
              /\ runner'[v] = runner[v] /\ answer'[v] = answer[v] /\ told'[v] = told[v]
              /\ rec[v].phase # "settled" /\ rec[v].listed
            BY <1>0, <1>6, <2>2 DEF RequestCancel, RegTypeOK, JobRecord
        <3>2. rec[v].phase \in {"accepted", "running"}
            BY <3>1, <2>2, <1>0 DEF JobOK, JobRecord, Phases
        <3> QED
            BY <3>1, <3>2, <1>0 DEF JobOK, ToldOK
    <2> QED
        BY <2>1, <2>2
<1>7. ASSUME NEW c \in Callers, DrainObserved(c)
      PROVE  JobOK(v)' /\ ToldOK(v)'
    BY <1>0, <1>7, KeptIsKept DEF DrainObserved, JobKept
<1>8. ASSUME NEW c \in Callers, SettleCancel(c)
      PROVE  JobOK(v)' /\ ToldOK(v)'
    <2> DEFINE outcome == IF call[c].drained THEN "cancelled" ELSE "unknown"
               j == call[c].job
    <2>1. outcome \in Results /\ outcome # "none"
        BY DEF Results, GenericTerminals
    <2>2. SettleLocked(j, outcome) /\ runner' = runner /\ answer' = answer
        BY <1>8 DEF SettleCancel
    <2>3. /\ j \in Jobs
          /\ v = j => rec[v].phase \in {"cancel_requested", "settled"} /\ rec[v].reason # "none"
        BY <1>8 DEF SettleCancel, DrainInv
    <2> HIDE DEF outcome, j
    <2>4. /\ ToldOK(v)'
          /\ v # j => rec'[v] = rec[v] /\ told'[v] = told[v]
          /\ v = j => /\ rec'[v].phase = "settled" /\ rec'[v].reason = rec[v].reason
                      /\ rec'[v].done = rec[v].done
        BY <2>1, <2>2, <2>3, <1>0, SettlingTells
    <2> QED
        BY <2>2, <2>3, <2>4, <1>0 DEF JobOK
<1>9. CASE BeginSession \/ Shutdown
    <2>1. AbandonAll /\ UNCHANGED <<runner, answer, told>>
        BY <1>9 DEF BeginSession, Shutdown
    <2>2. CASE ~rec[v].listed \/ rec[v].phase = "settled"
        <3>1. /\ rec'[v].phase = rec[v].phase /\ rec'[v].gate = rec[v].gate /\ rec'[v].reason = rec[v].reason
              /\ rec'[v].result = rec[v].result /\ rec'[v].done = rec[v].done
              /\ rec'[v].listed => rec[v].listed
            BY <1>0, <2>1, <2>2 DEF AbandonAll, JobRecord
        <3> QED
            BY <3>1, <2>1, <1>0 DEF JobOK, ToldOK
    <2>3. CASE rec[v].listed /\ rec[v].phase # "settled"
        <3>1. /\ rec'[v].phase = "cancel_requested" /\ rec'[v].reason = "shutdown"
              /\ rec'[v].result = rec[v].result
            BY <1>0, <2>1, <2>3 DEF AbandonAll, JobRecord
        <3> QED
            BY <3>1, <2>1, <2>3, <1>0 DEF JobOK, ToldOK
    <2> QED
        BY <2>2, <2>3
<1> QED
    BY <1>1, <1>2, <1>3, <1>4, <1>5, <1>6, <1>7, <1>8, <1>9 DEF RegistryAlone

-----------------------------------------------------------------------------
(* The stages and the cancellations.                                       *)

(* A wait with reads in flight has been registered.                        *)
LEMMA StageStep ==
    ASSUME TypeOK, JobInv, StageInv, [Next]_vars
    PROVE  StageInv'
<1> SUFFICES ASSUME NEW v \in Waits
             PROVE  StageOK(v)'
    BY DEF StageInv
<1>0. /\ StageOK(v) /\ JobOK(v) /\ v \in Jobs /\ wait[v] \in WaitStates /\ wait \in [Waits -> WaitStates]
      /\ runner \in [Jobs -> {"none", "queued", "live", "ended"}] /\ RegTypeOK /\ WaitTypeOK
    BY DEF StageInv, JobInv, Jobs, TypeOK, WaitTypeOK, RegTypeOK
<1>1. CASE UNCHANGED vars \/ WorldStep
    <2>1. UNCHANGED <<wait, runner>>
        BY <1>1 DEF vars, regVars, waitVars, WorldStep, AgentMoves, OccupantReplaced, PaneChanges,
                    ArtifactChanges, DeadlinePasses
    <2> QED
        BY <2>1, <1>0 DEF StageOK
<1>2. CASE RegistryAlone
    <2>1. wait' = wait
        BY <1>2 DEF RegistryAlone, waitVars
    <2>2. wait[v].stage = "idle" => runner'[v] = "none"
        <3>1. CASE wait[v].stage = "idle"
            <4>1. runner[v] = "none"
                BY <3>1, <1>0 DEF StageOK
            <4>2. \A w \in Waits : StartRunner(w) => v # w
                BY <4>1 DEF StartRunner
            <4>3. \A w \in Waits : SkipRunner(w) => v # w
                BY <4>1 DEF SkipRunner
            <4> QED
                BY <4>1, <4>2, <4>3, <3>1, <1>0, <1>2
                   DEF RegistryAlone, CaptureGeneration, StartRunner, SkipRunner, SettleRunner, Register,
                       RequestCancel, DrainObserved, SettleCancel, BeginSession, Shutdown, Jobs
        <3> QED
            BY <3>1
    <2> QED
        BY <2>1, <2>2, <1>0 DEF StageOK
<1>3. ASSUME NEW w \in Waits, PrepareWait(w)
      PROVE  StageOK(v)'
    <2>1. runner' = runner /\ StageOK(w)
        BY <1>3 DEF PrepareWait, regVars, StageInv
    <2>2. v # w => wait'[v] = wait[v]
        BY <1>3, <1>0 DEF PrepareWait
    <2>3. wait'[w].obs = wait[w].obs /\ wait'[w].stage = "prepared" /\ wait[w].stage = "idle"
        BY <1>3, <1>0 DEF PrepareWait, WaitStates
    <2> QED
        BY <2>1, <2>2, <2>3, <1>0 DEF StageOK
<1>4. ASSUME NEW w \in Waits, PrepareFails(w)
      PROVE  StageOK(v)'
    BY <1>4, <1>0 DEF PrepareFails, waitVars, StageOK
<1>5. ASSUME NEW w \in Waits, RefuseWait(w)
      PROVE  StageOK(v)'
    <2>1. /\ runner' = runner /\ StageOK(w) /\ JobOK(w)
          /\ rec[w].phase = "absent" /\ wait[w].stage = "prepared"
        BY <1>5 DEF RefuseWait, RefuseRegistration, StageInv, JobInv
    <2>2. v # w => wait'[v] = wait[v]
        BY <1>5, <1>0 DEF RefuseWait
    <2>3. wait'[w].obs = wait[w].obs
        BY <1>5, <1>0 DEF RefuseWait, WaitStates
    <2>4. runner[w] = "none"
        BY <2>1 DEF JobOK
    <2> QED
        BY <2>1, <2>2, <2>3, <2>4, <1>0 DEF StageOK
<1>6. ASSUME NEW w \in Waits, Observes(w)
      PROVE  StageOK(v)'
    <2>1. PICK t \in Targets, o \in Observations : Observe(w, t, o) /\ wait[w].obs[t] \in InFlight
        BY <1>6 DEF Observes
    <2>2. StageOK(w) /\ wait[w] \in WaitStates
        BY <1>0 DEF StageInv
    <2>3. wait[w].stage \notin {"idle", "prepared"}
        BY <2>1, <2>2, FinishedIsOver DEF StageOK
    <2>4. wait'[w].stage = wait[w].stage /\ (v # w => wait'[v] = wait[v]) /\ runner' = runner
        BY <2>1, <1>0 DEF Observe, WaitStates
    <2> QED
        BY <2>3, <2>4, <1>0 DEF StageOK
<1>7. ASSUME NEW w \in Waits, PassStarts(w)
      PROVE  StageOK(v)'
    <2>1. PICK stage \in Stages_ \ {"idle", "prepared"}, slots \in [Targets -> {"started", "covered"}] :
              StartPass(w, stage, slots)
        BY <1>7 DEF PassStarts
    <2>2. wait'[w].stage = stage /\ (v # w => wait'[v] = wait[v]) /\ runner' = runner
        BY <2>1, <1>0 DEF StartPass, WaitStates
    <2> QED
        BY <2>2, <1>0 DEF StageOK
<1>8. ASSUME NEW w \in Waits, RunnerReturns(w)
      PROVE  StageOK(v)'
    <2>1. PICK outcome, matched : Returns(w, outcome, matched)
        BY <1>8 DEF RunnerReturns
    <2>2. wait'[w].stage = "over" /\ (v # w => wait'[v] = wait[v])
        BY <2>1, <1>0 DEF Returns, WaitStates
    <2>3. v # w => runner'[v] = runner[v]
        BY <2>1, <1>0 DEF Returns, RunnerEnds, Jobs
    <2> QED
        BY <2>2, <2>3, <1>0 DEF StageOK
<1>9. ASSUME NEW w \in Waits, RunnerRests(w)
      PROVE  StageOK(v)'
    <2>1. PICK next \in WaitStates : wait' = [wait EXCEPT ![w] = next] /\ next.stage \notin {"idle", "prepared"}
        BY <1>9 DEF RunnerRests
    <2>2. wait'[w] = next /\ (v # w => wait'[v] = wait[v]) /\ runner' = runner
        BY <1>9, <2>1, <1>0 DEF RunnerRests, regVars
    <2> QED
        BY <2>1, <2>2, <1>0 DEF StageOK
<1> QED
    BY <1>0, <1>1, <1>2, <1>3, <1>4, <1>5, <1>6, <1>7, <1>8, <1>9, Shapes

(* A job asked to stop stays asked, and an abandoned one stays abandoned.   *)
Stopped(w) == rec[w].phase \in {"cancel_requested", "settled"} /\ rec[w].reason # "none"

StopIsKept(w) ==
    /\ Stopped(w) => Stopped(w)'
    /\ rec[w].reason = "shutdown" => rec'[w].reason = "shutdown"

(* A wait whose runner is over and that has no read under guard.           *)
Over(w) == runner[w] = "ended" /\ rec[w].acts = 0

LEMMA RegistryStops ==
    ASSUME RegTypeOK, JobInv, DrainInv, NEW v \in Waits, RegistryAlone
    PROVE  StopIsKept(v) /\ (Over(v) => Over(v)')
<1>0. v \in Jobs /\ Waits \subseteq Jobs /\ rec \in [Jobs -> JobRecord] /\ JobOK(v) /\ rec[v].phase \in Phases
    BY DEF Jobs, RegTypeOK, JobInv, JobRecord
<1> USE DEF StopIsKept, Stopped
<1>1. rec'[v].phase = rec[v].phase /\ rec'[v].reason = rec[v].reason => StopIsKept(v)
    OBVIOUS
<1>2. ASSUME NEW j \in Jobs, NEW outcome, SettleLocked(j, outcome)
      PROVE  StopIsKept(v)
    <2>1. rec'[v] = rec[v] \/ rec'[v] = SettleOnce(rec[v], outcome)
        BY <1>0, <1>2 DEF SettleLocked
    <2>2. rec'[v].reason = rec[v].reason /\ rec'[v].phase \in {"settled", rec[v].phase}
        BY <1>0, <2>1 DEF SettleOnce, JobRecord
    <2> QED
        BY <2>2
<1>3. StopIsKept(v)
    <2>1. ASSUME NEW w \in Waits, CaptureGeneration(w)
          PROVE  StopIsKept(v)
        BY <2>1, <1>1 DEF CaptureGeneration
    <2>2. ASSUME NEW w \in Waits, Register(w) \/ StartRunner(w)
          PROVE  StopIsKept(v)
        <3>1. CASE v = w
            BY <3>1, <2>2, <1>0 DEF Register, StartRunner, JobOK
        <3>2. CASE v # w
            BY <3>2, <2>2, <1>0, <1>1 DEF Register, StartRunner
        <3> QED
            BY <3>1, <3>2
    <2>3. ASSUME NEW w \in Waits, SkipRunner(w)
          PROVE  StopIsKept(v)
        BY <2>3, <1>0, <1>1 DEF SkipRunner, JobRecord
    <2>4. ASSUME NEW w \in Waits, SettleRunner(w)
          PROVE  StopIsKept(v)
        <3>1. CASE rec[w].phase = "running"
            BY <3>1, <2>4, <1>0, <1>2 DEF SettleRunner
        <3>2. CASE rec[w].phase # "running"
            <4>1. PICK kind : rec' = [rec EXCEPT ![w] = Late(rec[w], kind)]
                BY <3>2, <2>4 DEF SettleRunner
            <4>2. rec'[v].phase = rec[v].phase /\ rec'[v].reason = rec[v].reason
                BY <1>0, <4>1 DEF Late, JobRecord
            <4> QED
                BY <4>2, <1>1
        <3> QED
            BY <3>1, <3>2
    <2>5. ASSUME NEW c \in Callers, NEW j \in Jobs, RequestCancel(c, j)
          PROVE  StopIsKept(v)
        <3>1. CASE v # j \/ rec[j].phase = "cancel_requested"
            BY <3>1, <2>5, <1>0, <1>1 DEF RequestCancel
        <3>2. CASE v = j /\ rec[j].phase # "cancel_requested"
            <4>1. rec[v].phase # "settled" /\ rec[v].listed
                BY <3>2, <2>5 DEF RequestCancel
            <4>2. rec[v].reason = "none" /\ rec[v].phase \in {"accepted", "running"}
                BY <3>2, <4>1, <1>0 DEF JobOK, Phases
            <4> QED
                BY <4>2
        <3> QED
            BY <3>1, <3>2
    <2>6. ASSUME NEW c \in Callers, DrainObserved(c)
          PROVE  StopIsKept(v)
        BY <2>6, <1>1 DEF DrainObserved
    <2>7. ASSUME NEW c \in Callers, SettleCancel(c)
          PROVE  StopIsKept(v)
        <3>1. call[c].job \in Jobs
            BY <2>7 DEF SettleCancel, DrainInv
        <3> QED
            BY <3>1, <2>7, <1>2 DEF SettleCancel
    <2>8. CASE BeginSession \/ Shutdown
        <3>1. AbandonAll
            BY <2>8 DEF BeginSession, Shutdown
        <3> QED
            BY <3>1, <1>0 DEF AbandonAll, JobRecord
    <2> QED
        BY <2>1, <2>2, <2>3, <2>4, <2>5, <2>6, <2>7, <2>8 DEF RegistryAlone
<1>4. ASSUME Over(v)
      PROVE  Over(v)'
    <2>1. \A w \in Waits : Register(w) => v # w
        BY <1>4, <1>0 DEF Register, JobOK, Over
    <2>2. \A w \in Waits : StartRunner(w) => v # w
        BY <1>4 DEF StartRunner, Over
    <2>3. rec'[v].acts = rec[v].acts
        BY <2>1, <1>0, RegistryCounts DEF RegistryAlone
    <2>4. runner'[v] = "ended"
        <3>1. runner \in [Jobs -> {"none", "queued", "live", "ended"}] /\ runner[v] = "ended"
            BY <1>4 DEF Over, RegTypeOK
        <3>2. ASSUME NEW w \in Waits, CaptureGeneration(w) \/ SettleRunner(w)
              PROVE  runner' = runner
            BY <3>2 DEF CaptureGeneration, SettleRunner
        <3>3. ASSUME NEW w \in Waits, Register(w) \/ StartRunner(w) \/ SkipRunner(w)
              PROVE  runner'[v] = "ended"
            BY <3>1, <3>3, <2>1, <2>2, <1>0 DEF Register, StartRunner, SkipRunner
        <3>4. ASSUME NEW c \in Callers,
                     (\E j \in Jobs : RequestCancel(c, j)) \/ DrainObserved(c) \/ SettleCancel(c)
              PROVE  runner' = runner
            BY <3>4 DEF RequestCancel, DrainObserved, SettleCancel
        <3>5. CASE BeginSession \/ Shutdown
            BY <3>1, <3>5 DEF BeginSession, Shutdown
        <3> QED
            BY <3>1, <3>2, <3>3, <3>4, <3>5 DEF RegistryAlone
    <2> QED
        BY <1>4, <2>3, <2>4 DEF Over
<1> QED
    BY <1>3, <1>4

LEMMA StoppedStays ==
    ASSUME TypeOK, JobInv, DrainInv, NEW v \in Waits, [Next]_vars
    PROVE  StopIsKept(v) /\ (Over(v) => Over(v)')
<1>0. /\ JobOK(v) /\ v \in Jobs /\ Waits \subseteq Jobs /\ rec \in [Jobs -> JobRecord] /\ wait \in [Waits -> WaitStates]
      /\ runner \in [Jobs -> {"none", "queued", "live", "ended"}] /\ RegTypeOK /\ WaitTypeOK
    BY DEF JobInv, Jobs, TypeOK, WaitTypeOK, RegTypeOK
<1>1. ASSUME JobKept(v)
      PROVE  StopIsKept(v)
    BY <1>1 DEF JobKept, StopIsKept, Stopped
<1>2. CASE UNCHANGED vars \/ WorldStep
    <2>1. UNCHANGED <<rec, runner>>
        BY <1>2 DEF vars, regVars, WorldStep, AgentMoves, OccupantReplaced, PaneChanges, ArtifactChanges,
                    DeadlinePasses
    <2> QED
        BY <2>1 DEF StopIsKept, Stopped, Over
<1>3. CASE RegistryAlone
    BY <1>3, <1>0, RegistryStops
<1>4. ASSUME NEW w \in Waits, PrepareWait(w) \/ PrepareFails(w) \/ RefuseWait(w) \/ RunnerRests(w)
      PROVE  StopIsKept(v) /\ (Over(v) => Over(v)')
    <2>1. UNCHANGED <<rec, runner>>
        BY <1>4 DEF PrepareWait, PrepareFails, RefuseWait, RefuseRegistration, RunnerRests, regVars
    <2> QED
        BY <2>1 DEF StopIsKept, Stopped, Over
<1>5. ASSUME NEW w \in Waits, Observes(w)
      PROVE  StopIsKept(v) /\ (Over(v) => Over(v)')
    <2>1. PICK t \in Targets, o \in Observations : Observe(w, t, o)
        BY <1>5 DEF Observes
    <2>2. ASSUME Over(v)
          PROVE  Over(v)'
        <3>1. runner' = runner
            BY <2>1 DEF Observe
        <3>2. CASE v = w
            <4>1. Cardinality(GuardedReads(wait[v].obs)) = 0
                BY <2>2 DEF Over, TypeOK
            <4>2. wait[w].obs[t] \notin Guarded
                BY <4>1, <3>2, ReadsAreCounted
            <4> QED
                BY <4>2, <2>1, <2>2, <3>1 DEF Observe, Over
        <3>3. CASE v # w
            BY <3>3, <2>1, <2>2, <3>1, <1>0 DEF Observe, Over
        <3> QED
            BY <3>2, <3>3
    <2> QED
        BY <2>2, <1>5, <1>0, <1>1, JobsAreKept
<1>6. ASSUME NEW w \in Waits, PassStarts(w)
      PROVE  StopIsKept(v) /\ (Over(v) => Over(v)')
    <2>1. PICK stage, slots : StartPass(w, stage, slots)
        BY <1>6 DEF PassStarts
    <2>2. Over(v) => Over(v)'
        BY <2>1, <1>0 DEF StartPass, Over
    <2> QED
        BY <2>2, <1>6, <1>0, <1>1, JobsAreKept
<1>7. ASSUME NEW w \in Waits, RunnerReturns(w)
      PROVE  StopIsKept(v) /\ (Over(v) => Over(v)')
    <2>1. PICK outcome, matched : Returns(w, outcome, matched)
        BY <1>7 DEF RunnerReturns
    <2>2. rec'[v].phase = rec[v].phase /\ rec'[v].reason = rec[v].reason /\ rec'[v].acts = rec[v].acts
        BY <2>1, <1>0 DEF Returns, RunnerEnds, JobRecord
    <2>3. runner[v] = "ended" => runner'[v] = "ended"
        BY <2>1, <1>0 DEF Returns, RunnerEnds
    <2> QED
        BY <2>2, <2>3 DEF StopIsKept, Stopped, Over
<1> QED
    BY <1>0, <1>2, <1>3, <1>4, <1>5, <1>6, <1>7, Shapes

(* A cancellation in progress stays right.                                 *)
LEMMA DrainStep ==
    ASSUME TypeOK, JobInv, DrainInv, [Next]_vars
    PROVE  DrainInv'
<1> SUFFICES ASSUME NEW c \in Callers, call'[c].pc # "idle"
             PROVE  /\ call'[c].job \in Jobs
                    /\ \A w \in Waits : call'[c].job = w =>
                         /\ Stopped(w)'
                         /\ call'[c].pc = "settling" /\ call'[c].drained /\ rec'[w].reason # "shutdown"
                                => Over(w)'
    BY DEF DrainInv, Stopped, Over
<1>0. RegTypeOK /\ WaitTypeOK /\ call \in [Callers -> CallStates] /\ rec \in [Jobs -> JobRecord] /\ Waits \subseteq Jobs
    BY DEF TypeOK, RegTypeOK, Jobs
<1>1. \A w \in Waits : StopIsKept(w) /\ (Over(w) => Over(w)')
    BY StoppedStays
<1>2. CASE call'[c] = call[c]
    <2>1. call[c].job \in Jobs
        BY <1>2 DEF DrainInv
    <2>2. ASSUME NEW w \in Waits, call[c].job = w
          PROVE  /\ Stopped(w)'
                 /\ call[c].pc = "settling" /\ call[c].drained /\ rec'[w].reason # "shutdown" => Over(w)'
        <3>1. /\ Stopped(w)
              /\ call[c].pc = "settling" /\ call[c].drained /\ rec[w].reason # "shutdown" => Over(w)
            BY <1>2, <2>2 DEF DrainInv, Stopped, Over
        <3> QED
            BY <3>1, <1>1 DEF StopIsKept
    <2> QED
        BY <1>2, <2>1, <2>2
<1>3. ASSUME NEW b \in Callers, NEW j \in Jobs, RequestCancel(b, j), c = b
      PROVE  /\ call'[c].job \in Jobs /\ call'[c].pc = "draining"
             /\ \A w \in Waits : call'[c].job = w => Stopped(w)'
    <2>1. call'[c] = [pc |-> "draining", job |-> j, drained |-> FALSE]
        BY <1>3, <1>0 DEF RequestCancel
    <2>2. ASSUME NEW w \in Waits, j = w
          PROVE  Stopped(w)'
        <3>1. JobOK(w)
            BY DEF JobInv
        <3> QED
            BY <1>3, <1>0, <2>2, <3>1 DEF RequestCancel, JobRecord, JobOK, Stopped
    <2> QED
        BY <2>1, <2>2
<1>4. ASSUME NEW b \in Callers, DrainObserved(b), c = b
      PROVE  /\ call'[c].job \in Jobs
             /\ \A w \in Waits : call'[c].job = w =>
                   /\ Stopped(w)'
                   /\ call'[c].drained /\ rec'[w].reason # "shutdown" => Over(w)'
    <2>1. /\ call'[c].job = call[c].job /\ call'[c].drained = IsDrained(call[c].job)
          /\ call[c].pc = "draining" /\ UNCHANGED <<rec, runner>>
        BY <1>4, <1>0 DEF DrainObserved, CallStates
    <2>2. call[c].job \in Jobs /\ \A w \in Waits : call[c].job = w => Stopped(w)
        BY <2>1 DEF DrainInv, Stopped
    <2>3. ASSUME NEW w \in Waits, call[c].job = w, IsDrained(w), rec[w].reason # "shutdown"
          PROVE  Over(w)
        <3>1. JobOK(w)
            BY DEF JobInv
        <3> QED
            BY <2>3, <3>1 DEF IsDrained, JobOK, Over
    <2> QED
        BY <2>1, <2>2, <2>3 DEF Stopped, Over
<1>5. ASSUME NEW b \in Callers, SettleCancel(b), c = b
      PROVE  FALSE
    BY <1>5, <1>0 DEF SettleCancel, NoCall
<1>6. ASSUME NEW b \in Callers, (\E j \in Jobs : RequestCancel(b, j)) \/ DrainObserved(b) \/ SettleCancel(b), c # b
      PROVE  call'[c] = call[c]
    BY <1>6, <1>0 DEF RequestCancel, DrainObserved, SettleCancel
<1>7. CASE RegistryAlone
    <2>1. CASE \E w \in Waits : \/ CaptureGeneration(w) \/ StartRunner(w) \/ SkipRunner(w) \/ SettleRunner(w)
                                \/ wait[w].stage = "prepared" /\ Register(w)
        <3>1. call' = call
            BY <2>1 DEF CaptureGeneration, StartRunner, SkipRunner, SettleRunner, Register
        <3> QED
            BY <3>1, <1>2
    <2>2. CASE BeginSession \/ Shutdown
        <3>1. call' = call
            BY <2>2 DEF BeginSession, Shutdown
        <3> QED
            BY <3>1, <1>2
    <2>3. ASSUME NEW b \in Callers, (\E j \in Jobs : RequestCancel(b, j)) \/ DrainObserved(b) \/ SettleCancel(b)
          PROVE  /\ call'[c].job \in Jobs
                 /\ \A w \in Waits : call'[c].job = w =>
                      /\ Stopped(w)'
                      /\ call'[c].pc = "settling" /\ call'[c].drained /\ rec'[w].reason # "shutdown"
                             => Over(w)'
        BY <2>3, <1>2, <1>3, <1>4, <1>5, <1>6
    <2> QED
        BY <1>7, <2>1, <2>2, <2>3 DEF RegistryAlone
<1>8. CASE \/ UNCHANGED vars \/ WorldStep
           \/ \E w \in Waits : \/ PrepareWait(w) \/ PrepareFails(w) \/ RefuseWait(w)
                               \/ Observes(w) \/ PassStarts(w) \/ RunnerReturns(w) \/ RunnerRests(w)
    <2>1. call' = call
        <3>1. UNCHANGED vars \/ WorldStep => call' = call
            BY DEF vars, regVars, WorldStep, AgentMoves, OccupantReplaced, PaneChanges, ArtifactChanges,
                   DeadlinePasses
        <3>2. ASSUME NEW w \in Waits, RunnerReturns(w)
              PROVE  call' = call
            BY <3>2 DEF RunnerReturns, Returns, RunnerEnds
        <3>3. ASSUME NEW w \in Waits,
                     \/ PrepareWait(w) \/ PrepareFails(w) \/ RefuseWait(w)
                     \/ Observes(w) \/ PassStarts(w) \/ RunnerRests(w)
              PROVE  call' = call
            BY <3>3, <1>0, JobsAreKept
        <3> QED
            BY <1>8, <3>1, <3>2, <3>3
    <2> QED
        BY <2>1, <1>2
<1> QED
    BY <1>0, <1>7, <1>8, Shapes

-----------------------------------------------------------------------------
(* The quiet of a cancelled wait.                                          *)

QuietOK(w) == rec[w].result = "cancelled" /\ rec[w].reason = "cancelled" => Over(w)

(* Where a result comes from: a settled wait keeps its own, its runner     *)
(* gives its answer, and a cancellation says what it saw of the drain.     *)
LEMMA ResultsComeFrom ==
    ASSUME RegTypeOK, JobInv, DrainInv, NEW v \in Waits, RegistryAlone
    PROVE  \/ rec'[v].result = rec[v].result /\ (rec[v].result # "none" => rec'[v].reason = rec[v].reason)
           \/ rec'[v].result \in {"failed", "unknown"}
           \/ answer[v] # "rejected" /\ answer[v] # "none" /\ rec'[v].result = answer[v]
           \/ /\ rec'[v].result = "cancelled" /\ rec'[v].reason = rec[v].reason
              /\ rec[v].reason # "shutdown" => Over(v)
<1>0. v \in Jobs /\ Waits \subseteq Jobs /\ rec \in [Jobs -> JobRecord] /\ JobOK(v) /\ rec[v].phase \in Phases
    BY DEF Jobs, RegTypeOK, JobInv, JobRecord
<1>1. ASSUME NEW w \in Waits, \/ CaptureGeneration(w) \/ StartRunner(w) \/ SkipRunner(w)
      PROVE  rec'[v].result = rec[v].result /\ rec'[v].reason = rec[v].reason
    BY <1>1, <1>0 DEF CaptureGeneration, StartRunner, SkipRunner, JobRecord
<1>2. ASSUME NEW w \in Waits, Register(w)
      PROVE  rec'[v].result = rec[v].result /\ (rec[v].result # "none" => rec'[v].reason = rec[v].reason)
    <2>1. CASE v = w
        BY <2>1, <1>2, <1>0 DEF Register, JobOK, Absent
    <2>2. CASE v # w
        BY <2>2, <1>2, <1>0 DEF Register
    <2> QED
        BY <2>1, <2>2
<1>3. ASSUME NEW j \in Jobs, NEW outcome, SettleLocked(j, outcome)
      PROVE  \/ rec'[v].result = rec[v].result /\ rec'[v].reason = rec[v].reason
             \/ v = j /\ rec'[v].result = outcome /\ rec'[v].reason = rec[v].reason
    BY <1>3, <1>0 DEF SettleLocked, SettleOnce, JobRecord
<1>4. ASSUME NEW w \in Waits, SettleRunner(w)
      PROVE  \/ rec'[v].result = rec[v].result /\ rec'[v].reason = rec[v].reason
             \/ rec'[v].result = "failed"
             \/ answer[v] # "rejected" /\ answer[v] # "none" /\ rec'[v].result = answer[v]
    <2>1. CASE rec[w].phase = "running"
        <3>1. SettleLocked(w, IF answer[w] = "rejected" THEN "failed" ELSE answer[w]) /\ answer[w] # "none"
            BY <2>1, <1>4 DEF SettleRunner
        <3> QED
            BY <3>1, <1>0, <1>3
    <2>2. CASE rec[w].phase # "running"
        <3>1. PICK kind : rec' = [rec EXCEPT ![w] = Late(rec[w], kind)]
            BY <2>2, <1>4 DEF SettleRunner
        <3> QED
            BY <3>1, <1>0 DEF Late, JobRecord
    <2> QED
        BY <2>1, <2>2
<1>5. ASSUME NEW c \in Callers, NEW j \in Jobs, RequestCancel(c, j)
      PROVE  rec'[v].result = rec[v].result /\ (rec[v].result # "none" => rec'[v].reason = rec[v].reason)
    <2>1. CASE v # j \/ rec[j].phase = "cancel_requested"
        BY <2>1, <1>5, <1>0 DEF RequestCancel
    <2>2. CASE v = j /\ rec[j].phase # "cancel_requested"
        BY <2>2, <1>5, <1>0 DEF RequestCancel, JobRecord, JobOK
    <2> QED
        BY <2>1, <2>2
<1>6. ASSUME NEW c \in Callers, DrainObserved(c)
      PROVE  rec'[v].result = rec[v].result /\ rec'[v].reason = rec[v].reason
    BY <1>6 DEF DrainObserved
<1>7. ASSUME NEW c \in Callers, SettleCancel(c)
      PROVE  \/ rec'[v].result = rec[v].result /\ rec'[v].reason = rec[v].reason
             \/ rec'[v].result = "unknown"
             \/ /\ rec'[v].result = "cancelled" /\ rec'[v].reason = rec[v].reason
                /\ rec[v].reason # "shutdown" => Over(v)
    <2> DEFINE j == call[c].job
               outcome == IF call[c].drained THEN "cancelled" ELSE "unknown"
    <2>1. SettleLocked(j, outcome) /\ call[c].pc = "settling"
        BY <1>7 DEF SettleCancel
    <2>2. j \in Jobs /\ (v = j /\ outcome = "cancelled" /\ rec[v].reason # "shutdown" => Over(v))
        BY <2>1 DEF DrainInv, Over
    <2>3. outcome \in {"cancelled", "unknown"}
        OBVIOUS
    <2> HIDE DEF j, outcome
    <2> QED
        BY <2>1, <2>2, <2>3, <1>3
<1>8. CASE BeginSession \/ Shutdown
    <2>1. AbandonAll
        BY <1>8 DEF BeginSession, Shutdown
    <2>2. rec'[v].result = rec[v].result /\ (rec[v].phase = "settled" => rec'[v].reason = rec[v].reason)
        BY <2>1, <1>0 DEF AbandonAll, JobRecord
    <2> QED
        BY <2>2, <1>0 DEF JobOK
<1> QED
    BY <1>1, <1>2, <1>4, <1>5, <1>6, <1>7, <1>8 DEF RegistryAlone

(* A cancelled wait stays quiet.                                           *)
LEMMA QuietStep ==
    ASSUME TypeOK, JobInv, DrainInv, NEW v \in Waits, QuietOK(v), [Next]_vars
    PROVE  QuietOK(v)'
<1>0. RegTypeOK /\ WaitTypeOK /\ JobOK(v) /\ rec \in [Jobs -> JobRecord] /\ Waits \subseteq Jobs
    BY DEF TypeOK, RegTypeOK, JobInv, Jobs
<1>1. Over(v) => Over(v)'
    BY StoppedStays
<1>2. CASE RegistryAlone
    <2>1. answer[v] # "cancelled"
        BY <1>0 DEF JobOK, WaitResults
    <2>2. rec'[v].result = "cancelled" /\ rec'[v].reason = "cancelled" => Over(v)
        BY <1>0, <1>2, <2>1, ResultsComeFrom DEF QuietOK
    <2> QED
        BY <1>1, <2>2 DEF QuietOK
<1>3. CASE \/ UNCHANGED vars \/ WorldStep
           \/ \E w \in Waits : \/ PrepareWait(w) \/ PrepareFails(w) \/ RefuseWait(w)
                               \/ Observes(w) \/ PassStarts(w) \/ RunnerReturns(w) \/ RunnerRests(w)
    <2>1. rec'[v].result = rec[v].result /\ rec'[v].reason = rec[v].reason
        <3>1. ASSUME NEW w \in Waits, RunnerReturns(w)
              PROVE  rec'[v].result = rec[v].result /\ rec'[v].reason = rec[v].reason
            BY <3>1, <1>0 DEF RunnerReturns, Returns, RunnerEnds, JobRecord
        <3>2. ASSUME NEW w \in Waits,
                     \/ UNCHANGED vars \/ WorldStep \/ PrepareWait(w) \/ PrepareFails(w) \/ RefuseWait(w)
                     \/ Observes(w) \/ PassStarts(w) \/ RunnerRests(w)
              PROVE  rec'[v].result = rec[v].result /\ rec'[v].reason = rec[v].reason
            BY <3>2, <1>0, JobsAreKept DEF JobKept
        <3> QED
            BY <1>3, <3>1, <3>2
    <2> QED
        BY <2>1, <1>1 DEF QuietOK
<1> QED
    BY <1>0, <1>2, <1>3, Shapes

-----------------------------------------------------------------------------
(* The witnesses of a condition reported met.                              *)

(* Before its deadline a prepared wait has recorded every pinned occupant  *)
(* that meets the condition now, that a read under way saw meet it, or     *)
(* whose event is still to be verified: occupants only move on, so the     *)
(* verification that finds the pinned one speaks of the one that met it.   *)
WitnessOK(w) ==
    wait[w].stage # "idle" =>
        /\ artifact \subseteq vouched[w]
        /\ \A t \in Targets :
             /\ wait[w].pin[t] <= pane[t].occ
             /\ w \notin past /\ pane[t].state = "met" /\ SameOccupant(w, t) => t \in hit[w]
             /\ w \notin past /\ wait[w].obs[t] \in {"seen", "moved", "screen_met"} => t \in hit[w]
             /\ w \notin past /\ wait[w].obs[t] = "event" /\ SameOccupant(w, t) => t \in hit[w]
             /\ wait[w].obs[t] = "matched" => t \in hit[w] /\ (Gated(w, t) => t \in vouched[w])

(* A wait reported met names witnessed targets, and its runner is over.    *)
MetOK(w) ==
    answer[w] = "condition_met" \/ rec[w].result = "condition_met" =>
        /\ runner[w] = "ended"
        /\ wait[w].matched # {}
        /\ wait[w].matched \subseteq hit[w]
        /\ wait[w].kind = "state" => wait[w].matched \cap GatedTargets \subseteq vouched[w]

(* What a step leaves of a wait that it does not concern.                  *)
WaitKept(v) == wait'[v] = wait[v] /\ hit'[v] = hit[v] /\ vouched'[v] = vouched[v]

LEMMA KeptIsWitnessed ==
    ASSUME NEW v \in Waits, WaitKept(v), UNCHANGED <<pane, artifact, past>>, WitnessOK(v)
    PROVE  WitnessOK(v)'
BY DEF WaitKept, WitnessOK, SameOccupant, Gated

(* The world moves on: the history only grows.                             *)
LEMMA WorldIsWitnessed ==
    ASSUME WaitTypeOK, NEW v \in Waits, WitnessOK(v), WorldStep
    PROVE  WitnessOK(v)' /\ hit[v] \subseteq hit'[v] /\ vouched[v] \subseteq vouched'[v] /\ wait' = wait
<1>0. /\ wait[v] \in WaitStates /\ \A t \in Targets : pane[t].occ \in Nat /\ wait[v].pin[t] \in Nat
      /\ pane \in [Targets -> PaneStates]
    BY WaitAssumption DEF WaitTypeOK, WaitStates, PaneStates
<1>1. ASSUME NEW t \in Targets, NEW next \in PaneStates, PaneChanges(t, next), pane[t].occ <= next.occ
      PROVE  WitnessOK(v)' /\ hit[v] \subseteq hit'[v] /\ vouched[v] \subseteq vouched'[v] /\ wait' = wait
    <2>1. /\ wait' = wait /\ past' = past /\ artifact' = artifact
          /\ hit'[v] = IF v \in past \/ wait[v].stage = "idle" THEN hit[v]
                       ELSE hit[v] \cup {u \in Targets : /\ pane'[u].state = "met"
                                                         /\ pane'[u].occ = wait[v].pin[u]}
          /\ vouched'[v] = vouched[v] \cup artifact
        BY <1>1 DEF PaneChanges, Witness
    <2>2. \A u \in Targets : pane[u].occ <= pane'[u].occ /\ pane'[u].occ \in Nat
        BY <1>0, <1>1, WaitAssumption DEF PaneChanges, PaneStates
    <2>3. hit[v] \subseteq hit'[v] /\ vouched[v] \subseteq vouched'[v]
        BY <2>1
    <2>4. ASSUME wait[v].stage # "idle", NEW u \in Targets
          PROVE  /\ wait[v].pin[u] <= pane'[u].occ
                 /\ v \notin past /\ pane'[u].state = "met" /\ pane'[u].occ = wait[v].pin[u] => u \in hit'[v]
                 /\ v \notin past /\ wait[v].obs[u] = "event" /\ pane'[u].occ = wait[v].pin[u] => u \in hit'[v]
        <3>1. wait[v].pin[u] <= pane[u].occ
            BY <2>4 DEF WitnessOK
        <3>2. wait[v].pin[u] <= pane'[u].occ
            BY <3>1, <2>2, <1>0
        <3>3. pane'[u].occ = wait[v].pin[u] => pane[u].occ = wait[v].pin[u]
            BY <3>1, <2>2, <1>0
        <3> QED
            BY <2>1, <2>3, <2>4, <3>2, <3>3 DEF WitnessOK, SameOccupant
    <2>5. wait[v].stage # "idle" => artifact' \subseteq vouched'[v]
        BY <2>1
    <2>6. WitnessOK(v)'
        BY <2>1, <2>3, <2>4, <2>5 DEF WitnessOK, SameOccupant, Gated
    <2> QED
        BY <2>1, <2>3, <2>6
<1>2. ASSUME NEW t \in Targets, AgentMoves(t)
      PROVE  WitnessOK(v)' /\ hit[v] \subseteq hit'[v] /\ vouched[v] \subseteq vouched'[v] /\ wait' = wait
    <2>1. PICK s \in {"working", "met", "absent"} : PaneChanges(t, [pane[t] EXCEPT !.state = s])
        BY <1>2 DEF AgentMoves
    <2>2. [pane[t] EXCEPT !.state = s] \in PaneStates /\ pane[t].occ <= [pane[t] EXCEPT !.state = s].occ
        BY <1>0 DEF PaneStates
    <2> QED
        BY <2>1, <2>2, <1>1
<1>3. ASSUME NEW t \in Targets, OccupantReplaced(t)
      PROVE  WitnessOK(v)' /\ hit[v] \subseteq hit'[v] /\ vouched[v] \subseteq vouched'[v] /\ wait' = wait
    <2>1. PICK s \in {"working", "met"} :
              pane[t].occ < MaxOccupants /\ PaneChanges(t, [occ |-> pane[t].occ + 1, state |-> s])
        BY <1>3 DEF OccupantReplaced
    <2>2. pane[t].occ + 1 \in 0..MaxOccupants /\ pane[t].occ <= pane[t].occ + 1
        BY <2>1, <1>0, WaitAssumption
    <2>3. [occ |-> pane[t].occ + 1, state |-> s] \in PaneStates
        BY <2>2 DEF PaneStates
    <2> QED
        BY <2>1, <2>2, <2>3, <1>1
<1>4. ASSUME NEW t \in Targets, ArtifactChanges(t)
      PROVE  WitnessOK(v)' /\ hit[v] \subseteq hit'[v] /\ vouched[v] \subseteq vouched'[v] /\ wait' = wait
    <2>1. /\ wait' = wait /\ past' = past /\ pane' = pane
          /\ hit[v] \subseteq hit'[v]
          /\ vouched'[v] = vouched[v] \cup artifact'
        BY <1>4 DEF ArtifactChanges, Witness
    <2> QED
        BY <2>1 DEF WitnessOK, SameOccupant, Gated
<1>5. ASSUME NEW w \in Waits, DeadlinePasses(w)
      PROVE  WitnessOK(v)' /\ hit[v] \subseteq hit'[v] /\ vouched[v] \subseteq vouched'[v] /\ wait' = wait
    <2>1. UNCHANGED <<wait, pane, artifact, hit, vouched>> /\ past \subseteq past'
        BY <1>5 DEF DeadlinePasses
    <2> QED
        BY <2>1 DEF WitnessOK, SameOccupant, Gated
<1> QED
    BY <1>2, <1>3, <1>4, <1>5 DEF WorldStep

(* A step of wait w leaves the other waits alone.                          *)
LEMMA OthersAreKept ==
    ASSUME WaitTypeOK, NEW w \in Waits, NEW v \in Waits, v # w,
           \/ PrepareWait(w) \/ PrepareFails(w) \/ RefuseWait(w)
           \/ Observes(w) \/ PassStarts(w) \/ RunnerReturns(w) \/ RunnerRests(w)
    PROVE  WaitKept(v) /\ UNCHANGED <<pane, artifact, past>>
<1> USE DEF WaitKept, WaitTypeOK
<1>1. CASE PrepareWait(w)
    BY <1>1 DEF PrepareWait
<1>2. CASE PrepareFails(w)
    BY <1>2 DEF PrepareFails, waitVars
<1>3. CASE RefuseWait(w)
    BY <1>3 DEF RefuseWait
<1>4. CASE Observes(w)
    BY <1>4 DEF Observes, Observe
<1>5. CASE PassStarts(w)
    BY <1>5 DEF PassStarts, StartPass
<1>6. CASE RunnerReturns(w)
    BY <1>6 DEF RunnerReturns, Returns
<1>7. CASE RunnerRests(w)
    BY <1>7 DEF RunnerRests
<1> QED
    BY <1>1, <1>2, <1>3, <1>4, <1>5, <1>6, <1>7

(* The same facts with other reads: what they show is in the history.      *)
LEMMA ReadsAreWitnessed ==
    ASSUME NEW w \in Waits, UNCHANGED <<pane, artifact, past, hit, vouched>>, WitnessOK(w),
           wait[w].stage # "idle", wait'[w].pin = wait[w].pin, wait'[w].kind = wait[w].kind,
           \A t \in Targets :
             \/ wait'[w].obs[t] = wait[w].obs[t]
             \/ wait'[w].obs[t] \notin {"seen", "moved", "screen_met", "event", "matched"}
    PROVE  WitnessOK(w)'
BY DEF WitnessOK, SameOccupant, Gated

(* An observation tells the truth.                                         *)
LEMMA ObservationIsWitnessed ==
    ASSUME WaitTypeOK, NEW w \in Waits, StageOK(w), WitnessOK(w), Observes(w)
    PROVE  WitnessOK(w)'
<1> PICK t \in Targets, o \in Observations :
        Observe(w, t, o) /\ Sourced(w, t, o) /\ wait[w].obs[t] \in InFlight
    BY DEF Observes
<1>0. wait[w] \in WaitStates /\ wait \in [Waits -> WaitStates]
    BY DEF WaitTypeOK
<1>1. wait[w].stage # "idle"
    BY FinishedIsOver DEF StageOK
<1>2. /\ wait'[w].stage = wait[w].stage /\ wait'[w].pin = wait[w].pin /\ wait'[w].kind = wait[w].kind
      /\ \A u \in Targets : wait'[w].obs[u] = IF u = t THEN o ELSE wait[w].obs[u]
      /\ UNCHANGED <<pane, artifact, past, hit, vouched>>
    BY <1>0 DEF Observe, WaitStates
<1>3. /\ w \notin past /\ o \in {"seen", "moved", "screen_met"} => t \in hit[w]
      /\ w \notin past /\ o = "event" /\ SameOccupant(w, t) => t \in hit[w]
      /\ o = "matched" => t \in hit[w] /\ (Gated(w, t) => t \in vouched[w])
    BY <1>1 DEF Sourced, WitnessOK
<1>4. SameOccupant(w, t)' <=> SameOccupant(w, t)
    BY <1>2 DEF SameOccupant
<1> QED
    BY <1>1, <1>2, <1>3, <1>4 DEF WitnessOK, SameOccupant, Gated

(* Every step keeps the history ahead of the reads.                        *)
LEMMA WitnessStep ==
    ASSUME TypeOK, StageInv, JobInv, NEW v \in Waits, WitnessOK(v), [Next]_vars
    PROVE  WitnessOK(v)'
<1>0. /\ WaitTypeOK /\ StageOK(v) /\ JobOK(v) /\ wait[v] \in WaitStates /\ wait \in [Waits -> WaitStates]
      /\ \A t \in Targets : pane[t].occ \in Nat
    BY WaitAssumption DEF TypeOK, WaitTypeOK, StageInv, JobInv, PaneStates
<1>1. CASE UNCHANGED vars \/ RegistryAlone
    <2>1. UNCHANGED waitVars
        BY <1>1 DEF vars, RegistryAlone
    <2> QED
        BY <2>1, KeptIsWitnessed DEF waitVars, WaitKept
<1>2. CASE WorldStep
    BY <1>0, <1>2, WorldIsWitnessed
<1>3. CASE PrepareWait(v)
    <2>1. PICK kind \in {"state", "output"}, match \in {"any", "all"} :
             wait' = [wait EXCEPT ![v] = [wait[v] EXCEPT !.stage = "prepared", !.kind = kind,
                                                 !.match = match,
                                                 !.pin = [t \in Targets |-> pane[t].occ]]]
        BY <1>3 DEF PrepareWait
    <2>2. wait'[v].obs = wait[v].obs /\ \A t \in Targets : wait'[v].pin[t] = pane[t].occ
        BY <2>1, <1>0 DEF WaitStates
    <2>3. \A t \in Targets : wait[v].obs[t] = "none"
        BY <1>0, <1>3 DEF PrepareWait, StageOK
    <2>4. hit'[v] = {t \in Targets : pane[t].state = "met"} /\ vouched'[v] = artifact
          /\ UNCHANGED <<pane, artifact, past>>
        BY <1>0, <1>3 DEF PrepareWait, WaitTypeOK
    <2> QED
        BY <2>2, <2>3, <2>4, <1>0 DEF WitnessOK, SameOccupant
<1>4. CASE PrepareFails(v)
    BY <1>4, KeptIsWitnessed DEF PrepareFails, waitVars, WaitKept
<1>5. CASE RefuseWait(v)
    <2>1. wait'[v].stage = "idle"
        BY <1>0, <1>5 DEF RefuseWait, WaitStates
    <2> QED
        BY <2>1 DEF WitnessOK
<1>6. CASE Observes(v)
    BY <1>0, <1>6, ObservationIsWitnessed
<1>7. CASE PassStarts(v)
    <2>1. PICK stage \in Stages_, slots \in [Targets -> {"started", "covered"}] : StartPass(v, stage, slots)
        BY <1>7 DEF PassStarts
    <2>2. wait'[v].obs = slots /\ wait'[v].pin = wait[v].pin /\ wait'[v].kind = wait[v].kind
          /\ UNCHANGED <<pane, artifact, past, hit, vouched>> /\ runner[v] = "live"
        BY <2>1, <1>0 DEF StartPass, WaitStates
    <2>3. wait[v].stage # "idle"
        BY <2>2, <1>0 DEF StageOK
    <2> QED
        BY <2>2, <2>3, ReadsAreWitnessed
<1>8. CASE RunnerReturns(v)
    <2>1. PICK outcome, matched : Returns(v, outcome, matched)
        BY <1>8 DEF RunnerReturns
    <2>2. wait'[v].obs = LeftBehind(wait[v].obs) /\ wait'[v].pin = wait[v].pin /\ wait'[v].kind = wait[v].kind
          /\ UNCHANGED <<pane, artifact, past, hit, vouched>> /\ runner[v] = "live"
        BY <2>1, <1>0 DEF Returns, RunnerEnds, WaitStates
    <2>3. wait[v].stage # "idle"
        BY <2>2, <1>0 DEF StageOK
    <2>4. \A t \in Targets : wait'[v].obs[t] \in {wait[v].obs[t], "none"}
        BY <2>2 DEF LeftBehind
    <2> QED
        BY <2>2, <2>3, <2>4, ReadsAreWitnessed
<1>9. CASE RunnerRests(v)
    <2>1. PICK next \in WaitStates :
              /\ wait' = [wait EXCEPT ![v] = next]
              /\ next.obs = wait[v].obs \/ next.obs = NoObs
              /\ next.pin = wait[v].pin /\ next.kind = wait[v].kind
        BY <1>9 DEF RunnerRests
    <2>2. wait'[v] = next /\ UNCHANGED <<pane, artifact, past, hit, vouched>> /\ runner[v] = "live"
        BY <2>1, <1>9, <1>0 DEF RunnerRests
    <2>3. wait[v].stage # "idle"
        BY <2>2, <1>0 DEF StageOK
    <2>4. \A t \in Targets : wait'[v].obs[t] \in {wait[v].obs[t], "none"}
        BY <2>1, <2>2 DEF NoObs
    <2> QED
        BY <2>1, <2>2, <2>3, <2>4, ReadsAreWitnessed
<1>10. ASSUME NEW w \in Waits, v # w,
              \/ PrepareWait(w) \/ PrepareFails(w) \/ RefuseWait(w)
              \/ Observes(w) \/ PassStarts(w) \/ RunnerReturns(w) \/ RunnerRests(w)
       PROVE  WitnessOK(v)'
    BY <1>0, <1>10, OthersAreKept, KeptIsWitnessed
<1> QED
    BY <1>0, <1>1, <1>2, <1>3, <1>4, <1>5, <1>6, <1>7, <1>8, <1>9, <1>10, Shapes

(* A wait is reported met only by its runner's own end.                    *)
LEMMA MetStep ==
    ASSUME TypeOK, StageInv, JobInv, DrainInv, NEW v \in Waits, WitnessOK(v), MetOK(v), [Next]_vars
    PROVE  MetOK(v)'
<1>0. /\ RegTypeOK /\ WaitTypeOK /\ StageOK(v) /\ JobOK(v) /\ wait[v] \in WaitStates
      /\ wait \in [Waits -> WaitStates] /\ rec \in [Jobs -> JobRecord] /\ Waits \subseteq Jobs
      /\ runner \in [Jobs -> {"none", "queued", "live", "ended"}]
    BY DEF TypeOK, RegTypeOK, WaitTypeOK, StageInv, JobInv, Jobs
<1>1. ASSUME WaitKept(v), runner[v] = "ended" => runner'[v] = "ended",
             answer'[v] = "condition_met" \/ rec'[v].result = "condition_met"
                => answer[v] = "condition_met" \/ rec[v].result = "condition_met"
      PROVE  MetOK(v)'
    BY <1>1 DEF MetOK, WaitKept
<1>2. CASE UNCHANGED vars
    BY <1>1, <1>2 DEF vars, regVars, waitVars, WaitKept
<1>3. CASE RegistryAlone
    <2>1. WaitKept(v)
        BY <1>3 DEF RegistryAlone, waitVars, WaitKept
    <2>2. answer'[v] = answer[v] \/ answer'[v] = "none"
        <3>1. \A w \in Waits : SettleRunner(w) => answer'[v] = answer[v] \/ answer'[v] = "none"
            BY <1>0 DEF SettleRunner, RegTypeOK
        <3>2. (\A w \in Waits : ~SettleRunner(w)) => answer' = answer
            BY <1>3 DEF RegistryAlone, CaptureGeneration, StartRunner, SkipRunner, Register, RequestCancel,
                        DrainObserved, SettleCancel, BeginSession, Shutdown
        <3> QED
            BY <3>1, <3>2
    <2>3. rec'[v].result = "condition_met" => answer[v] = "condition_met" \/ rec[v].result = "condition_met"
        BY <1>0, <1>3, ResultsComeFrom
    <2>4. CASE answer[v] = "condition_met" \/ rec[v].result = "condition_met"
        <3>1. runner[v] = "ended"
            BY <2>4 DEF MetOK
        <3>2. runner'[v] = "ended"
            BY <3>1, <1>3, <1>0
               DEF RegistryAlone, CaptureGeneration, StartRunner, SkipRunner, SettleRunner, Register,
                   RequestCancel, DrainObserved, SettleCancel, BeginSession, Shutdown, JobOK
        <3> QED
            BY <3>2, <2>1, <2>4, <1>1
    <2> QED
        BY <2>2, <2>3, <2>4 DEF MetOK
<1>4. CASE WorldStep
    <2>1. JobKept(v)
        BY <1>0, <1>4, JobsAreKept
    <2>2. hit[v] \subseteq hit'[v] /\ vouched[v] \subseteq vouched'[v] /\ wait' = wait
        BY <1>0, <1>4, WorldIsWitnessed
    <2> QED
        BY <2>1, <2>2 DEF MetOK, JobKept
<1>5. CASE PrepareWait(v) \/ PrepareFails(v) \/ RefuseWait(v)
    <2>1. JobKept(v)
        BY <1>0, <1>5, JobsAreKept
    <2>2. runner[v] = "none"
        <3>1. CASE PrepareWait(v) \/ PrepareFails(v)
            BY <3>1, <1>0 DEF PrepareWait, PrepareFails, StageOK
        <3>2. CASE RefuseWait(v)
            BY <3>2, <1>0 DEF RefuseWait, RefuseRegistration, JobOK
        <3> QED
            BY <1>5, <3>1, <3>2
    <2> QED
        BY <2>1, <2>2 DEF MetOK, JobKept
<1>6. CASE Observes(v) \/ PassStarts(v) \/ RunnerRests(v)
    <2>1. JobKept(v)
        BY <1>0, <1>6, JobsAreKept
    <2>2. /\ wait'[v].matched = wait[v].matched /\ wait'[v].kind = wait[v].kind
          /\ UNCHANGED <<hit, vouched>>
        <3>1. CASE Observes(v)
            <4>1. PICK t \in Targets, o \in Observations : Observe(v, t, o)
                BY <3>1 DEF Observes
            <4> QED
                BY <4>1, <1>0 DEF Observe, WaitStates
        <3>2. CASE PassStarts(v)
            BY <3>2, <1>0 DEF PassStarts, StartPass, WaitStates
        <3>3. CASE RunnerRests(v)
            BY <3>3, <1>0 DEF RunnerRests
        <3> QED
            BY <1>6, <3>1, <3>2, <3>3
    <2> QED
        BY <2>1, <2>2 DEF MetOK, JobKept
<1>7. CASE RunnerReturns(v)
    <2>1. PICK outcome \in WaitResults \cup {"rejected"}, matched \in SUBSET Targets :
              /\ Returns(v, outcome, matched)
              /\ outcome = "condition_met" => matched # {} /\ matched = Matched(v)
        BY <1>7 DEF RunnerReturns
    <2>2. /\ wait'[v].matched = matched /\ wait'[v].kind = wait[v].kind /\ UNCHANGED <<hit, vouched>>
          /\ runner[v] = "live" /\ runner'[v] = "ended" /\ answer'[v] = outcome
          /\ rec'[v].result = rec[v].result
        BY <2>1, <1>0 DEF Returns, RunnerEnds, WaitStates, JobRecord, RegTypeOK
    <2>3. rec[v].result # "condition_met"
        BY <2>2 DEF MetOK
    <2>4. wait[v].stage # "idle"
        BY <2>2, <1>0 DEF StageOK
    <2>5. ASSUME NEW t \in Matched(v)
          PROVE  t \in hit[v] /\ (Gated(v, t) => t \in vouched[v])
        BY <2>4 DEF Matched, WitnessOK
    <2> QED
        BY <2>1, <2>2, <2>3, <2>5 DEF MetOK, Gated
<1>8. ASSUME NEW w \in Waits, v # w,
             \/ PrepareWait(w) \/ PrepareFails(w) \/ RefuseWait(w)
             \/ Observes(w) \/ PassStarts(w) \/ RunnerReturns(w) \/ RunnerRests(w)
      PROVE  MetOK(v)'
    <2>1. WaitKept(v)
        BY <1>0, <1>8, OthersAreKept
    <2>2. JobKept(v)
        <3>1. CASE RunnerReturns(w)
            BY <3>1, <1>8, <1>0 DEF RunnerReturns, Returns, RunnerEnds, JobKept, RegTypeOK
        <3> QED
            BY <3>1, <1>8, <1>0, JobsAreKept
    <2> QED
        BY <2>1, <2>2, <1>1 DEF JobKept
<1> QED
    BY <1>0, <1>2, <1>3, <1>4, <1>5, <1>6, <1>7, <1>8, Shapes

-----------------------------------------------------------------------------
(* The theorems.                                                           *)

(* The inductive invariant.                                                *)
WaitInv ==
    /\ TypeOK
    /\ JobInv
    /\ StageInv
    /\ DrainInv
    /\ \A w \in Waits : ToldOK(w) /\ QuietOK(w) /\ WitnessOK(w) /\ MetOK(w)

LEMMA InitiallyRight == Init => WaitInv
<1> SUFFICES ASSUME Init
             PROVE  WaitInv
    OBVIOUS
<1> USE JobsAssumption, WaitAssumption
<1>0. Waits \subseteq Jobs
    BY DEF Jobs
<1>1. Absent \in JobRecord
    BY DEF Absent, JobRecord, Phases, Stages, Results, NoGeneration
<1>2. RegTypeOK
    BY <1>1 DEF Init, RegInit, RegTypeOK, NoGeneration, Results, NoPrep, Bindings, Stages, NoCall, CallStates
<1>3. NoObs \in [Targets -> Observations]
    BY FinishedIsOver DEF NoObs
<1> DEFINE idle == [stage |-> "idle", kind |-> "state", match |-> "any",
                    pin |-> [t \in Targets |-> 0], obs |-> NoObs, due |-> FALSE,
                    doubt |-> {}, hard |-> FALSE, matched |-> {}]
<1>4. idle \in WaitStates
    BY <1>3 DEF WaitStates, Stages_
<1>5. \A w \in Waits : wait[w] = idle /\ rec[w] = Absent /\ runner[w] = "none" /\ answer[w] = "none" /\ told[w] = 0
    BY <1>0 DEF Init, RegInit
<1>6. WaitTypeOK
    <2>1. wait \in [Waits -> WaitStates]
        BY <1>4 DEF Init
    <2>2. [occ: {0}, state: {"working", "met"}] \subseteq PaneStates
        BY DEF PaneStates
    <2>3. pane \in [Targets -> PaneStates]
        BY <2>2 DEF Init
    <2>4. changes \in 0..MaxChanges /\ artifact \subseteq Targets /\ past \subseteq Waits
        BY DEF Init
    <2>5. hit \in [Waits -> SUBSET Targets] /\ vouched \in [Waits -> SUBSET Targets]
        BY DEF Init
    <2> QED
        BY <2>1, <2>3, <2>4, <2>5 DEF WaitTypeOK
<1>7. \A w \in Waits : rec[w].acts = Cardinality(GuardedReads(wait[w].obs))
    <2>1. Cardinality(GuardedReads(NoObs)) = 0
        BY ReadsAreCounted, FinishedIsOver DEF NoObs
    <2> QED
        BY <1>5, <2>1 DEF Absent
<1>8. JobInv /\ StageInv
    BY <1>5 DEF JobInv, JobOK, StageInv, StageOK, Absent, NoObs
<1>9. DrainInv
    BY DEF Init, RegInit, DrainInv, NoCall
<1>10. \A w \in Waits : ToldOK(w) /\ QuietOK(w) /\ WitnessOK(w) /\ MetOK(w)
    BY <1>5 DEF ToldOK, QuietOK, WitnessOK, MetOK, Absent
<1> QED
    BY <1>2, <1>6, <1>7, <1>8, <1>9, <1>10 DEF WaitInv, TypeOK

LEMMA WaitInvStep == WaitInv /\ [Next]_vars => WaitInv'
<1> SUFFICES ASSUME WaitInv, [Next]_vars
             PROVE  WaitInv'
    OBVIOUS
<1>0. TypeOK /\ JobInv /\ StageInv /\ DrainInv /\ RegTypeOK /\ WaitTypeOK
    BY DEF WaitInv, TypeOK
<1>1. TypeOK' /\ StageInv' /\ DrainInv'
    BY <1>0, TypeStep, StageStep, DrainStep
<1>2. ASSUME NEW v \in Waits
      PROVE  JobOK(v)' /\ ToldOK(v)'
    <2>1. JobOK(v) /\ ToldOK(v)
        BY DEF WaitInv, JobInv
    <2>2. CASE RegistryAlone
        BY <2>1, <2>2, <1>0, RegistryKeepsJobs
    <2>3. ASSUME NEW w \in Waits, RunnerReturns(w)
          PROVE  JobOK(v)' /\ ToldOK(v)'
        BY <2>1, <2>3, <1>0, ReturnKeepsJobs
    <2>4. ASSUME NEW w \in Waits,
                 \/ UNCHANGED vars \/ WorldStep \/ PrepareWait(w) \/ PrepareFails(w) \/ RefuseWait(w)
                 \/ Observes(w) \/ PassStarts(w) \/ RunnerRests(w)
          PROVE  JobOK(v)' /\ ToldOK(v)'
        BY <2>1, <2>4, <1>0, JobsAreKept, KeptIsKept
    <2> QED
        BY <2>2, <2>3, <2>4, <1>0, Shapes
<1>3. JobInv' /\ \A v \in Waits : ToldOK(v)'
    BY <1>2 DEF JobInv
<1>4. ASSUME NEW v \in Waits
      PROVE  QuietOK(v)' /\ WitnessOK(v)' /\ MetOK(v)'
    <2>1. QuietOK(v) /\ WitnessOK(v) /\ MetOK(v)
        BY DEF WaitInv
    <2> QED
        BY <2>1, <1>0, QuietStep, WitnessStep, MetStep
<1> QED
    BY <1>1, <1>3, <1>4 DEF WaitInv

LEMMA WaitsStayRight == Spec => []WaitInv
BY InitiallyRight, WaitInvStep, PTL DEF Spec

(* The records of the registry, the runners and their observations have    *)
(* their types, and a job's activity count is the number of its guarded    *)
(* reads in flight, those a finished runner left behind included           *)
(* (guardedCall and its release).                                          *)
THEOREM WaitTypes == Spec => []TypeOK
<1>1. WaitInv => TypeOK
    BY DEF WaitInv
<1> QED
    BY <1>1, WaitsStayRight, PTL

(* However the runner's answer, cancellations and the session's end take   *)
(* the lock, the manager is told of a wait's own ending once and of no     *)
(* other (settleOnce, settleLocked).                                       *)
THEOREM EndingsAreToldOnce == Spec => []EndingIsToldOnce
<1>1. WaitInv => EndingIsToldOnce
    BY DEF WaitInv, EndingIsToldOnce, ToldOK
<1> QED
    BY <1>1, WaitsStayRight, PTL

(* A wait reported cancelled has no runner and no read left (cancel,       *)
(* waitForDrain, isDrained).                                               *)
THEOREM CancelledWaitsAreQuiet == Spec => []CancelledIsQuiet
<1>1. WaitInv => CancelledIsQuiet
    <2> SUFFICES ASSUME WaitInv, NEW w \in Waits, rec[w].result = "cancelled", rec[w].reason = "cancelled"
                 PROVE  runner[w] = "ended" /\ \A t \in Targets : wait[w].obs[t] \notin Guarded
        BY DEF CancelledIsQuiet
    <2>1. runner[w] = "ended" /\ rec[w].acts = 0
        BY DEF WaitInv, QuietOK, Over
    <2>2. Cardinality(GuardedReads(wait[w].obs)) = 0
        BY <2>1 DEF WaitInv, TypeOK
    <2> QED
        BY <2>1, <2>2, ReadsAreCounted
<1> QED
    BY <1>1, WaitsStayRight, PTL

(* A wait reported met names targets whose pinned occupant met the         *)
(* condition before the deadline, the managed ones with their artifact,    *)
(* whatever the panes did around its reads (observationResult,             *)
(* readNativeTarget, attachHandoffGate).                                   *)
THEOREM MetConditionsWereMet == Spec => []MetIsWitnessed
<1>1. WaitInv => MetIsWitnessed
    BY DEF WaitInv, MetIsWitnessed, MetOK
<1> QED
    BY <1>1, WaitsStayRight, PTL

=============================================================================
