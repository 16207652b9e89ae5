------------------------------ MODULE Supervision ------------------------------
(***************************************************************************)
(* The steps of one supervisor and of everything that runs beside it: the  *)
(* monitor's dispatches, the tasks of the mutation chain, reviews, the     *)
(* binding of a reserved job, cancellation, sessions, the daemon's stop,   *)
(* crash and reattach (src/src/supervision/supervisor.ts, registry.ts,     *)
(* src/src/daemon/reattach.ts).                                            *)
(***************************************************************************)
EXTENDS Supervisor

CONSTANT Casts      \* the sets of disturbances a behaviour may have

vars == <<worldVars, gateVars, regVars, supVars, evidenceVars>>

Alive == daemon.pc # "down"
regRest == <<session, asked, rec, runner, answer, prep, retired, call, told, posted>>

(* The supervisor's port shows the registry the state it is in. *)
Becomes(s) == sup' = s /\ port' = [port EXCEPT ![Job] = s.state]
Folds(s) == Becomes(s) /\ UNCHANGED <<regRest, review, daemon>>

(* What a read on the chain may bring now, if there is one. *)
Reads(r) ==
    \/ r = Snap(TRUE) /\ UNCHANGED spent
    \/ /\ spent.glitches < MaxGlitches /\ "glitches" \in cast
       /\ r = Snap(FALSE)
       /\ spent' = [spent EXCEPT !.glitches = @ + 1]

(* How a write of the sidecar may end. *)
WriteEnds == {"ok"} \cup (IF "faults" \in cast THEN {"lost", "unsynced"} ELSE {})

-----------------------------------------------------------------------------
(* Dispatch of the monitor's evidence. *)

(* The chain is free for the dispatcher's next unit. *)
Free == Alive /\ sup.at = Idle /\ sup.todo = <<>> /\ sup.bind # "drain"
Bound == sup.bind = "done" /\ ~Over(sup)

(* matches and routes *)
Routed(e) ==
    /\ sup.bind \notin {"no", "failed"} /\ ~Over(sup)
    /\ \E p \in {e.pane} \cup {q \in {e.from} : e.kind = "moved"} :
         p = sup.pane \/ (sup.moved # NoEvent /\ p = sup.moved.pane)

(* fold: thin, foreign and unproven evidence is answered by a fresh read. *)
Fold(s, e, snap) ==
    IF IsSettled(s) \/ (s.retired /\ e.kind = "thin") THEN s
    ELSE IF e.kind = "moved" /\ e.from = Believed(s) /\ e.ours THEN RetainMove(s, e)
    ELSE IF e.kind # "updated" \/ s.moved # NoEvent THEN ApplyAuthoritative(s, snap, "released")
    ELSE IF e.rev < s.rev THEN s
    ELSE IF ~e.ours THEN ApplyAuthoritative(s, snap, "released")
    ELSE ApplyEventRevision(s, e)

DeliverEvent ==
    /\ Free
    /\ Pending
    /\ sup.bind # "reading"
    /\ link' = Delivered
    /\ \E r \in {Snap(TRUE), Snap(FALSE)} :
         /\ Reads(r)
         /\ Folds(IF Routed(log[link.next]) THEN Fold(sup, log[link.next], r) ELSE sup)
    /\ UNCHANGED <<gateVars, cast, child, log, boot, periodic>>

(* onEvent before the anchor is proven, or while the bind task drains. *)
AdmitEvent ==
    /\ Alive
    /\ Pending
    /\ sup.bind \in {"reading", "drain"}
    /\ link' = Delivered
    /\ Folds(IF Routed(log[link.next])
             THEN [sup EXCEPT !.queued = Append(@, log[link.next])] ELSE sup)
    /\ UNCHANGED <<gateVars, cast, child, log, boot, periodic, spent>>

(* announce: onMonitorRecovered, then onBootstrap. *)
AnnounceBootstrap ==
    /\ Free
    /\ boot # NoSnapshot
    /\ boot' = NoSnapshot
    /\ Folds(IF ~Bound THEN sup
             ELSE ApplyAuthoritative([sup EXCEPT !.stream = @ /\ sup.retired], boot, "identity_lost"))
    /\ UNCHANGED <<gateVars, cast, child, log, link, periodic, spent>>

(* onMonitorDegraded: a reconnect attempt failed. *)
ResubscribeFails ==
    /\ Alive /\ ~sup.stopped
    /\ ~link.up /\ "glitches" \in cast
    /\ spent.glitches < MaxGlitches
    /\ link' = [link EXCEPT !.degraded = TRUE]
    /\ spent' = [spent EXCEPT !.glitches = @ + 1]
    /\ Folds(IF Bound /\ ~sup.retired THEN [sup EXCEPT !.stream = TRUE] ELSE sup)
    /\ UNCHANGED <<gateVars, cast, child, log, boot, periodic>>

(* onReconciliationSnapshot *)
DispatchPeriodic ==
    /\ Free
    /\ periodic # NoSnapshot
    /\ periodic' = NoSnapshot
    /\ Folds(IF Bound THEN ApplyAuthoritative(sup, periodic, "released") ELSE sup)
    /\ UNCHANGED <<gateVars, cast, child, log, link, boot, spent>>

(* onReconciliationFailure: the periodic read itself failed. *)
PeriodicReadFails ==
    /\ Free /\ {"reads", "glitches"} \subseteq cast
    /\ periodic = NoSnapshot
    /\ spent.glitches < MaxGlitches
    /\ spent' = [spent EXCEPT !.glitches = @ + 1]
    /\ Folds(IF Bound /\ ~sup.retired THEN MarkFailure(sup) ELSE sup)
    /\ UNCHANGED <<gateVars, cast, child, log, link, boot, periodic>>

(* followMove: the read of the destination answers, or fails. *)
MoveRead ==
    /\ Alive /\ sup.at.pc = "move"
    /\ \/ \E r \in {Snap(TRUE), Snap(FALSE)} : Reads(r) /\ Folds(DestinationRead(sup, r))
       \/ /\ spent.glitches < MaxGlitches /\ "glitches" \in cast
          /\ spent' = [spent EXCEPT !.glitches = @ + 1]
          /\ Folds(Settle([sup EXCEPT !.at = Idle], "identity_lost"))
    /\ UNCHANGED <<gateVars, cast, child, log, link, boot, periodic>>

(* selfClose.consume answers; an own close is settled without its event. *)
CloseConsumed ==
    /\ Alive /\ sup.at.pc = "consume"
    /\ Folds(Settle(sup, sup.at.outcome))
    /\ UNCHANGED <<gateVars, worldVars>>

-----------------------------------------------------------------------------
(* The provider's log. *)

(* onCompletionSignal *)
OnCompletionSignal ==
    /\ Alive /\ "signal" \in cast
    /\ ~sup.signal /\ sup.published /\ ~IsSettled(sup)
    /\ Folds(ScheduleCompletion([sup EXCEPT !.signal = TRUE]))
    /\ UNCHANGED <<gateVars, worldVars>>

(* The chain takes its next task; one that no longer applies is dropped. *)
TakeCompletion ==
    /\ Alive /\ sup.at = Idle /\ sup.bind # "drain"
    /\ sup.todo # <<>> /\ Head(sup.todo) = "completion"
    /\ Folds([sup EXCEPT !.todo = Tail(@),
                         !.at = IF Over(sup) \/ sup.recorded \/ sup.status \notin Terminal THEN Idle
                                ELSE [Idle EXCEPT !.pc = "signal"]])
    /\ UNCHANGED <<gateVars, worldVars>>

(* The bounded reads: retried twice, then the held completion is released and *)
(* the handoff is looked at.                                                  *)
AfterSignal(s) ==
    LET a == [s EXCEPT !.at = Idle, !.attempts = IF @ < 3 THEN @ + 1 ELSE @] IN
    IF s.recorded THEN [s EXCEPT !.at = Idle]
    ELSE IF a.attempts < 3 THEN [a EXCEPT !.retry = TRUE]
    ELSE LET f == Flush(a) IN
         IF f.lastTo = f.status \/ (f.lastTo = "done" /\ f.status = "idle")
         THEN ScheduleHandoff(f) ELSE f

(* settle between its two reads and after them. *)
AfterLeaving(s) ==
    IF ~s.recorded /\ s.at.n = 1 THEN [s EXCEPT !.at.n = 2]
    ELSE ToPersist(Flush(s), s.at.outcome)

After(s) == IF s.at.outcome = "none" THEN AfterSignal(s) ELSE AfterLeaving(s)

(* recordCompletionSignal: no limit, an untrusted log, or a typed limit.  It  *)
(* takes the place of the completion that is held, or comes beside: after the *)
(* completion was released, or where there was none (a child that is blocked, *)
(* or was bound when its turn was over).                                      *)
SignalAnswers ==
    /\ Alive /\ sup.at.pc \in {"signal", "leave"}
    /\ \/ Folds(After(sup))
       \/ LET a == [sup EXCEPT !.recorded = TRUE, !.held = FALSE, !.at.pc = "limit",
                               !.limited = @ + 1,
                               !.late = IF sup.deliver /\ ~sup.held THEN @ + 1 ELSE @]
              b == Wake(a)
          IN Folds(IF sup.managed THEN b ELSE After(b))
    /\ UNCHANGED <<gateVars, worldVars>>

(* markCycle(provider_limit), awaited; its failure is ignored. *)
LimitMarked ==
    /\ Alive /\ sup.at.pc = "limit"
    /\ \E how \in WriteEnds :
         /\ Commits(WithMark("provider_limit"), how)
         /\ Folds(After(IF how = "ok" THEN [sup EXCEPT !.life = sidecar.life] ELSE sup))
    /\ UNCHANGED <<worldVars, artifact, writes, since, handoffs, prompts>>

RetryFires ==
    /\ Alive /\ sup.retry
    /\ Folds(ScheduleCompletion([sup EXCEPT !.retry = FALSE]))
    /\ UNCHANGED <<gateVars, worldVars>>

-----------------------------------------------------------------------------
(* The managed run. *)

(* evaluateHandoff's guards. *)
Evaluable(s) ==
    /\ ~Over(s) /\ s.status \in Terminal /\ s.managed
    /\ s.life = "awaiting_handoff" \/ (s.retired /\ s.life = "handed_off" /\ s.open)

TakeHandoff ==
    /\ Alive /\ sup.at = Idle /\ sup.bind # "drain"
    /\ sup.todo # <<>> /\ Head(sup.todo) = "handoff"
    /\ Folds([sup EXCEPT !.todo = Tail(@),
                         !.at = IF Evaluable(sup) THEN [Idle EXCEPT !.pc = "validate"] ELSE Idle])
    /\ UNCHANGED <<gateVars, worldVars>>

(* After a verdict that does not hand the run off: a settlement goes on to    *)
(* write the fallback, an observation may earn a repair.                      *)
NotHandedOff(s) ==
    IF s.at.outcome # "none" THEN [s EXCEPT !.at.pc = "record", !.at.content = "none"]
    ELSE IF s.retired \/ s.recorded \/ (s.signal /\ s.attempts < 3) \/ Over(s)
    THEN [s EXCEPT !.at = Idle]
    ELSE [s EXCEPT !.at = [Idle EXCEPT !.pc = "repair"]]

(* validate, the read of the artifact. *)
ReadArtifact ==
    /\ Alive /\ sup.at.pc = "validate"
    /\ Folds(IF artifact \in Contents
             THEN [sup EXCEPT !.at.pc = "accept", !.at.content = artifact]
             ELSE NotHandedOff(sup))
    /\ UNCHANGED <<gateVars, worldVars>>

Now == [cycle |-> sup.cycles, boot |-> daemon.boot]

(* validate, the acceptance under the flock, and what its caller does with it. *)
AcceptArtifact ==
    /\ Alive /\ sup.at.pc = "accept"
    /\ \E how \in WriteEnds :
         /\ Commits(Accepting(sup.at.content), how)
         /\ since' = IF how # "lost" /\ sidecar.sha # sup.at.content THEN Now ELSE since
         /\ LET content == sup.at.content
                stale == IsStale(content, sup.open)
                m == [sup EXCEPT !.life = sidecar.life, !.accepted = content]
                a == [m EXCEPT !.open = FALSE, !.at.pc = "record"]
            IN Folds(IF how # "ok" THEN NotHandedOff(sup)
                     ELSE IF stale THEN NotHandedOff(m)
                     ELSE IF sup.at.outcome # "none" \/ GateMatches(content, sup.status) THEN a
                     ELSE NotHandedOff([m EXCEPT !.open = FALSE]))
    /\ UNCHANGED <<worldVars, artifact, writes, handoffs, prompts>>

(* What recordOutcome writes: an acceptance, or the fallback of a settlement. *)
Recording(s) ==
    CASE s.at.content # "none" ->
             WithOutcome("handed_off",
                         IF s.recorded THEN "provider_limit"
                         ELSE IF s.at.outcome = "none" THEN "none" ELSE "other")
      [] s.at.content = "none" /\ s.recorded -> WithOutcome("failed", "provider_limit")
      [] OTHER -> WithOutcome("cancelled", "other")

(* retireAfterHandoff *)
Retire(s) == [s EXCEPT !.retired = TRUE, !.timer = FALSE]

RecordOutcome ==
    /\ Alive /\ sup.at.pc = "record"
    /\ \E how \in WriteEnds :
         /\ Commits(Recording(sup), how)
         /\ handoffs' = IF how # "lost" /\ sup.at.content # "none"
                        THEN handoffs \cup {[accepted |-> since, recorded |-> Now]} ELSE handoffs
         /\ LET m == IF how = "ok" THEN [sup EXCEPT !.life = sidecar'.life] ELSE sup
            IN Folds(IF sup.at.outcome # "none" THEN Settled(m, sup.at.outcome)
                     ELSE IF how = "ok" THEN Retire([m EXCEPT !.at = Idle])
                     ELSE [sup EXCEPT !.at = Idle])
    /\ UNCHANGED <<worldVars, artifact, writes, since, prompts>>

(* beginRepair: the fence is durable before there is anything to send. *)
BeginRepair ==
    /\ Alive /\ sup.at.pc = "repair"
    /\ \E how \in WriteEnds :
         /\ Commits(WithFence, how)
         /\ Folds(IF how # "ok" THEN [sup EXCEPT !.at = Idle]
                  ELSE [sup EXCEPT !.life = sidecar.life,
                                   !.at = IF Fenceable THEN [Idle EXCEPT !.pc = "prompt", !.n = sidecar.version]
                                          ELSE Idle])
    /\ UNCHANGED <<worldVars, artifact, writes, since, handoffs, prompts>>

(* The repair prompt is sent, or fails; its fence stands either way. *)
SendRepair ==
    /\ Alive /\ sup.at.pc = "prompt"
    /\ prompts' = [prompts EXCEPT ![sup.at.n] = @ + 1]
    /\ Folds([sup EXCEPT !.at = Idle])
    /\ UNCHANGED <<worldVars, sidecar, artifact, faults, writes, since, handoffs>>

(* markCycle(cycle_reopened), which nobody waits for. *)
ReopenedMarked ==
    /\ Alive /\ sup.marking > 0
    /\ \E how \in WriteEnds :
         /\ Commits(WithMark("cycle_reopened"), how)
         /\ Folds([sup EXCEPT !.marking = @ - 1, !.life = IF how = "ok" THEN sidecar.life ELSE @])
    /\ UNCHANGED <<worldVars, artifact, writes, since, handoffs, prompts>>

-----------------------------------------------------------------------------
(* Reviews. *)

(* reviewRunLive, reviewable *)
RunLive(s) == ~Over(s) /\ ~s.retired /\ s.status = "working"
Reviewable(s, run, gen) == RunLive(s) /\ s.moved = NoEvent /\ s.run = run /\ s.gen = gen

(* review, up to its reads: held while another is settling, the child's pane  *)
(* is not proven or the owner is away, and the cadence goes on.               *)
CadenceFires ==
    /\ Alive /\ "review" \in cast
    /\ sup.timer
    /\ LET held == review # NoReview \/ sup.moved # NoEvent \/ sup.paused
           starts == ~held /\ Reviewable(sup, sup.run, sup.gen)
       IN /\ Becomes([sup EXCEPT !.timer = held /\ RunLive(sup)])
          /\ review' = IF starts THEN [NoReview EXCEPT !.pc = "reading", !.run = sup.run, !.gen = sup.gen]
                       ELSE review
    /\ UNCHANGED <<gateVars, worldVars, regRest, daemon, evidenceVars>>

(* The review in hand is still about this run, in this pane. *)
Current == Reviewable(sup, review.run, review.gen)

(* Mutant of ReviewOver: the cadence goes on only while the pane is proven. *)
ReviewOverProven ==
    /\ review' = NoReview
    /\ Becomes(IF Current THEN [sup EXCEPT !.timer = TRUE] ELSE sup)

(* review, finally: only the run this review belonged to is armed again. *)
ReviewOver ==
    /\ review' = NoReview
    /\ Becomes(IF RunLive(sup) /\ sup.run = review.run THEN [sup EXCEPT !.timer = TRUE] ELSE sup)

Advances(pc) == review' = [review EXCEPT !.pc = pc] /\ UNCHANGED <<sup, port>>

(* A failure that is not the model's: told once it is sustained, and only     *)
(* while the review is about something.                                       *)
ReviewerFails ==
    /\ ReviewOver
    /\ evidence' = IF ~Current THEN evidence
                   ELSE [evidence EXCEPT !.degraded = TRUE,
                                         !.fails = IF @ < Threshold THEN @ + 1 ELSE @,
                                         !.announced = @ \/ evidence.fails + 1 >= Threshold]

(* A cadence that is complete, its append included, ends a degraded episode. *)
ReviewCompletes ==
    /\ ReviewOver
    /\ evidence' = IF ~Current THEN evidence
                   ELSE [evidence EXCEPT !.degraded = FALSE, !.fails = 0, !.announced = FALSE]

(* The cursor moves behind the window that was judged or reported. *)
Consumes ==
    LET w == review.window IN
    evidence' = [evidence EXCEPT
        !.cursor = w.to,
        !.windows = IF w.events = {} THEN @ ELSE Append(@, w.events),
        !.passed = @ \cup w.skipped]

(* The reads: the trace after the cursor, then the screen and the workspace,  *)
(* during which the child goes on.  A trace that cannot be read is a value, a *)
(* screen that cannot is a failure.                                           *)
ReviewReads ==
    /\ Alive /\ review.pc = "reading"
    /\ \/ /\ \E w \in {ReadTrace(evidence.cursor)}
                       \cup (IF "trace" \in cast
                             THEN {Failed(evidence.cursor, "source_unreadable")} ELSE {}) :
                review' = [review EXCEPT !.pc = "building", !.window = w]
          /\ UNCHANGED <<sup, port, evidence>>
       \/ "troubles" \in cast /\ trace.source # "tmux-fallback" /\ ReviewerFails
    /\ UNCHANGED <<gateVars, worldVars, regRest, daemon, trace, store>>

(* EVIDENCE_OVERFLOW_FAILURES *)
Overflows(w) == w.failure = "record_exceeds_budget"

(* emitTier0Violations: an oversized record, a budget, or a workspace that is *)
(* not what the assignment allows is told, and consumes the window.           *)
EmitTier0Violations == Current /\ Consumes /\ Advances("storing")

(* buildEvidenceState refuses what is over its budget, sensitive or malformed, *)
(* and a trace that failed is not sent either: the review ends.                *)
EvidenceUnavailable == Current /\ ~Overflows(review.window) /\ ReviewOver /\ UNCHANGED evidence

(* About a run that is over, or a pane that was left, there is no evidence. *)
ReviewDropped == ~Current /\ ReviewOver /\ UNCHANGED evidence

CallsReviewer ==
    /\ Current /\ review.window.failure = "none"
    /\ Advances("judging") /\ UNCHANGED evidence

ReviewBuilds ==
    /\ Alive /\ review.pc = "building"
    /\ ReviewDropped \/ EmitTier0Violations \/ EvidenceUnavailable \/ CallsReviewer
    /\ UNCHANGED <<gateVars, worldVars, regRest, daemon, trace, store>>

(* Mutant of ReviewJudged: the cursor moves before the answer is known to     *)
(* be about anything.                                                         *)
ReviewJudgedEager ==
    /\ Alive /\ review.pc = "judging"
    /\ \/ /\ ReviewOver
          /\ evidence' = [evidence EXCEPT !.cursor = review.window.to]
       \/ Current /\ Consumes /\ Advances("storing")
    /\ UNCHANGED <<gateVars, worldVars, regRest, daemon, trace, store>>

(* The model's failure is nobody's. *)
ReviewerFailure == ReviewOver /\ UNCHANGED evidence

(* The model answers or fails; an answer about a run that is over, or a pane  *)
(* that was left, is dropped.                                                 *)
ReviewJudged ==
    /\ Alive /\ review.pc = "judging"
    /\ ReviewDropped \/ ReviewerFailure \/ (Current /\ Consumes /\ Advances("storing"))
    /\ UNCHANGED <<gateVars, worldVars, regRest, daemon, trace, store>>

(* The append to the review log fails: its directory, its lock or its file. *)
AppendFails == "troubles" \in cast /\ ReviewerFails

(* persistReview, persistTier0Violations: the append comes after the effects. *)
ReviewStored ==
    /\ Alive /\ review.pc = "storing"
    /\ ReviewCompletes \/ AppendFails
    /\ UNCHANGED <<gateVars, worldVars, regRest, daemon, trace, store>>

-----------------------------------------------------------------------------
(* Binding. *)

(* bind after its confirming snapshot: the private anchor. *)
Anchored(s, snap) ==
    [s EXCEPT !.bind = "drain", !.status = snap.status, !.rev = snap.rev, !.seq = snap.seq,
              !.last = EndpointOf(snap), !.paused = s.managed /\ ~snap.owner, !.base = child.ends]

(* commitBinding once its publication is committed. *)
Published(s, degraded) ==
    EnterStatus([s EXCEPT !.bind = "done", !.published = TRUE, !.state = "active", !.stream = degraded])

(* resetPreparedBinding *)
Reset(s) ==
    [Reserved EXCEPT !.bind = "failed", !.state = s.state, !.stopped = s.stopped,
                     !.outcome = s.outcome, !.managed = s.managed, !.open = s.open,
                     !.life = s.life, !.accepted = s.accepted, !.cycles = s.cycles, !.todo = s.todo]

(* gate.bind: what the mirror holds of the run; the sidecar decides whether a *)
(* cycle is outstanding.                                                      *)
Mirrored(s, state) ==
    [s EXCEPT !.managed = TRUE, !.life = state.life, !.accepted = state.sha, !.open = state.sha = "none"]

(* reservation.bind: the gate's binding, then the observer, then the read. *)
BindStarts ==
    /\ Alive /\ sup.bind = "no" /\ ~Over(sup)
    /\ LET reading(s) == [s EXCEPT !.bind = "reading", !.pane = 1] IN
       IF "managed" \in cast
       THEN \E how \in WriteEnds :
              /\ Commits(sidecar, how)
              /\ IF how = "ok"
                 THEN PrepareBinding(Job, "exact") /\ sup' = reading(Mirrored(sup, sidecar))
                 ELSE sup' = [sup EXCEPT !.bind = "failed"] /\ UNCHANGED regVars
       ELSE PrepareBinding(Job, "exact") /\ sup' = reading(sup) /\ UNCHANGED <<sidecar, faults>>
    /\ UNCHANGED <<worldVars, artifact, writes, since, handoffs, prompts, review, daemon>>

(* bind: the confirming snapshot proves the child, or the binding is refused. *)
BindAnchors ==
    /\ Alive /\ sup.bind = "reading"
    /\ \E r \in {Snap(TRUE), Snap(FALSE)} :
         /\ Reads(r)
         /\ IF Target(r, sup.pane) = "continuous"
            THEN sup' = Anchored(sup, r) /\ UNCHANGED regVars
            ELSE sup' = Reset(sup) /\ RollbackBinding(Job)
    /\ UNCHANGED <<gateVars, cast, child, log, link, boot, periodic, review, daemon>>

(* drainAdmitted inside the bind task. *)
DrainAdmitted ==
    /\ Alive /\ sup.bind = "drain" /\ sup.at = Idle
    /\ sup.queued # <<>> /\ ~sup.stopped
    /\ \E r \in {Snap(TRUE), Snap(FALSE)} :
         /\ Reads(r)
         /\ Folds(Fold([sup EXCEPT !.queued = Tail(@)], Head(sup.queued), r))
    /\ UNCHANGED <<gateVars, cast, child, log, link, boot, periodic>>

Drained == sup.bind = "drain" /\ sup.at = Idle /\ (sup.queued = <<>> \/ sup.stopped)

(* commitBinding: the drain did not settle the supervisor, and the job still  *)
(* runs.                                                                      *)
BindCommits ==
    /\ Alive /\ Drained /\ ~IsSettled(sup)
    /\ CommitBinding(Job)
    /\ sup' = Published(sup, link.degraded)
    /\ UNCHANGED <<gateVars, worldVars, review, daemon>>

BindRefused ==
    /\ Alive /\ Drained
    /\ IsSettled(sup) \/ ~Committable(Job)
    /\ RollbackBinding(Job)
    /\ sup' = IF IsSettled(sup) THEN [sup EXCEPT !.bind = "failed"] ELSE Reset(sup)
    /\ UNCHANGED <<gateVars, worldVars, review, daemon>>

(* Mutant of Stopped: the review timer and the retry stay armed. *)
StoppedTicking(s, outcome) ==
    [s EXCEPT !.stopped = TRUE, !.state = "settled", !.outcome = IF IsSettled(s) THEN @ ELSE outcome]

(* shutdown and release: the memory that stops, whatever is in flight. *)
Stopped(s, outcome) ==
    [s EXCEPT !.stopped = TRUE, !.timer = FALSE, !.retry = FALSE,
              !.state = "settled", !.outcome = IF IsSettled(s) THEN @ ELSE outcome]

(* release: the launch gives up on what it reserved. *)
ReleaseReservation ==
    /\ Alive /\ sup.bind \in {"no", "failed"}
    /\ Release(Job)
    /\ sup' = Stopped(sup, "failed")
    /\ UNCHANGED <<gateVars, worldVars, review, daemon>>

(* The job's runner and its cancellation. *)
Returned(outcome) == IF outcome \in {"failed", "cancelled"} THEN outcome ELSE "finished"

JobSteps ==
    /\ Alive
    /\ \/ SupervisorReturns(Job) /\ answer'[Job] = Returned(sup.outcome)
       \/ SettleRunner(Job)
       \/ "binding" \in cast /\ \E c \in Callers :
            RequestCancel(c, Job) \/ DrainObserved(c) \/ SettleCancel(c)
    /\ UNCHANGED <<gateVars, worldVars, supVars>>

-----------------------------------------------------------------------------
(* The daemon. *)

(* supervision.shutdown: the gate marks the runs it still mirrors as awaiting, *)
(* and only then are the supervisors stopped.                                 *)
StopBegins ==
    /\ daemon.pc = "up" /\ "stops" \in cast
    /\ daemon.boot + 1 < MaxBoots
    /\ daemon' = [daemon EXCEPT !.pc = IF sup.managed /\ sup.life = "awaiting_handoff"
                                       THEN "flushing" ELSE "stopping"]
    /\ UNCHANGED <<gateVars, worldVars, regVars, sup, review>>

FlushHandoffs ==
    /\ daemon.pc = "flushing"
    /\ daemon' = [daemon EXCEPT !.pc = "stopping"]
    /\ \E how \in WriteEnds :
         /\ Commits(WithOutcome("recovery_pending", "other"), how)
         /\ sup' = IF how = "ok" THEN [sup EXCEPT !.life = "recovery_pending"] ELSE sup
    /\ UNCHANGED <<worldVars, regVars, artifact, writes, since, handoffs, prompts, review>>

StopSupervisors ==
    /\ daemon.pc = "stopping" /\ ~sup.stopped
    /\ Becomes(Stopped(sup, "cancelled"))
    /\ link' = [link EXCEPT !.up = FALSE]
    /\ UNCHANGED <<gateVars, cast, child, log, boot, periodic, spent, regRest, review, daemon>>

(* The process ends, on its own or at the end of a stop; only files stay. *)
Exit ==
    /\ Alive /\ daemon.boot + 1 < MaxBoots
    /\ "crashes" \in cast \/ (daemon.pc = "stopping" /\ sup.stopped)
    /\ daemon' = [daemon EXCEPT !.pc = "down"]
    /\ sup' = [Reserved EXCEPT !.cycles = sup.cycles]
    /\ review' = NoReview /\ evidence' = FreshEvidence
    /\ link' = [up |-> FALSE, next |-> 1, degraded |-> FALSE]
    /\ boot' = NoSnapshot /\ periodic' = NoSnapshot
    /\ rec' = [rec EXCEPT ![Job] = Absent] /\ runner' = [runner EXCEPT ![Job] = "none"]
    /\ answer' = [answer EXCEPT ![Job] = "none"] /\ port' = [port EXCEPT ![Job] = "none"]
    /\ prep' = [prep EXCEPT ![Job] = NoPrep] /\ call' = [c \in Callers |-> NoCall]
    /\ UNCHANGED <<gateVars, cast, child, log, spent, session, asked, retired, told, posted, trace,
                   store>>

(* A reservation whose runner attached its supervisor. *)
Running == [Absent EXCEPT !.phase = "running", !.gate = TRUE, !.gen = 0, !.listed = TRUE]

(* classifyChild and the revalidations; a review log may refuse on its own. *)
Matched ==
    /\ sidecar.life \in {"awaiting_handoff", "recovery_pending"}
    /\ child.there = "here"
    /\ sidecar.sha \in {"none", artifact}

(* bindMatchedRun: the exact match makes the run awaiting again, and the new  *)
(* supervisor is anchored where the child is.                                 *)
Reattach ==
    /\ daemon.pc = "down"
    /\ Matched
    /\ daemon' = [pc |-> "up", boot |-> daemon.boot + 1]
    /\ sidecar' = IF sidecar.life = "recovery_pending" THEN WithOutcome("awaiting_handoff", "other")
                  ELSE sidecar
    /\ sup' = LET reserved == [Reserved EXCEPT !.cycles = sup.cycles, !.pane = child.pane]
              IN Published(Anchored(Mirrored(reserved, sidecar'), Snap(TRUE)), FALSE)
    /\ rec' = [rec EXCEPT ![Job] = [Running EXCEPT !.stage = "exact"]]
    /\ runner' = [runner EXCEPT ![Job] = "live"] /\ port' = [port EXCEPT ![Job] = "active"]
    /\ \E from \in 1..(Len(log) + 1) : link' = [up |-> TRUE, next |-> from, degraded |-> FALSE]
    /\ UNCHANGED <<cast, child, log, boot, periodic, spent, artifact, faults, writes, since,
                   handoffs, prompts, session, asked, answer, prep, retired, call, told, posted,
                   review>>

(* The sweep binds nothing: an uncertain child is marked, an absent one, a    *)
(* refused revalidation and a resolved run are left as they are.              *)
ReattachRefused ==
    /\ daemon.pc = "down"
    /\ daemon' = [pc |-> "up", boot |-> daemon.boot + 1]
    /\ IF child.there \in {"exited", "replaced"} /\ sidecar.life \in {"awaiting_handoff", "recovery_pending"}
       THEN \E how \in WriteEnds :
              Commits(WithOutcome("recovery_pending", "other"), how)
       ELSE UNCHANGED <<sidecar, faults>>
    /\ sup' = Stopped(sup, "failed")
    /\ UNCHANGED <<worldVars, artifact, writes, since, handoffs, prompts, regVars, review>>

-----------------------------------------------------------------------------
(* A behaviour starts with a supervisor bound to its child, or, in a binding  *)
(* cast, with the reservation a launch is about to bind.                      *)
Init ==
    /\ cast \in Casts
    /\ \E status \in IF "quiet" \in cast THEN {"idle"}
                     ELSE IF {"trace", "store"} \cap cast # {} THEN {"working"}
                     ELSE {"idle", "working"} :
         WorldInit(status)
    /\ GateInit
    /\ session = [gen |-> 0, accepting |-> TRUE]
    /\ asked = [j \in Jobs |-> 0]
    /\ answer = [j \in Jobs |-> "none"] /\ prep = [j \in Sups |-> NoPrep] /\ retired = {}
    /\ call = [c \in Callers |-> NoCall]
    /\ told = [j \in Jobs |-> 0] /\ posted = [j \in Jobs |-> 0]
    /\ runner = [j \in Jobs |-> "live"]
    /\ daemon = [pc |-> "up", boot |-> 0]
    /\ review = NoReview
    /\ evidence = FreshEvidence
    /\ \E source \in IF {"trace", "troubles"} \cap cast # {} THEN Sources \ {"devin-store"}
                     ELSE IF "store" \in cast THEN {"devin-store"}
                     ELSE IF "quiet" \in cast THEN {"pi-jsonl", "devin-session"}
                     ELSE {"tmux-fallback"} :
         TraceInit(source) /\ StoreInit
    /\ IF "binding" \in cast
       THEN /\ sup = Reserved
            /\ rec = [j \in Jobs |-> Running]
            /\ port = [j \in Sups |-> "starting"]
       ELSE /\ LET s == [Reserved EXCEPT !.pane = 1]
                   m == IF "managed" \in cast THEN Mirrored(s, sidecar) ELSE s
               IN sup = Published(Anchored(m, Snap(TRUE)), FALSE)
            /\ rec = [j \in Jobs |-> [Running EXCEPT !.stage = "exact"]]
            /\ port = [j \in Sups |-> "active"]

(* In a "prompt" behaviour nothing falls between a stop and the process's end. *)
Moving == "prompt" \in cast => ~sup.stopped

(* In a "quiet" or a "store" one the child only writes its trace. *)
World ==
    /\ Moving /\ {"quiet", "store"} \cap cast = {}
    /\ \/ ChildTurns \/ ChildMoves \/ ChildLeaves \/ ThinEvent \/ OwnerTurns
       \/ StreamDrops \/ (Alive /\ ~sup.stopped /\ (Resubscribe \/ PeriodicRead))
    /\ UNCHANGED <<gateVars, regVars, supVars>>

ChildArtifact == Moving /\ "writes" \in cast /\ ChildWrites /\ UNCHANGED <<worldVars, regVars, supVars>>

(* The child's trace: what it may hold is what the behaviour is about. *)
TraceGrows ==
    /\ Moving
    /\ \/ /\ "trace" \in cast
          /\ \/ \E size \in Sizes, kind \in {"user", "other"} :
                  /\ IF trace.source = "tmux-fallback" THEN size # "bad" ELSE kind = "other"
                  /\ WriteRecord(size, kind, 0)
             \/ \E size \in {"fits", "long"} : BeginRecord(size)
             \/ EndRecord("other")
             \/ RewriteTrace
       \/ /\ "quiet" \in cast
          /\ \E kind \in Kinds, at \in 0..MaxTicks :
               /\ trace.source = "devin-session" => kind \in {"user", "other"}
               /\ WriteRecord("fits", kind, at)
    /\ UNCHANGED <<worldVars, gateVars, regVars, supVars, evidence, store>>

(* The child's session store: a message is long, or over the raw cap, or a    *)
(* draft beside the conversation, in the roles where that makes a difference; *)
(* what was rewritten stays the conversation.                                 *)
StoreGrows ==
    /\ Moving /\ "store" \in cast
    /\ \/ \E role \in Roles, size \in {"fits", "long", "huge"} :
            /\ size # "fits" <=> role = "agent"
            /\ AddNode(store.head, role, size)
       \/ store.head # 0 /\ AddNode(0, "user", "fits")
       \/ /\ \A n \in 1..Len(store.nodes) : store.nodes[n].edition = 0
          /\ \/ store.head # 0 /\ RevertHead(store.nodes[store.head].parent)
             \/ \E n \in 1..Len(store.nodes) : EditNode(n)
    /\ UNCHANGED <<worldVars, gateVars, regVars, supVars, evidence, trace>>

Next ==
    \/ /\ \/ World \/ ChildArtifact
          \/ DeliverEvent \/ AdmitEvent \/ AnnounceBootstrap \/ ResubscribeFails
          \/ DispatchPeriodic \/ PeriodicReadFails \/ MoveRead \/ CloseConsumed
          \/ OnCompletionSignal \/ TakeCompletion \/ SignalAnswers \/ LimitMarked \/ RetryFires
          \/ TakeHandoff \/ ReadArtifact \/ AcceptArtifact \/ RecordOutcome
          \/ BeginRepair \/ SendRepair \/ ReopenedMarked
          \/ BindStarts \/ BindAnchors \/ DrainAdmitted \/ BindCommits \/ BindRefused
          \/ ReleaseReservation \/ JobSteps
          \/ StopBegins \/ FlushHandoffs \/ StopSupervisors \/ Reattach \/ ReattachRefused
       /\ UNCHANGED evidenceVars
    \/ CadenceFires \/ ReviewReads \/ ReviewBuilds \/ ReviewJudged \/ ReviewStored
    \/ TraceGrows \/ StoreGrows \/ Exit

Spec == Init /\ [][Next]_vars

-----------------------------------------------------------------------------
(* Properties. *)

(* Every variable holds a value of its kind. *)
TypeOK == WorldTypeOK /\ GateTypeOK /\ RegTypeOK /\ SupTypeOK /\ TraceTypeOK /\ StoreTypeOK

(* The evidence has all arrived and been folded. *)
CaughtUp ==
    /\ Bound /\ Free
    /\ link.up /\ link.next > Len(log) /\ boot = NoSnapshot /\ periodic = NoSnapshot

(* A completed work cycle is told to the manager once (a completion that waits *)
(* for the provider's log counts as told).  Where Herdr revises a pane with    *)
(* each state of its child: whatever is replayed, overtaken or skipped, no     *)
(* cycle is told twice without an evidence gap being recorded, and once all    *)
(* the evidence is in and no gap was recorded, none is missing.  (A move folds *)
(* its endpoints by their count alone, and may skip one without a gap.)        *)
CyclesAreTold ==
    "revised" \in cast /\ "moves" \notin cast /\ sup.published /\ sup.gaps = 0 =>
        LET counted == sup.completed + (IF sup.held THEN 1 ELSE 0)
            ended == child.ends - sup.base
        IN /\ counted <= ended
           /\ CaughtUp /\ sup.limited = 0 => counted = ended

(* Every cycle that ended while supervision was up wakes the manager once with *)
(* its verdict, a completion or the provider's limit in its place, even if the *)
(* run was handed off while the verdict waited for the provider's log.  The    *)
(* only other wakes are limits with no completion to replace (it was released  *)
(* after the bounded reads, or there was none), and a cycle has one limit at   *)
(* most, whatever is read again, retried or folded after it.                   *)
VerdictsReachTheManager ==
    sup.published /\ ~sup.stopped =>
        /\ sup.woken + (IF sup.held /\ sup.deliver THEN 1 ELSE 0) = sup.due + sup.late
        /\ sup.late <= sup.limited
        /\ sup.limited <= sup.cycles + (IF sup.recorded THEN 1 ELSE 0)

(* Within one daemon an acceptance hands the run off in the work cycle that    *)
(* produced it: content the child wrote before it went back to work is stale.  *)
AcceptedInItsCycle ==
    \A h \in handoffs : h.accepted.boot = h.recorded.boot => h.accepted.cycle = h.recorded.cycle

(* The gate's promise in full: an artifact is consumed once, so no acceptance  *)
(* is recorded for a later cycle than its own.                                 *)
ConsumedOnce == \A h \in handoffs : h.accepted.cycle = h.recorded.cycle

(* One repair prompt for each artifact version and a bounded number for the    *)
(* run, over every crash, restart and failed write of the sidecar.             *)
RepairPerVersion ==
    /\ \A v \in Versions : prompts[v] <= 1
    /\ Cardinality({v \in Versions : prompts[v] > 0}) <= MaxRepairs

(* A child that is watched has a job that runs: whatever a cancellation did    *)
(* while the binding was prepared, what is published is never an orphan.       *)
LiveChildHasRunningJob ==
    port[Job] = "active" => rec[Job].phase = "running" /\ rec[Job].gate /\ rec[Job].listed

(* A child that works is always on its way to a review: the cadence is armed,  *)
(* or a review of this very run is under way and will arm it again.            *)
CadenceNeverStarves ==
    sup.published /\ RunLive(sup) => sup.timer \/ (review # NoReview /\ review.run = sup.run)

(* What a child leaves in its trace is reviewed once: no record is in two of   *)
(* the windows that were judged or reported, and in a structured trace every   *)
(* record behind the cursor was in one, or was reported as too long for any.   *)
(* A review that was dropped, refused or failed leaves its window to the next. *)
EvidenceIsReviewedOnce ==
    LET windows == evidence.windows
        cursor == evidence.cursor
        seen == evidence.passed \cup UNION {windows[i] : i \in 1..Len(windows)}
    IN /\ \A i, j \in 1..Len(windows) : i # j => windows[i] \cap windows[j] = {}
       /\ trace.source \in {"pi-jsonl", "devin-session"} /\ Extends(cursor) =>
            IdsOf(SubSeq(trace.records, 1, cursor.offset)) = seen
       /\ trace.source = "devin-store" => NodesOf(ChainTo(cursor.offset)) = seen

(* The tail scan clears a lane only if there is no follow-up: whatever moment  *)
(* the history was captured at and whatever the anchor, a scan that finds      *)
(* nothing means that no prompt in the whole trace is as late as the anchor,   *)
(* although records are up to the slack out of order and only the tail is      *)
(* read.                                                                       *)
TailScanIsSound ==
    \A i \in 1..Len(trace.records), anchor \in 1..MaxTicks :
        IsFollowUp(trace.records[i], anchor) =>
            \A n \in 0..Len(trace.records) : TailScan(anchor, HistoryOf(n)) # "none"

=============================================================================
