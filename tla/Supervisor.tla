------------------------------ MODULE Supervisor ------------------------------
(***************************************************************************)
(* The supervisor of one launched child (src/src/supervision/supervisor.ts) *)
(* with the job it runs as (JobRegistry), the world it watches (ChildWorld) *)
(* and the gate of its managed run (HandoffGate).                           *)
(*                                                                          *)
(* Its memory is the record `sup`; the operators that take a record s and   *)
(* give a record are the synchronous methods of the class.  Evidence is     *)
(* folded one task after another: `todo` is the mutation chain behind the   *)
(* task in hand, and `at` is where that task waits (a snapshot, the         *)
(* own-close tracker, the provider's log, a sidecar write, a prompt).       *)
(* Reviews, the mark of a reopened cycle, a shutdown and the monitor's      *)
(* health run beside the chain.                                             *)
(*                                                                          *)
(* A snapshot the chain waits for is read and applied in one step: what the *)
(* world does between the two cannot be told from its doing it afterwards.  *)
(***************************************************************************)
EXTENDS ChildWorld, HandoffGate, JobRegistry, TraceEvidence

CONSTANTS
    Job,            \* the supervisor's job
    Threshold,      \* failures before a degraded episode is announced
    MaxBoots        \* bound: daemon processes

ASSUME SupervisorAssumption ==
    /\ Sups = {Job} /\ Waits = {}
    /\ Threshold \in Nat \ {0} /\ MaxBoots \in Nat \ {0}

VARIABLES
    sup,            \* the supervisor's memory
    review,         \* the review in flight
    daemon,         \* the daemon process
    evidence        \* what reviews left behind: the cursor, the reviewer's health

supVars == <<sup, review, daemon>>
evidenceVars == <<trace, store, evidence>>

Terminal == {"idle", "done", "blocked"}
Outcomes == {"none", "released", "identity_replaced", "identity_lost", "cancelled", "failed"}
NoEvent == [kind |-> "none"]
Idle == [pc |-> "none", outcome |-> "none", content |-> "none", n |-> 0]
Endpoint == [rev: Nat, status: Statuses, seq: Nat]
EndpointOf(r) == [rev |-> r.rev, status |-> r.status, seq |-> r.seq]

(* The fields of the class, and the bound run as the gate mirrors it.         *)
Reserved ==
    [state |-> "starting", bind |-> "no", published |-> FALSE, queued |-> <<>>,
     pane |-> 0, moved |-> NoEvent, ends |-> <<>>, seq0 |-> 0, gen |-> 0,
     rev |-> 0, seq |-> 0, status |-> "unknown", last |-> [rev |-> 0, status |-> "unknown", seq |-> 0],
     lastTo |-> "none", run |-> 0, timer |-> FALSE, retired |-> FALSE, stopped |-> FALSE,
     paused |-> FALSE, stream |-> FALSE, recon |-> FALSE, fails |-> 0, announced |-> FALSE,
     signal |-> FALSE, attempts |-> 0, retry |-> FALSE, recorded |-> FALSE, held |-> FALSE,
     deliver |-> TRUE, managed |-> FALSE, open |-> FALSE, life |-> "awaiting_handoff",
     accepted |-> "none", marking |-> 0, todo |-> <<>>, at |-> Idle, outcome |-> "none",
     base |-> 0, completed |-> 0, due |-> 0, woken |-> 0, limited |-> 0, late |-> 0, gaps |-> 0,
     cycles |-> 0]

IsSettled(s) == s.state = "settled"
Over(s) == s.stopped \/ IsSettled(s)

(* A cadence that is armed after the stop was armed by a move whose read      *)
(* answered later: followMove does not look whether it was stopped meanwhile. *)
SupTypeOK ==
    /\ sup.state \in {"starting", "active", "settled"}
    /\ sup.bind \in {"no", "reading", "drain", "done", "failed"}
    /\ sup.pane \in 0..MaxPanes
    /\ sup.outcome \in Outcomes
    /\ sup.at.pc \in {"none", "move", "consume", "leave", "signal", "limit", "validate",
                      "accept", "record", "repair", "prompt"}
    /\ \A i \in 1..Len(sup.todo) : sup.todo[i] \in {"completion", "handoff"}
    /\ sup.moved = NoEvent <=> sup.ends = <<>>
    /\ sup.bind = "done" /\ ~sup.published => sup.state # "active"
    /\ sup.timer => sup.published /\ (Over(sup) => sup.stopped /\ sup.gen > 0)
    /\ review.pc \in {"none", "reading", "building", "judging", "storing"}
    /\ evidence.fails \in 0..Threshold
    /\ evidence.announced => evidence.degraded

NoWindow == Failed(NoCursor, "none")
NoReview == [pc |-> "none", run |-> 0, gen |-> 0, window |-> NoWindow]

(* traceCursor, reviewerDegraded, reviewerConsecutiveFailures and             *)
(* reviewerAnnounced; the windows that were consumed and the records that a   *)
(* report stepped over are history.                                           *)
FreshEvidence ==
    [cursor |-> NoCursor, degraded |-> FALSE, fails |-> 0, announced |-> FALSE,
     windows |-> <<>>, passed |-> {}]

-----------------------------------------------------------------------------
(* Transitions. *)

(* recordEvidenceGap *)
Gap(s) == [s EXCEPT !.gaps = @ + 1]

(* compareStateChangeSeq; 0 is a sequence that is not reported. *)
Compare(previous, observed) ==
    IF previous = 0 \/ observed = 0 THEN "missing"
    ELSE IF observed < previous THEN "regressed"
    ELSE IF observed = previous THEN "unchanged"
    ELSE "advanced"
SeqRegressed(s, observed) == Compare(s.seq, observed) = "regressed"
ObserveSeq(s, observed) ==
    IF observed = 0 \/ SeqRegressed(s, observed) THEN s ELSE [s EXCEPT !.seq = observed]

(* scheduleCompletionSignal, scheduleHandoffEvaluation: a task on the chain. *)
ScheduleCompletion(s) ==
    IF Over(s) \/ s.recorded \/ ~s.signal \/ ~s.published \/ s.status \notin Terminal THEN s
    ELSE [s EXCEPT !.todo = Append(@, "completion")]
ScheduleHandoff(s) ==
    IF ~s.managed \/ Over(s) THEN s ELSE [s EXCEPT !.todo = Append(@, "handoff")]

(* Mutant of Wake: the eligibility is judged when the verdict is sent. *)
WakeLate(s) == [s EXCEPT !.woken = IF ~s.retired \/ s.open THEN @ + 1 ELSE @]

(* emit with a verdict: delivered if its own terminal fold said so. *)
Wake(s) == [s EXCEPT !.woken = IF s.deliver THEN @ + 1 ELSE @]

(* flushPendingCycleEvent *)
Flush(s) == IF ~s.held THEN s ELSE Wake([s EXCEPT !.held = FALSE, !.completed = @ + 1])

(* enterStatus: reset or arm the review cadence. *)
EnterStatus(s) ==
    IF ~s.published \/ s.status # "working" THEN [s EXCEPT !.timer = FALSE]
    ELSE [s EXCEPT !.run = @ + 1, !.timer = ~s.retired]

(* A working transition opens a fresh artifact cycle; on a run already handed *)
(* off that is made durable by a write nobody waits for.                      *)
OpenCycle(s) ==
    [s EXCEPT !.recorded = FALSE, !.cycles = @ + 1, !.open = s.managed,
              !.marking = IF s.managed /\ s.life = "handed_off" THEN @ + 1 ELSE @]

(* What the manager is told of a transition: a completion waits for the reads *)
(* of the provider's log where there is a signal.                             *)
TellTransition(s, from) ==
    IF Material(from, s.status) # "work_cycle_completed" \/ (s.signal /\ s.recorded) THEN s
    ELSE LET d == IF from = "working" \/ s.deliver THEN [s EXCEPT !.due = @ + 1] ELSE s IN
         IF s.signal THEN [d EXCEPT !.held = TRUE] ELSE Wake([d EXCEPT !.completed = @ + 1])

(* applyStatus *)
ApplyStatus(s, next) ==
    IF s.status = next THEN ScheduleCompletion(s)
    ELSE IF s.status = "done" /\ next = "idle"
    THEN ScheduleCompletion(EnterStatus([s EXCEPT !.status = next]))
    ELSE LET a == Flush([s EXCEPT !.status = next, !.lastTo = next, !.attempts = 0, !.retry = FALSE])
             b == EnterStatus(IF next = "working" THEN OpenCycle(a) ELSE a)
             c == IF next \in Terminal
                  THEN ScheduleHandoff(ScheduleCompletion([b EXCEPT !.deliver = ~b.retired \/ b.open]))
                  ELSE b
         IN TellTransition(c, s.status)

(* Mutant of JumpGap: a jump is told only when two revisions are missing. *)
JumpGapLate(s, rev) == IF rev > s.rev + 2 THEN Gap(s) ELSE s

(* An event whose revision leaves some out. *)
JumpGap(s, rev) == IF rev > s.rev + 1 THEN Gap(s) ELSE s

(* applyEventRevision *)
ApplyEventRevision(s, e) ==
    IF s.last = EndpointOf(e) THEN s
    ELSE LET a == JumpGap([s EXCEPT !.last = EndpointOf(e)], e.rev)
             order == Compare(s.seq, e.seq)
             b == ObserveSeq(a, e.seq)
         IN CASE order = "regressed" -> Gap(a)
              [] order # "regressed" /\ e.rev = s.rev /\ e.status = s.status -> ScheduleCompletion(b)
              [] order # "regressed" /\ e.rev = s.rev /\ e.status # s.status ->
                     ApplyStatus(IF order = "advanced" THEN b ELSE Gap(b), e.status)
              [] OTHER -> ApplyStatus([b EXCEPT !.rev = e.rev], e.status)

(* applySnapshotRevision *)
ApplySnapshotRevision(s, o) ==
    LET order == Compare(s.seq, o.seq)
        a == [ObserveSeq(s, o.seq) EXCEPT !.last = EndpointOf(o)]
    IN CASE o.rev = s.rev /\ o.status = s.status -> ScheduleCompletion(a)
         [] o.rev = s.rev /\ o.status # s.status ->
                ApplyStatus(IF order = "advanced" THEN a ELSE Gap(a), o.status)
         [] OTHER -> ApplyStatus([Gap(a) EXCEPT !.rev = o.rev], o.status)

-----------------------------------------------------------------------------
(* Health. *)

(* markReconciliationFailure: told only once it is sustained. *)
MarkFailure(s) ==
    [s EXCEPT !.recon = TRUE, !.fails = IF @ < Threshold THEN @ + 1 ELSE @,
              !.announced = @ \/ s.fails + 1 >= Threshold]

MarkSuccess(s) == [s EXCEPT !.recon = FALSE, !.fails = 0, !.announced = FALSE]

-----------------------------------------------------------------------------
(* Settlement. *)

(* settle, last part; a shutdown that came first keeps its own outcome. *)
Settled(s, outcome) ==
    [s EXCEPT !.state = "settled", !.outcome = IF IsSettled(s) THEN @ ELSE outcome,
              !.timer = FALSE, !.retry = FALSE, !.at = Idle]

(* persistHandoffOutcome: what has to be written before the settlement. *)
ToPersist(s, outcome) ==
    LET limited == s.recorded /\ s.life \in {"awaiting_handoff", "handed_off"} IN
    IF outcome = "identity_lost" \/ ~s.managed THEN Settled(s, outcome)
    ELSE IF s.life = "awaiting_handoff"
    THEN [s EXCEPT !.at = [Idle EXCEPT !.pc = "validate", !.outcome = outcome]]
    ELSE IF limited
    THEN [s EXCEPT !.at = [Idle EXCEPT !.pc = "record", !.outcome = outcome]]
    ELSE Settled(s, outcome)

(* settle, first part: the provider's log is read twice before the identity   *)
(* is dropped.                                                                *)
Settle(s, outcome) ==
    IF IsSettled(s) THEN [s EXCEPT !.at = Idle]
    ELSE IF s.signal /\ ~s.recorded
    THEN [s EXCEPT !.at = [Idle EXCEPT !.pc = "leave", !.outcome = outcome, !.n = 1]]
    ELSE ToPersist(Flush(s), outcome)

(* settleWithEvent for a pane that is gone: the own-close tracker is asked. *)
SettleClosed(s) == [s EXCEPT !.at = [Idle EXCEPT !.pc = "consume", !.outcome = "released"]]

-----------------------------------------------------------------------------
(* Moves and authoritative reads. *)

(* applyMoveEndpoints, one retained endpoint: p has the supervisor and the    *)
(* sequence the endpoint before it left.                                      *)
ApplyMoveEndpoint(p, e) ==
    LET order == Compare(p.seq, e.seq)
        a == [p.s EXCEPT !.last = e]
        silent == e.status = p.s.status \/ order = "advanced" \/ (p.seq = 0 /\ e.seq = 0)
    IN [s |-> IF order = "regressed" THEN Gap(a)
              ELSE ApplyStatus(IF silent THEN a ELSE Gap(a), e.status),
        seq |-> IF e.seq # 0 /\ order # "regressed" THEN e.seq ELSE p.seq]

(* applyMoveEndpoints: the retained endpoints, in order, from the sequence    *)
(* the first of them found.                                                   *)
ApplyMoveEndpoints(s, ends, seq0) ==
    LET F[i \in 0..Len(ends)] ==
          IF i = 0 THEN [s |-> s, seq |-> seq0] ELSE ApplyMoveEndpoint(F[i - 1], ends[i])
    IN F[Len(ends)].s

(* adoptMove: rebase onto the destination, then fold what was retained. *)
AdoptMove(s, o) ==
    LET a == [s EXCEPT !.moved = NoEvent, !.ends = <<>>, !.seq0 = 0, !.gen = @ + 1,
                       !.pane = s.moved.pane, !.rev = s.moved.rev]
    IN ApplySnapshotRevision(ApplyMoveEndpoints(a, s.ends, s.seq0), o)

(* mergeMoveOccupant: the destination's occupant must follow every retained   *)
(* endpoint; one without a sequence must repeat the event's tuple.            *)
MergeFails(s, o) ==
    \/ o.rev < s.moved.rev
    \/ \E i, j \in 1..Len(s.ends) :
         s.ends[i].seq # 0 /\ s.ends[i].seq = s.ends[j].seq /\ s.ends[i].status # s.ends[j].status
    \/ \E i \in 1..Len(s.ends) :
         /\ s.ends[i].seq # 0 /\ o.seq # 0
         /\ s.ends[i].seq > o.seq \/ (s.ends[i].seq = o.seq /\ s.ends[i].status # o.status)
    \/ /\ s.moved.seq # 0 /\ o.seq = 0
       /\ o.rev # s.moved.rev \/ o.status # s.moved.status

(* classifySnapshotTarget and occupantContinuity for one pane. *)
Target(snap, pane) ==
    CASE ~snap.valid -> "invalid"
      [] snap.valid /\ (snap.there = "closed" \/ snap.pane # pane) -> "absent"
      [] snap.valid /\ snap.there = "exited" /\ snap.pane = pane -> "agentless"
      [] snap.valid /\ snap.there = "replaced" /\ snap.pane = pane -> "replaced"
      [] OTHER -> "continuous"

Believed(s) == IF s.moved = NoEvent THEN s.pane ELSE s.moved.pane

(* applyAuthoritativeSnapshot *)
ApplyAuthoritative(s, snap, missing) ==
    LET a == [s EXCEPT !.paused = s.managed /\ ~snap.owner]
        target == Target(snap, Believed(s))
        regressed == SeqRegressed(s, snap.seq)
    IN CASE target = "invalid" -> MarkFailure(a)
         [] target = "absent" /\ missing = "identity_lost" -> Settle(MarkSuccess(a), "identity_lost")
         [] target = "absent" /\ missing = "released" -> SettleClosed(MarkSuccess(a))
         [] target = "agentless" -> Settle(MarkSuccess(a), "released")
         [] target = "replaced" -> Settle(MarkSuccess(a), "identity_replaced")
         [] target = "continuous" /\ s.moved # NoEvent ->
                IF MergeFails(s, snap) \/ regressed THEN MarkFailure(a)
                ELSE AdoptMove(MarkSuccess(a), snap)
         [] OTHER ->
                IF snap.rev < s.rev \/ regressed THEN MarkFailure(a)
                ELSE ApplySnapshotRevision(MarkSuccess(a), snap)

(* followMove up to its read: the move is proven, its destination is not. *)
RetainMove(s, e) ==
    LET fresh == s.moved = NoEvent
        a == [s EXCEPT !.ends = Append(IF fresh THEN <<>> ELSE @, EndpointOf(e)),
                       !.seq0 = IF fresh THEN s.seq ELSE @,
                       !.moved = e, !.gen = @ + 1, !.last = EndpointOf(e),
                       !.at = [Idle EXCEPT !.pc = "move"]]
    IN ObserveSeq(a, e.seq)

(* followMove after its read. *)
DestinationRead(s, snap) ==
    LET a == [s EXCEPT !.at = Idle]
        target == Target(snap, s.moved.pane)
    IN CASE target = "invalid" -> MarkFailure(a)
         [] target \in {"absent", "agentless"} -> Settle(a, "identity_lost")
         [] target \in {"replaced", "continuous"} ->
                IF MergeFails(s, snap) THEN MarkFailure(a)
                ELSE IF target = "replaced" THEN Settle(a, "identity_lost")
                ELSE IF SeqRegressed(s, snap.seq) THEN MarkFailure(a)
                ELSE AdoptMove(MarkSuccess(a), snap)

=============================================================================
