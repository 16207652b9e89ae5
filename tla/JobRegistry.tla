------------------------------ MODULE JobRegistry ------------------------------
(***************************************************************************)
(* The session's registry of detached jobs (src/src/job-registry.ts): wait *)
(* jobs, and the supervisor jobs a launch reserves for its child.  A job   *)
(* is registered under the session generation its caller captured earlier, *)
(* started on a later turn, and settled once: by its runner, by a          *)
(* cancellation that waited a bounded time for the runner to drain, or by  *)
(* neither when the session ends under it.  Every body that runs under a   *)
(* job's transition lock is synchronous, so such a body is one step here.  *)
(*                                                                         *)
(* A wait's runner is the module WaitRunner.  A supervisor's runner is     *)
(* kept to what the registry sees of it through its port: whether it is    *)
(* attached, bound to a child, and settled (src/src/supervision/registry.ts). *)
(***************************************************************************)
EXTENDS Naturals, FiniteSets

CONSTANTS
    Waits,          \* wait jobs
    Sups,           \* supervisor jobs
    Managed,        \* the supervisor jobs whose child is a managed handoff run
    Callers,        \* concurrent herdr_jobs cancel calls
    MaxSessions     \* bound: how often the session is replaced or shut down

ASSUME JobsAssumption ==
    /\ Waits \cap Sups = {}
    /\ Managed \subseteq Sups
    /\ MaxSessions \in Nat

Jobs == Waits \cup Sups

WaitResults == {"condition_met", "timed_out", "manager_judgment_required"}
SupResults == {"finished"}
GenericTerminals == {"cancelled", "failed", "unknown"}
Results == WaitResults \cup SupResults \cup GenericTerminals

NoGeneration == MaxSessions + 1

VARIABLES
    session,        \* the registry's generation and whether it accepts jobs
    asked,          \* generation the caller of each job captured before preparing it
    rec,            \* the job records
    runner,         \* what has become of each job's runner (the promise itself)
    answer,         \* what the runner's promise yielded, until the lock applies it
    port,           \* the supervisor behind a supervisor job, as its port shows it
    prep,           \* a child binding prepared and not yet committed
    retired,        \* supervisor jobs whose lane the daemon retired
    call,           \* the cancellation each caller is in
    told,           \* terminal notifications sent to the manager, per job
    posted          \* job_terminal events written to the owner's mailbox, per job

regVars == <<session, asked, rec, runner, answer, port, prep, retired, call, told, posted>>

(* JobDetail and JobRecord; "absent" is an id never registered. *)
Phases == {"absent", "accepted", "running", "cancel_requested", "settled"}
Stages == {"reserved", "provisional", "exact"}

JobRecord ==
    [phase: Phases, gate: BOOLEAN, done: BOOLEAN, acts: Nat, gen: 0..NoGeneration,
     reason: {"none", "cancelled", "shutdown"}, result: Results \cup {"none"},
     late: {"none", "fulfilled", "rejected"}, stage: Stages, listed: BOOLEAN]

Absent ==
    [phase |-> "absent", gate |-> FALSE, done |-> FALSE, acts |-> 0, gen |-> NoGeneration,
     reason |-> "none", result |-> "none", late |-> "none", stage |-> "reserved",
     listed |-> FALSE]

Bindings == {"exact", "provisional", "strengthen"}
NoPrep == [how |-> "none", stage |-> "reserved"]
NoCall == [pc |-> "idle", job |-> "none", drained |-> FALSE]

CallStates ==
    [pc: {"idle", "draining", "settling"}, job: Jobs \cup {"none"}, drained: BOOLEAN]

RegTypeOK ==
    /\ session \in [gen: 0..MaxSessions, accepting: BOOLEAN]
    /\ asked \in [Jobs -> 0..NoGeneration]
    /\ rec \in [Jobs -> JobRecord]
    /\ runner \in [Jobs -> {"none", "queued", "live", "ended"}]
    /\ answer \in [Jobs -> Results \cup {"none", "rejected"}]
    /\ port \in [Sups -> {"none", "starting", "provisional", "active", "settled"}]
    /\ prep \in [Sups -> [how: Bindings \cup {"none"}, stage: Stages]]
    /\ retired \subseteq Sups
    /\ call \in [Callers -> CallStates]
    /\ told \in [Jobs -> Nat]
    /\ posted \in [Jobs -> Nat]

RegInit ==
    /\ session = [gen |-> 0, accepting |-> TRUE]
    /\ asked = [j \in Jobs |-> NoGeneration]
    /\ rec = [j \in Jobs |-> Absent]
    /\ runner = [j \in Jobs |-> "none"]
    /\ answer = [j \in Jobs |-> "none"]
    /\ port = [j \in Sups |-> "none"]
    /\ prep = [j \in Sups |-> NoPrep]
    /\ retired = {}
    /\ call = [c \in Callers |-> NoCall]
    /\ told = [j \in Jobs |-> 0]
    /\ posted = [j \in Jobs |-> 0]

-----------------------------------------------------------------------------
(* Helpers of the class. *)

(* isCurrent *)
IsCurrent(generation) == session.accepting /\ generation = session.gen

(* Mutant of IsDrained: the activity count is forgotten. *)
IsDrainedByRunner(j) == rec[j].done

(* isDrained: the runner is over and no guarded call is in flight. *)
IsDrained(j) == rec[j].done /\ rec[j].acts = 0

(* childLive: the port is bound to a child it watches. *)
ChildLive(j) == j \in Sups /\ port[j] \in {"provisional", "active"}

(* late: only the first late settlement is kept. *)
Late(r, kind) == IF r.late = "none" THEN [r EXCEPT !.late = kind] ELSE r

(* settleOnce: the gate closes before the terminal state is published, and a *)
(* settled record is left as it is.                                          *)
SettleOnce(r, outcome) ==
    IF r.phase = "settled" THEN r
    ELSE [r EXCEPT !.gate = FALSE, !.phase = "settled", !.result = outcome]

(* persistTerminalEvent, reached from every supervisor settlement: only a     *)
(* managed run has an owner mailbox, and a retired lane has its own event.    *)
PersistTerminalEvent(j) ==
    posted' = IF j \in Managed \ retired /\ rec[j].phase # "settled"
              THEN [posted EXCEPT ![j] = @ + 1] ELSE posted

(* Mutant of NotifyTerminal: a cancelled wait that did not drain is told too. *)
NotifyEveryTerminal(j, outcome) ==
    told' = IF rec[j].phase # "settled" /\ outcome # "cancelled"
            THEN [told EXCEPT ![j] = @ + 1] ELSE told

(* settleLocked: a wait tells its manager unless it was being cancelled. *)
NotifyTerminal(j, outcome) ==
    told' = IF /\ rec[j].phase # "settled"
               /\ rec[j].reason = "none"
               /\ outcome # "cancelled"
            THEN [told EXCEPT ![j] = @ + 1] ELSE told

(* settleGenericLocked and the two settlements of execute. *)
SettleLocked(j, outcome) ==
    /\ rec' = [rec EXCEPT ![j] = SettleOnce(@, outcome)]
    /\ IF j \in Sups
       THEN PersistTerminalEvent(j) /\ UNCHANGED told
       ELSE NotifyTerminal(j, outcome) /\ UNCHANGED posted

-----------------------------------------------------------------------------
(* Registration and execution. *)

(* The tool captures the generation, then prepares across awaits. *)
CaptureGeneration(j) ==
    /\ rec[j].phase = "absent"
    /\ asked[j] = NoGeneration
    /\ asked' = [asked EXCEPT ![j] = session.gen]
    /\ UNCHANGED <<session, rec, runner, answer, port, prep, retired, call, told, posted>>

(* SESSION_REPLACED: the tool call ends with nothing registered. *)
RefuseRegistration(j) ==
    /\ asked[j] # NoGeneration
    /\ rec[j].phase = "absent"
    /\ ~IsCurrent(asked[j])
    /\ asked' = [asked EXCEPT ![j] = NoGeneration]
    /\ UNCHANGED <<session, rec, runner, answer, port, prep, retired, call, told, posted>>

(* register: the accepted boundary; the runner is queued for a later turn. *)
Register(j) ==
    /\ asked[j] # NoGeneration
    /\ rec[j].phase = "absent"
    /\ IsCurrent(asked[j])
    /\ rec' = [rec EXCEPT ![j] =
                 [Absent EXCEPT !.phase = "accepted", !.gate = TRUE,
                                !.gen = asked[j], !.listed = TRUE]]
    /\ runner' = [runner EXCEPT ![j] = "queued"]
    /\ UNCHANGED <<session, asked, answer, port, prep, retired, call, told, posted>>

(* execute, first lock body: the runner starts only from an open acceptance. *)
StartRunner(j) ==
    /\ runner[j] = "queued"
    /\ rec[j].phase = "accepted"
    /\ rec[j].gate
    /\ rec' = [rec EXCEPT ![j].phase = "running"]
    /\ runner' = [runner EXCEPT ![j] = "live"]
    /\ UNCHANGED <<session, asked, answer, port, prep, retired, call, told, posted>>

(* execute, not started: the run function is never called. *)
SkipRunner(j) ==
    /\ runner[j] = "queued"
    /\ ~(rec[j].phase = "accepted" /\ rec[j].gate)
    /\ rec' = [rec EXCEPT ![j].done = TRUE]
    /\ runner' = [runner EXCEPT ![j] = "ended"]
    /\ UNCHANGED <<session, asked, answer, port, prep, retired, call, told, posted>>

(* execute: the run promise resolves or rejects; runnerDone is set before the *)
(* lock is asked for, so a draining cancellation can take the lock first.     *)
RunnerEnds(j, outcome) ==
    /\ runner[j] = "live"
    /\ runner' = [runner EXCEPT ![j] = "ended"]
    /\ answer' = [answer EXCEPT ![j] = outcome]
    /\ rec' = [rec EXCEPT ![j].done = TRUE]
    /\ UNCHANGED <<session, asked, port, prep, retired, call, told, posted>>

(* execute, last lock body: a job no longer running keeps only a late mark. *)
SettleRunner(j) ==
    /\ answer[j] # "none"
    /\ answer' = [answer EXCEPT ![j] = "none"]
    /\ IF rec[j].phase # "running"
       THEN /\ rec' = [rec EXCEPT ![j] =
                         Late(@, IF answer[j] = "rejected" THEN "rejected" ELSE "fulfilled")]
            /\ UNCHANGED <<told, posted>>
       ELSE SettleLocked(j, IF answer[j] = "rejected" THEN "failed" ELSE answer[j])
    /\ UNCHANGED <<session, asked, runner, port, prep, retired, call>>

-----------------------------------------------------------------------------
(* The supervisor behind a supervisor job. *)

(* The runner of a reservation: once its reviewer resolved it attaches its    *)
(* port; a registry whose session was replaced no longer knows the job.       *)
AttachSupervision(j) ==
    /\ j \in Sups /\ runner[j] = "live" /\ port[j] = "none" /\ rec[j].listed
    /\ port' = [port EXCEPT ![j] = "starting"]
    /\ UNCHANGED <<session, asked, rec, runner, answer, prep, retired, call, told, posted>>

AttachRefused(j) ==
    /\ j \in Sups /\ runner[j] = "live" /\ port[j] = "none" /\ ~rec[j].listed
    /\ RunnerEnds(j, "rejected")

(* What prepare*SupervisionChildBinding requires of the record; a generic     *)
(* exact binding cannot bypass the strengthening of a provisional one.        *)
Preparable(j, how) ==
    /\ rec[j].listed
    /\ \/ how = "provisional" /\ rec[j].stage = "reserved"
       \/ how = "exact" /\ rec[j].stage = "reserved"
       \/ how = "strengthen" /\ rec[j].stage = "provisional" /\ port[j] = "provisional"

PrepareBinding(j, how) ==
    /\ j \in Sups
    /\ port[j] \in {"starting", "provisional"}
    /\ prep[j] = NoPrep
    /\ Preparable(j, how)
    /\ prep' = [prep EXCEPT ![j] = [how |-> how, stage |-> rec[j].stage]]
    /\ UNCHANGED <<session, asked, rec, runner, answer, port, retired, call, told, posted>>

(* Mutant of Committable: only the stage of the binding is compared. *)
CommittableByStage(j) == rec[j].stage = prep[j].stage

(* commit's refusals: the job stopped running, or its stage moved, since the  *)
(* binding was prepared.                                                      *)
Committable(j) ==
    /\ rec[j].gate
    /\ rec[j].phase = "running"
    /\ rec[j].stage = prep[j].stage

(* commit, install and publish are one synchronous task of the supervisor.    *)
CommitBinding(j) ==
    /\ j \in Sups
    /\ prep[j] # NoPrep
    /\ port[j] # "settled"
    /\ Committable(j)
    /\ LET provisional == prep[j].how = "provisional" IN
         /\ rec' = [rec EXCEPT ![j].stage = IF provisional THEN "provisional" ELSE "exact"]
         /\ port' = [port EXCEPT ![j] = IF provisional THEN "provisional" ELSE "active"]
    /\ prep' = [prep EXCEPT ![j] = NoPrep]
    /\ UNCHANGED <<session, asked, runner, answer, retired, call, told, posted>>

(* rollback: a refused or failed binding leaves what was reserved. *)
RollbackBinding(j) ==
    /\ j \in Sups
    /\ prep[j] # NoPrep
    /\ prep' = [prep EXCEPT ![j] = NoPrep]
    /\ UNCHANGED <<session, asked, rec, runner, answer, port, retired, call, told, posted>>

(* release: a launch that gives up before it binds, or after it bound; a      *)
(* published provisional child refuses it.                                    *)
Release(j) ==
    /\ j \in Sups
    /\ prep[j] = NoPrep
    /\ port[j] \in {"starting", "active"}
    /\ port' = [port EXCEPT ![j] = "settled"]
    /\ UNCHANGED <<session, asked, rec, runner, answer, prep, retired, call, told, posted>>

(* The daemon retires the lane of a watched child (daemon/retire.ts). *)
RetireLane(j) ==
    /\ j \in Managed
    /\ port[j] = "active"
    /\ retired' = retired \cup {j}
    /\ UNCHANGED <<session, asked, rec, runner, answer, port, prep, call, told, posted>>

(* The supervisor settles its child (identity lost or replaced, ...). *)
SupervisorSettles(j) ==
    /\ j \in Sups
    /\ port[j] \in {"provisional", "active"}
    /\ port' = [port EXCEPT ![j] = "settled"]
    /\ UNCHANGED <<session, asked, rec, runner, answer, prep, retired, call, told, posted>>

(* supervisor.run resolves with the settlement; the abort signal of the job   *)
(* is not consulted, so only the settlement ends this runner.                 *)
SupervisorReturns(j) ==
    /\ j \in Sups
    /\ port[j] = "settled"
    /\ \E outcome \in SupResults \cup {"failed", "cancelled"} : RunnerEnds(j, outcome)

-----------------------------------------------------------------------------
(* Cancellation. *)

(* cancel, first lock body.  A live child refuses it; the gate is closed      *)
(* before the request is visible.                                             *)
RequestCancel(c, j) ==
    /\ call[c].pc = "idle"
    /\ rec[j].listed
    /\ rec[j].phase # "settled"
    /\ rec[j].phase = "cancel_requested" \/ ~ChildLive(j)
    /\ rec' = IF rec[j].phase = "cancel_requested" THEN rec
              ELSE [rec EXCEPT ![j] = [rec[j] EXCEPT !.gate = FALSE, !.phase = "cancel_requested",
                                                     !.reason = "cancelled"]]
    /\ call' = [call EXCEPT ![c] = [pc |-> "draining", job |-> j, drained |-> FALSE]]
    /\ UNCHANGED <<session, asked, runner, answer, port, prep, retired, told, posted>>

(* waitForDrain: the drain or the quiescence timer, whichever comes first;    *)
(* what counts is whether the job is drained when the wait resumes.           *)
DrainObserved(c) ==
    /\ call[c].pc = "draining"
    /\ call' = [call EXCEPT ![c] = [call[c] EXCEPT !.pc = "settling",
                                                   !.drained = IsDrained(call[c].job)]]
    /\ UNCHANGED <<session, asked, rec, runner, answer, port, prep, retired, told, posted>>

(* cancel, last lock body. *)
SettleCancel(c) ==
    /\ call[c].pc = "settling"
    /\ SettleLocked(call[c].job, IF call[c].drained THEN "cancelled" ELSE "unknown")
    /\ call' = [call EXCEPT ![c] = NoCall]
    /\ UNCHANGED <<session, asked, runner, answer, port, prep, retired>>

-----------------------------------------------------------------------------
(* Sessions. *)

(* abandonAll: every port is shut down, every open job fenced and forgotten;  *)
(* runnerDone is set although the runner may still be unwinding.              *)
AbandonAll ==
    /\ rec' = [j \in Jobs |->
                 IF ~rec[j].listed THEN rec[j]
                 ELSE IF rec[j].phase = "settled" THEN [rec[j] EXCEPT !.listed = FALSE]
                 ELSE [rec[j] EXCEPT !.listed = FALSE, !.gate = FALSE, !.done = TRUE,
                                     !.phase = "cancel_requested", !.reason = "shutdown"]]
    /\ port' = [j \in Sups |-> IF rec[j].listed /\ port[j] # "none" THEN "settled" ELSE port[j]]

BeginSession ==
    /\ session.gen < MaxSessions
    /\ AbandonAll
    /\ session' = [gen |-> session.gen + 1, accepting |-> TRUE]
    /\ UNCHANGED <<asked, runner, answer, prep, retired, call, told, posted>>

Shutdown ==
    /\ session.gen < MaxSessions
    /\ AbandonAll
    /\ session' = [gen |-> session.gen + 1, accepting |-> FALSE]
    /\ UNCHANGED <<asked, runner, answer, prep, retired, call, told, posted>>

=============================================================================
