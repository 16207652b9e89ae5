# herdr-tools: a TLA+ verification project

herdr-tools launches agents ("children") in Herdr panes on behalf of managers,
supervises them, and keeps what it learned in durable files.  A **daemon**
(`src/src/daemon/`) owns the launches, their runs and the managers' mailboxes; the rest of
the runtime (job registry, supervisors, handoff runs, pane writes) runs in the daemon or
in a host process, and shares files and flocks with it.  Hosts reach the daemon over a socket.

This project models the daemon's durable protocols, the launch pipeline, the supervision
of a child with its reviews, the job registry with the wait tool, everyone who writes to a
pane, and the daemon's own life under its clients.  Paths below are relative to the repository,
which is kept under `src/`.

## 1. Inventory

| component | state it keeps | operations | talks to | what is hard | what makes it correct |
|---|---|---|---|---|---|
| launch intent store (`daemon/intents.ts`) | one record per (manager, idempotency key): state, task digest, children | begin, markEffecting, recordChildren, complete, fail, reconcile, recoverInterrupted | launch handler, ownership, restart | retries, a crash at each await, a write that lands and reports failure | effects of a key at most once; the record accounts for them |
| daemon launch handler (`daemon/handlers/launch.ts`) | `inflight` map, per-request pipeline | peek + admission, begin loop, execute, settle | intent store, mailbox capacity, launch pipeline | two requests past `begin` on one record; admission decided on an unlocked read | one executor per key; admitted before effect; every request answered |
| launch pipeline (`tools/launch.ts`) | launched children, fallback chain, provider-limit recovery | plan, place, persist, start, bind, prompt, settle, relaunch | Herdr CLI, handoff runs, supervisors | failure after each effect; recovery after the settle | effects only behind the boundary, certainty reported truthfully |
| daemon mailbox (`daemon/mailbox.ts`) | unread/ and acked/ files; `daemon.json` loss accounting and held gaps | writeRunEvent, writeGapEvent, retryPendingGaps, ack, moveUnread | ownership, supervisors, heartbeat | racing writers at a cap; failed writes; gaps held across restarts | no accepted event lost, no loss uncounted, no overshoot |
| run ownership (`daemon/ownership.ts`) | `transfers/` journal, `claims/`, owner entries in the run's provenance | transfer, claim, completePending, reconcile | mailbox, provenance, intents | crash between any two steps; replay; stale plans; lock order | a transfer happens once and whole; events follow the owner |
| restart reattach (`daemon/reattach.ts`) | none of its own | completePending, match runs against a snapshot, reconcile intents, write gaps | all of the above | half-done state of every protocol | nothing is answered from a dead process's effect |
| daemon main, server, instance (`daemon/main.ts`, `server.ts`, `instance.ts`) | socket, instance lock, heartbeat | start, heartbeat, shutdown | everything | order of start and stop; overlapping heartbeats | one daemon; ready only after the sweep |
| lane retirement (`daemon/retire.ts`) | grace clocks and screen digests per lane | sweep, proofs, close under lock | pane write lock, supervisors | proofs stale when used | never closes a lane with work or an unread result |
| idle hints (`daemon/hints.ts`) | in-flight and last-sent per manager | hint | mailbox, pane write lock | coalescing loses the last event | at most one hint at a time; none lost in a lane that is being retired |
| pane write lock, fence, queue flush (`pane-write-lock.ts`, `messages/devin-queue-flush.ts`) | flock per pane, spent-frame fence | acquire, lease check, record, release, flush | every pane writer | crash between record and key press; holder killed | a frame is pressed at most once; one writer per pane |
| handoff runs and gate (`handoff.ts`, `handoff-gate.ts`) | run sidecar: state, artifact version, repair fence | persist, bind, validate, beginRepair, settle | launch, supervisor, reattach | awaits between capture and cycle close | one repair per version, eight in all |
| supervisor, state, registry (`supervision/*`) | supervised runs, evidence, review state | reserve, bind, observe, review, settle | monitor, mailbox, gate | review that outlives its child; reconnects | exactly one completion; no verdict of an old cycle |
| session event monitor (`supervision/monitor.ts`) | connection generation | connect, bootstrap, event, reconnect | supervisor | missed and repeated events | every missed transition revealed once |
| job registry, wait (`job-registry.ts`, `tools/wait.ts`) | jobs, phases, queues, sessions | accept, run, cancel, drain, settle | every long tool call | cancel racing result racing session change | settled once, one terminal event |
| turn control, prompt delivery (`tools/turn-control.ts`, `messages/prompt.ts`) | none durable | identity proof, dispatch, confirm | pane write lock | the pane changed hands between proof and dispatch | a prompt reaches the proven agent or nobody |
| routing policy, availability (`routing-policy.ts`, `router.ts`, `availability.ts`) | cooldowns, quota cache | route, degrade, fall back | launch pipeline | quotas at their limits | never routes to an excluded model |
| trace readers, evidence, review (`supervision/trace-*.ts`, `devin-*.ts`, `evidence.ts`, `reviewer.ts`, `review-log.ts`) | cursor and anchor per child, review health | read a window, build the evidence, judge, append; scan a tail | the child's own log or store, supervisor, lane retirement | a source that grows, is rewritten or has records too long for a window; a review that outlives its window | what is judged is judged once, nothing is skipped unseen; a tail scan never misses a follow-up |
| daemon client, MCP host (`daemon/client.ts`, `mcp/*.ts`, `tool-surface.ts`) | one connection per call | claim, handshake, request, reply, timeout, abort | daemon server | a reply that comes too late; a caller whose pane changed hands | every call ends; its outcome never denies an effect |

Everything else (profiles, schemas, prompt texts, terminal UI) is I/O, parsing or formatting;
`PROJECT.json` lists each part with its status and the reason for what is left out, and under
"hazards" what is hard to test in this code, each at its line, with the properties that cover it.

## 2. What is modelled

An action is one flock section or one stretch of code between two awaits.  Modules of one system
are layered with EXTENDS, and the top one has `Next`:

| system | modules, lowest first | run |
|---|---|---|
| intent ledger | `LaunchIntents`, with the abstract `LaunchContract`; proofs in `LaunchIntentsProofs` | `launch_intents`, `launch_answered`, `refused_relaunch` |
| ownership | `Mailbox`, `Ownership`; proofs in `OwnershipProofs`, `EventProofs` | `ownership`, `ownership_turnover`, `lost_gap` |
| waits | `JobRegistry`, `WaitRunner`; proofs in `WaitRunnerProofs` | `wait_jobs` |
| one pane | `PaneWorld`; `QueueFlush`, `LaneRetire`, `TurnControl`, `IdleHints`; `Panes`; proofs in `PanesProofs` | `panes` |
| supervision | `ChildWorld`, `HandoffGate`, `JobRegistry`, `DevinStore`, `TraceEvidence`; `Supervisor`, `Supervision`; proofs in `SupervisionProofs` | `supervision`, `stale_after_restart` |
| launches | `HerdrHost`, `Routing`, `Cooldowns`; `LaunchRequest`, `LaunchStart`, `LaunchPrompt`, `LaunchPipeline`; proofs in `LaunchPipelineProofs` | `launch_pipeline` |
| daemon and clients | `DaemonService`, `DaemonLink`; proofs in `DaemonLinkProofs` | `daemon_link` |

**Casts.**  The larger systems meet many disturbances (crashes, lost events, moves, faulty
writes...), and letting all happen in one behaviour is out of reach.  `Init` therefore
chooses a *cast* (in `DaemonLink` an *allowance*), the set of actors and disturbances this
behaviour has, which never changes; the actions of a disturbance are guarded by it.  A run
checks every cast its configuration lists, so what it leaves out is explicit: disturbances that
no cast combines.

### LaunchIntents - the launch-intent ledger

`LaunchIntents.tla` models `intents.ts` with the launch handler, the effect boundary
of the launch pipeline, `reconcile`, and the restart sweep.

* A *binding* is a (managerSessionKey, idempotencyKey) pair and stands for its record;
  a *task* is the (taskDigest, projectRoot) pair `begin` compares.  `state`, `task`,
  `child`, `disp`, `resolution`, `reconciled` are the fields of the record; `inflight` is
  `runtime.inflight`; `runs` and `agent` are the handoff runs and Herdr agents.
* Each request walks through the handler: `Arrive`, `Peek` (the unlocked read and
  the admission), `BeginNew`/`BeginExisting` (one flock section of `begin`), `Enter`,
  `AwaitPrior` and `Wake` (the `for(;;)` loop on the inflight map), `PipelineThrows`,
  `MarkEffecting` (the `beforeFirstEffect` hook), `EndsBeforeRun`, `Persist`,
  `RecordChildren` (the intent allocator), `StartAgent`, `BindAndPrompt`,
  `PipelineEnds`, `Settle`, `Finish`.  `RelaunchPersist` and `RelaunchRecord` are the
  provider-limit recovery, which starts when the pipeline has ended and races the settle.
* `ReconcileRead`/`ReconcileWrite` separate the snapshot a reconcile classifies on from
  the write it makes; `AgentExits` may come between.
* `Crash` kills every request.  `StartDaemon`, `RecoverInterrupted`, `RecoveryDone`,
  `SweepIntent`/`SweepSkips`, `Serve` are the start order of `main.ts`: the socket is
  bound last.
* A store write is "ok", "lost" (threw, nothing landed) or "unsynced" (landed, then
  the directory fsync threw).  The caller sees the last two alike.

A step is one flock section or one stretch of code between awaits.  Left out: the text of tasks,
time stamps, ids other than by identity, and the pipeline's placement and fallbacks (one
nondeterministic throw here; `LaunchPipeline` has them).

### Mailbox and Ownership - events and who receives them

`Mailbox.tla` has the mailboxes' state and operations: `BeginWrite` (run flock, owner
resolved under it), `AdmitWrite` (index flock and scan), `LandWrite`, `WriteTimesOut`, `Ack` with the
retention, `WriteGap`, and the heartbeat's retry (`BeginRetry`, `RetryOnDisk`,
`RetryWrite`, `ClearGap`, `EndRetry`).  `Ownership.tla` composes it with the transfers:

* a request (`AskChange`) or a start (`AskPending`) first replays the journal
  (`ReplayNext`, `ReplayDone`), then takes the run flocks in order (`LockRun`),
  verifies (`Verify`, `VerifyRefuses`), takes the index and mailbox flocks
  (`LockMailboxes`), freezes the plan (`Freeze`), and runs `finish`: `ConsumeClaim`,
  `WriteOwners` per run, `MoveFile` per file, `MovesDone`, `Checkpoint`, `NoticeFrom`,
  `NoticeTo`, `MarkDone`.  A replay runs the same steps from the start.
* every step of `finish` is a separate action, so a crash, a failed write, a writer or
  an ack falls between any two of them.  `Abort` is the `finally` of the lock sections
  with the caller's reaction: a request throws, a start goes on after
  TRANSFER_PENDING and fails after anything else.
* event identifiers are naturals in minting order (the code's names sort by time);
  `subject` is the run an event is about.  The index flock stands for index and mailbox
  flocks, because every section takes the index flock first.
* `Instruct` is external: the owner of the machine writes `claims/<id>.json`.

Left out: the byte cap (same comparison as the file cap), `checkLaunchCapacity`'s
answer (nondeterministic admission in LaunchIntents), a failed write of the capacity
flag alone, and overlapping heartbeats (`main.ts:385-397` does not guard against one
retry outlasting the interval; the second would count its own success as a collision).
A pending transfer blocks every ownership operation of every manager until its notices
fit: the model has this, and no property forbids it, because the code says so.

### LaunchContract - what an idempotency key promises

The abstract specification a caller relies on: a key is bound to one task, one request carrying
that task produces its effects, no run appears once the outcome is on record, and outcomes are final
and honest (`failed` means nothing was made).  `LaunchIntents` implements it (`ImplementsContract`, by
`INSTANCE LaunchContract WITH` a mapping of records to outcomes).  The provider-limit relaunch is
outside of it, as finding 1 explains.

### JobRegistry and WaitRunner - detached jobs

`JobRegistry` has the register, start, settle and cancel of a job under its transition lock, the bounded
drain of a cancelled runner, the session generations and their end.  `WaitRunner` is the runner of a
wait: pinned occupants, concurrent reads, deadlines, abandoned reads of a pass that ended early, the
gate of managed targets, the reviewer's request.  Occupants are not reused, so the later of two
reads of one target decides and they are one step.

### Panes - everyone who writes to a lane

`PaneWorld` is the terminal, the agent's composer and its trace (external), the sidecar, the flock
with its holder process, and the fence of spent frames.  `QueueFlush` writes prompts and completes queued
ones with an Enter; `LaneRetire` is the sweep, the proof chain before and under the locks, the close and its
readback, the own-close ledger and the ordered shutdown; `TurnControl` sends Escape or
Ctrl-C without the lock; `IdleHints` prompts an owner.  A pending own-close entry cannot expire during a close,
since CLI calls end after 10 s.  Not modelled: output revisions of a pane and reuse of a pane id by another pane.
A hint reads its owner before it has the lock and does not prove it again under it; no abort signal is wired into
the sink, so a hint in flight outlives the shutdown.  Both are in the model, and `RetiredLosesNoPrompt` holds with them.

### Supervision - one child and its supervisor

`ChildWorld` is the child, the event stream (dropped, replayed, overtaken events) and the monitor with
its snapshots; `HandoffGate` the run's sidecar, whose writes may be lost or land unsynced; `Supervisor` the
class's memory and synchronous methods; `Supervision` the steps: dispatch, the mutation chain, provider log,
handoff evaluation with repair, binding, review, owner change, stop, crash, reattach.  A snapshot read on the chain is
taken and applied in one step; the dispatcher's next unit runs when the chain is empty.  "prompt"
in a cast means that each event is delivered before the child's next change; the casts without it have
any delay.  Registration and sessions are in `wait_jobs`; the binding casts start from an attached reservation, and
a reattach binds in one step.

A cycle's verdict is its completion or the provider's limit.  `due` counts the completions that fall due, `woken` what was sent,
`limited` the limits, and `late` those sent with no completion to replace: the bounded reads release a held
completion at the third attempt, and a later reconciliation may still find a limit; a blocked child, or one bound when its turn
was over, had none.  `VerdictsReachTheManager` says that what was sent or is held is what was due and what was late, and that a
cycle has one limit at most.

The review: `TraceEvidence` and `DevinStore` are the sources - a Pi log, a Devin transcript, Devin's session store and the
terminal - with windows, cursors and anchors, and the tail scan of `trace-tail.ts`.  Bytes are abstracted to
records that fit a window, are too long for any, or are malformed; an anchor (a hash of what lies before a cursor) is the
identity of the last record before it.  The delta cap of a terminal equals its window cap and so
never bites.  Time stamps may be out of order by less than the scan's slack (600 s in the code, where the comment
reports 345 s observed).  `ScanJsonl` stands for Claude and Pi.  A Devin cursor keeps the backend it began with;
file checks and SQLite failures are one "unreadable".  What the model answers is nondeterministic.

### LaunchPipeline - from the request to the consumed prompt

`LaunchRequest` (admission, routing over `Routing` and `Cooldowns`, the intent boundary, run and reservation),
`LaunchStart` (placement in a tab, the fallback chain), `LaunchPrompt` (readiness, binding - provisional for AGY - prompt
and its confirmation) and `LaunchPipeline` (settle, failure reports, reconciliation, recovery by hand or automatic).
`HerdrHost` is external: requests for one pane are served one at a time, and one that timed out may land
later.  Pi behaves like Claude without a limit reader; moves of panes and a recovery of the second launch are left
out.

### DaemonService and DaemonLink - the daemon under its clients

`DaemonService` has the instance lock held by a child process, the sweep, the probe and unlink of the
socket, the listener, and the ordered stop; `DaemonLink` the life of one tool call on both sides of the
socket.  The sweep is one step (its details are in `LaunchIntents` and `Ownership`), a dead holder is noticed at the next check,
replies have the documented shape, and systemd's start limit is left out.  Calls do not interact, so one is enough.

## 3. Runs

| run | instance | what it shows |
|---|---|---|
| `launch_intents` | 1 binding, 2 tasks, 3 requests, 1 crash, 1 faulty write; symmetric in requests and tasks | `AtMostOnce`, `VerdictsAreAccounted` (what a settled or reconciled record says of its runs is so), `EffectingIsThisProcess`, `ImplementsContract` |
| `launch_answered` | 1 binding, 2 tasks, 2 requests, 1 crash, 1 faulty write, with fairness | `RequestsAreAnswered`: the wait-and-begin-again loop ends |
| `refused_relaunch` | 2 requests, no faults | finding 1 |
| `ownership` | 2 managers, 2 runs, 2 writers, caps 2 and 2, 1 transfer, 2 run events or gaps, 1 crash, 1 failed write | `EventsSurvive`, `EventsAreAccountedFor` (no event is left with a former owner, losses are counted, identifiers are unique, a handled event is not counted lost, a batch is whole), `WritesRespectCapacity` |
| `ownership_turnover` | 1 run, 1 writer, caps 1 and 2, 3 transfers or claims, 1 instruction, 1 crash, with fairness | `ClaimAuthorizesOnce`, `OwnersOnlyGrow`, `OperationsEnd` |
| `lost_gap` | full mailbox, 2 crashes | finding 2 |
| `wait_jobs` | 1 wait of 2 targets, one managed, 1 session change | `MetIsWitnessed`, `CancelledIsQuiet`, `EndingIsToldOnce` |
| `panes` | 9 casts of up to 2 prompts, 2 hosts, a hint, sweep, controller, raw client, newcomer, 1 fault | `OneEnterPerFrame`, `RetiredLosesNoPrompt`, `LaneEndsOnce`, `SweepActsInTime` |
| `supervision` | 21 casts, 3 turns, 2 panes, 2 contents, 2 boots | `CyclesAreTold`, `VerdictsReachTheManager`, `AcceptedInItsCycle`, `RepairPerVersion`, `LiveChildHasRunningJob`, `CadenceNeverStarves`, `EvidenceIsReviewedOnce`, `TailScanIsSound` |
| `stale_after_restart` | the cast with artifact writes and crashes | finding 3 |
| `launch_pipeline` | 13 casts, 2 launches, 4 points on 2 tiers, up to 3 troubles | `LaunchedIsWhole`, `FailureIsReportedTruly`, `RecoveryFollowsTheEnd` |
| `daemon_link` | 6 allowances, 2 daemons, 1 call, 2 sessions, with fairness | `ServedAlone`, `OutcomeIsTrue`, `CallsEnd`, `ServiceReturns` |

*Bounds.*  Bindings share nothing but the flock, so one is enough.  Three requests
give an executor, a waiter that begins again, and a third that arrives while the
second executes or reconciles.  One crash reaches every cut; a second would repeat recovery on the same
records (the proofs cover any number).  In `ownership` the caps are below the number of
events, so writes are refused, notices fall to TRANSFER_PENDING and are retried after an ack;
two runs make a batch that can be half written.  `ownership_turnover` lets the run go away and
come back, the case a stale plan would destroy.  `MaxLosses` bounds the requests that are
made after losses, since each retry of a refused notice adds to `unpersisted`.  `MaxEvents` bounds run events and
gaps; the two notices of a transfer do not use it up, so that a run event can still follow a transfer that was interrupted.

In `panes`, `MaxSpent` 2 (32 in the code) makes the fence full with two prompts; `MaxSeq` 3 gives a turn, its
end and a turn again, which is what re-opens a lane after its acceptance; `Grace` and `MaxFocusDefers` of
one sweep let the clock start, be reset and run out.  That an Enter is not repeated across hosts, full fences and crashes
rests more on the theorem `EntersAreNotRepeated`, which has no bound, than on these casts.  In `supervision` three turns are one cycle more than a stale verdict
needs; `MaxRepairs` 2 (8 in the code) is met with the two artifact versions there are; `Threshold` 2 and
one glitch reach both sides of the degradation; a `Window` of 2 of at most 3 records is left behind by the third; `Slack`
2 of 3 ticks lets records be out of order on both sides of the anchor.  In `launch_pipeline` `TabMaxPanes` 2 (4
in the code) fills a tab; `MaxTrouble` 3 is a failure, a failing clean-up and one event more (fewer for casts with
two launches or recovery).  In `daemon_link` three starts are a daemon, its successor and the restart of the first.

*Parts that hold under a hypothesis.*  `VerdictsAreAccounted` is checked and proved for one faulty write; with two
(the record of a child fails and so does the settle) a request that comes later finds no child on the
record and settles it `failed`, although the child exists.  In `EventsAreAccountedFor`, that a handled event is not counted lost is stated for
executions without a failed write: when
the checkpoint itself cannot be written, a file the successor already handled is
counted as lost on the replay.  That no event is left with a former owner excepts, after a failed write, the events
written after the freeze of the interrupted transfer (see section 4).  `OneEnterPerFrame` and `RetiredLosesNoPrompt` except a lock holder that
dies after its writer's last lease check (`lapsed`), which no check before the key can exclude, and one that dies
under a flush that may still re-arm the fence (see section 4);
`RetiredLosesNoPrompt` speaks of prompts written under the lock, since the user and raw clients take none.

*Fairness.*  `launch_answered`: every await in the handler is bounded (flock waits, CLI and
routing time-outs), so the event loop continues each accepted request, and
the service manager restarts a failed daemon.  `ownership_turnover`: weak fairness of the operation and of
each writer, whose sections are bounded; **none** on the flock time-outs, so that
`OperationsEnd` shows that the flock order itself is free of deadlock.  `daemon_link`: the unit
restarts a failed daemon, a daemon's own steps and its holder's exit are bounded, and the client's steps up to the
handshake and its two timers run; **none** on the handler, so that `CallsEnd` rests on the timers alone.

*Deadlock* checking is off where requests, events, turns or transfers are finite in number and the
system may stop when they are used up; `wait_jobs`, whose end is a stutter of its own, has it on.

## 4. Findings

1. `refused_relaunch`: a provider-limit relaunch after the settle persists its run and is then
   refused by `recordChildren` with INTENT_STATE_CONFLICT (`daemon/handlers/launch.ts:132`).
   `tools/launch.ts:3106` says the caller's intent boundary does not apply to it.
2. `lost_gap`: a second restart while the mailbox is still full overwrites the held gap
   of the first (`daemon/mailbox.ts:684`). `daemon/mailbox.ts:36-38` and `:938` say the
   disclosure is cleared only once written and never destroyed.
3. `stale_after_restart`: `bind` derives whether a cycle is open from the sidecar having no accepted
   content (`handoff-gate.ts:300`), so a reattach forgets a cycle that was open when the daemon
   died, and content accepted before, but not handed off, is accepted again for the later cycle.

Also seen while modelling, and not checked by a run of its own:

* Ledger: a faulty settle write leaves a record `effecting` after the inflight entry is gone
  (`daemon/handlers/launch.ts:218`; `daemon/intents.ts:22-24` calls such a record a live effect).
  `resolveRecoveryOf` takes `recovery_pending` and `handed_off` for terminal, and nothing consumes a recovery.
* Mailbox: after a transfer has moved a landed gap, its retry looks only in the old mailbox and writes it again
  (`daemon/mailbox.ts:921`).  Overlapping heartbeats (`daemon/main.ts:385`) are not guarded.
* Ownership: a transfer that a failed write interrupts while the daemon serves releases the run flocks with the plan journaled
  and the owner not yet changed.  A run event written then lands with the former owner, and the replay moves only the files
  the plan lists (`daemon/ownership.ts`), so it stays there.  `docs/specs/durable-supervisor.md:59` says that "a write that
  lands before the freeze is moved with it, a writer blocked mid-transfer lands in the successor's mailbox".
* Daemon: the shutdown releases the lock while handlers in flight keep the process alive, so a daemon started meanwhile
  sweeps their `effecting` intents.  Sweep and reattach run before the socket probe, and a
  start that loses its lock after the probe unlinks a live daemon's socket.  A malformed session on
  any pane refuses every caller (`context.ts:261-285`).
* Queue flush: `fence.rearm` (`messages/devin-queue-flush.ts:360`) is the one act of a key section that no lease check
  precedes, so a flush whose lock holder died may clear the fence after another host has pressed the frame.
* Client: an abort during connect or handshake is ignored, although `tool-surface.ts` says that an aborted call closes
  its socket; a malformed launch reply carries no effect certainty.
* Supervision: an unsynced validate write makes the next look stale; a `markCycle` that is not awaited may land
  after `recordOutcome`; `gate.shutdown` may write `recovery_pending` over `handed_off`; an uncounted status change
  and a folded move can hide a cycle; a child that finished while the daemon was down is not evaluated before its
  next transition; a move whose read answers after the stop is adopted and arms the review timer again, which then finds
  the supervisor stopped (`followMove` does not look again after its read, `supervision/supervisor.ts:1356-1424`); a snapshot read before a move
  was folded shows the pane absent and closes a child that lives (`supervision/supervisor.ts:1578-1600`).
* Supervision, a limited cycle told twice: a limit found after the completion was released (`supervision/supervisor.ts:1006-1007`,
  then a later reconciliation) wakes the manager a second time for the same cycle (`:965-972`); the comment at `:437-440`
  calls such a cycle "a `provider_limit`, not a completion", the one at `:997-999` expects the late answer.  Until the child works
  again every later terminal flap counts as the limited cycle's and sends nothing (`:1833-1835`).
* Gate: `validate` sets `cycleOpen = false` after its awaits (`handoff-gate.ts:371`), so a cycle that is opened meanwhile is closed with
  it, and the old content is current for it.  On the supervisor's chain the two exclude each other.  `tools/wait.ts:441` and
  `tools/inspect.ts:406` validate off the chain; at this commit only tests register these tools with the daemon's gate.
  `AcceptedInItsCycle` speaks of the chain's validation alone.
* Review: a rewritten or malformed trace leaves the cursor in place, so reviews stay unavailable for the rest of the run; an
  oversized row of Devin's store fails the read after earlier steps were collected, and these are not reviewed either; an
  unterminated oversized Pi record is reported at every cadence, where the comment says once.
* Pipeline: `reconcileLaunch` attributes the first new pane; a moved pane changes its id, so it may be taken for closed;
  the tab is chosen on a stale snapshot; an aborted start is logged as a failure of the point; the prompt goes to whatever
  agent the pane holds; a stale event queued while an AGY binding is strengthened rejects it.
* Wait: `match: all` is decided over the targets that could be read (`tools/wait.ts:848,909`), so it may be met while another
  target is in error; `SPEC.md:222` says that every target matches.

## 5. Proofs

TLAPS checks the theorems of eight modules for every value of the constants that satisfies the named
assumptions: `None` is not a task, request, manager, writer or incident; the bounds are naturals; runs are
naturals, so that flocks have an order; prompts, hosts and the other writers of a pane are different from each
other; a wait has finitely many targets; the tier chains are sequences of points, launches are
numbered from 1, and where launch 2 is the automatic relaunch it is no request as well; no artifact content is one
of the words for an absent or an invalid one; the supervised job is the registry's only one.  Crashes, faults, requests and casts are not bounded, unless a theorem says so.

**LaunchIntentsProofs.**  `AtMostOnce` is not inductive: that a request may cross the boundary once says
nothing of a second request that has already passed `begin`.  `LedgerInv` adds what makes it so:

* `FlightIsTheExecutor` - the inflight entry of a binding is its one executor;
* `BegunIsBound` - a request past `begin` is admitted, on a record of its own task;
* `PeekStaysRight` - a peek that found nothing to launch stays right until `begin`, because records
  only move onward (`LifecycleMovesOnward`, proved first and used here);
* `CrossingIsRecorded` - once crossed, a record is never `absent` or `recorded` again, so
  `markEffecting`, which expects `recorded`, refuses everyone else.

From it follow `EffectsAtMostOnce`, `EffectsOfTheBoundTask`, `ExecutorsAreSerialized`,
`EffectsAreAdmitted` and `RestartClearsEffecting`; `TypeCorrect` and `LifecycleOnward` stand by themselves.
The runs check `AtMostOnce` and `EffectingIsThisProcess`; one executor, the bound task, admission and the onward
lifecycle are covered there by `ImplementsContract` and stand as theorems of their own.

**OwnershipProofs.**  `OwnershipInv` has the mailboxes (`BoxInv`) and the book (`BookInv`), and the book is
split along the crash: `DurableInv` is what a crash leaves, `OperationInv` is what the
operation in progress relies on and loses with the process.

* `DurableInv`: at most one pending plan; its frozen owner entries are the current provenance or the
  provenance and one entry more (`Follows`); no finished claim used its instruction (`Spends`); every
  finished claim's instruction is used.
* `OperationInv`: a request decides on an empty journal, under an instruction that is still open;
  a step of `finish` has the pending plan in hand; after the first step its instruction is used.

`Follows` is the heart of `HistoriesOnlyGrow`: `finish` *replaces* the provenance by frozen
entries, which is safe only because no other transfer was journaled since the freeze.  From the same
invariant follow `AcceptedEventsSurvive`, `TransfersAreSerialized` and `InstructionsAreSpentOnce`.

**EventProofs** extends `OwnershipInv` to the events, for any managers, runs, writers, caps, crashes and failed writes, in layers of
which each uses the ones before:

* `PlanInv` - the bounded types; transfers are numbered in their order; the plan in hand is the journaled one, up to the
  mark the checkpoint is about to write.  With `OwnershipInv` it gives `OwnershipTypes`.
* `OwnersInv` - a history has the entries of finished transfers and at most the pending one's after them, so each finished
  transfer changed each of its runs once.
* `FlockInv` - a writer holds its run's flock from the moment it resolves the owner, so its mailbox is the owner's when it
  lands; an operation holds the flocks of all its runs, and the index from the freeze on.
* `RoomInv` - the room an admitted writer found is there until it lands: everything that adds a file holds the index.
  `CapacityHolds` follows; moves may exceed the caps, but bring no event that was in no mailbox.
* `IdInv` - no identifier in hand, of a writer, a held gap or a notice, is on another's disk; what is in two mailboxes is a gap.
* `PlaceInv` - where an event is: with its run's owner, on the list of the pending plan, carried along, or written after
  the freeze of an interrupted transfer.  A writer past the freeze that still has the former owner's key exists only
  after a failed write (`Late`), which is how the case of section 4 was found.
* `LossInv` - without a failed write the files of a plan lie in one of its two mailboxes until the checkpoint, so a move
  misses none; and the refused events are counted.

`EventsAccounted` is the conjunction of what the layers say of events.

**LaunchIntentsProofs, the contract.**  The contract's outcomes are honest only if the record knows the children, so `AccountInv` adds to
`LedgerInv` what connects them: runs are made by requests that crossed (`RunsAreOfCrossings`); a recorded child is such a
run (`ChildrenAreRuns`); a good disposition is of an agent that was seen (`DispositionsAreSeen`); and a child is missing on
its record only after a faulty write, and is still missing after the settle only after a second one (`FaultsOfUnrecorded`).
The last is why `VerdictsAccount` and `LedgerImplementsContract` have the hypothesis `faults <= 1`, which is
necessary; `ReconciledAreAccounted` has none.  The refinement maps each action to one contract step or a stutter.

**DaemonLinkProofs.**  `DaemonServesAlone` needs the converse of what it says: the socket's name leads to nobody but a daemon that
listens, or a crash or an unlink could take it from another (`ServiceInv`).  `OutcomesAreTrue` follows from `LinkInv`, which ties
the three ends of a call - the client's progress, the connection, the handler - to each other: a request the client has not sent
is on no connection and in no handler, and one it dropped can start nothing unless its outcome is `unknown`.

**PanesProofs.**  Four invariants, each used by the next.  `LaneInv` relates sweep, own-close ledger, supervisor and marker
(an unfinished close is in the ledger exactly while it is dispatched, and is claimed exactly while the supervisor waits for it).
`TypeInv` adds that a flush that may press has a press left and a lane that is watched an attempt.  `LockInv` says who holds the
pane's lock, and that what was written is in the agent's trace or its composer; a proved sweep therefore covers it.
`FrameInv` says that a frame that got an Enter and could be met again is spent in the fence, and what a key section has learnt
stays so while it holds the lock.  The attempt to prove the last showed that the fence's re-arm has no
lease check before it; `lapsed` had not covered that.

**WaitRunnerProofs.**  `WaitInv` relates the record of a job, its runner and its answer (`JobInv`; the registry sets `done` for
a job it abandons at a session's end, while the runner still unwinds), the reads of a pass (`StageInv`), and a cancellation
that saw the job drained, which stays right until it settles it (`DrainInv`).  For
`MetConditionsWereMet` occupants only move on, so a read that matched the pinned occupant before the deadline stays a witness.

**LaunchPipelineProofs.**  For any catalog, number of launches, bounds and casts.  `IInv` has the types, the host (`HostInv`: a
living agent has an open pane to itself, and what the server still holds is for an open pane) and, for each launch, layers that
each use the ones before:

* `OwnInv` - what a launch made: nothing before its first request was dispatched; then at most one pane, whose reference it
  has or which came from an answer it lost; its agents and held requests are in that pane and no other.
* `ChildInv` - once an agent answered the start no second start is held or can come, and the identified child is the only
  agent of the launch alive, on the point the run names.
* `PromptInv` - the prompt goes out only under supervision, and after an acknowledgement that matched, the child alone
  has heard it, once.
* `ReportInv` - certainty `absent` is given only when the launch's own pane is gone, or was never there, and nothing is held.
* `RunInv`, `RouteInv`, `RecoveryInv` - a run ends failed or cancelled only when its child is dead; what recovers it has that
  run's last point as its prior and keeps off its provider, in the route, the chain and the agents; the automatic recovery
  reaches `mark` only with the pane closed, and launch 2 waits for it.

The steps are of two sorts.  Most leave the host alone (`Soft`): for each action it is shown which fields it writes
and what of the invariant they touch, and one lemma per layer does the rest.  Placement, start, prompt, and what the host and others
do by themselves are shown one by one; for the launches at their side it is enough that nothing new is theirs (`Spares`)
and that what they were identified with lasts (`Stable`).  `Typed` says that a step writes typed fields.  The proof led to a
correction of the model: several `CASE` expressions had overlapping arms, which TLC takes in order and the logic does not.

**SupervisionProofs.**  For any casts, contents, statuses and bounds.  The supervisor's methods are operators on its memory,
so what they do is shown in lemmas on two memories `s` and `t`, each layer from the one below:

* `Folded(s, t)` - a synchronous method (`ApplyStatus`, `EnterStatus`, `Wake`, `Flush`, `ApplyMoveEndpoints`...) gives a memory again,
  leaves what it has no business with, sends or holds each verdict that falls due, keeps the latch of a limit, opens a cycle where there is a run, and
  does not disarm the cadence of a run that lives on.  The endpoints of a move are folded one by one, as many as there are.
* `Handled(s, t)` - a whole handler (a fold, a settlement, an answer of the provider's log, a stop) keeps `SupInv`, the
  supervisor's own part of the invariant, and neither starts an acceptance nor a repair.
* `Kept(s, t)` - an acceptance, a record and a repair, which also change what the gate mirrors, keep `SupInv` and the cadence.

`IInv` is `SupInv(sup)` - what was sent or is held is what was due and what was late, and a limit is latched by `recorded`
until the child works again (`Sent`), a task in hand fits the state (`Tasks`), nothing is
folded before the anchor (`Binding`), a timer is of a published child (`Armed`) - with four parts that tie it to its neighbours:

* `GateInv` - the prompts sent, with the one about to be, are no more than the attempts the sidecar counts; a prompted version
  is fenced or over; and every version was written, read and accepted one after the other, which bounds the versions.
* `CycleInv` - while no cycle is open, the acceptance the sidecar holds is of the cycle the supervisor is in, provided this
  daemon made it.  Without "this daemon" it is false, which is what `stale_after_restart` shows.
* `JobInv` - the port shows the registry `active` exactly while the supervisor is; a cancellation under way has taken the job
  out of `running`, so `commitBinding` finds it gone; a process that is down left nothing in memory.
* `Cadence` - besides the property itself, only a published child is reviewed, so the end of a review may arm the timer.

From it follow `TypeCorrectness`, `RepairsAreFenced`, `VerdictsArrive`, `AcceptanceIsCurrent`, `NoOrphan` and `CadenceGoesOn`.
`TailScanHolds` follows from `TraceInv`, which says that records are out of order by less than the slack: a record old enough to
end the scan would have to lie after a follow-up that is newer by the slack or more.  TLC has checked every part of `IInv` over the
states of the run `supervision`.  The proof changed the model in three places: a handoff is evaluated only for a run that is
mirrored, the monitor reports no failed reconnect once the supervisor is stopped, and a timer may be armed
after the stop (section 4).

**Only model-checked**: liveness (`RequestsAreAnswered`, `OperationsEnd`, `CallsEnd`, `ServiceReturns` - fairness is out of the
prover's reach); `EvidenceIsReviewedOnce`, whose windows of Devin's store and of a screen are defined by a recursive chain
and by a search for the longest overlap, so that it needs inductions over both which have not been carried out; `CyclesAreTold`, which needs an account of every event that was
sent, replayed, overtaken or skipped against the child's own count, an invariant over the whole log that has not been
found; and the three violations.

## 6. Plan

The modelling plan is carried out, and every safety invariant the runs check is proved but two.  What is left:

1. `CyclesAreTold`: relate the revision the supervisor has folded to the position in the log that emitted it, for "revised"
   behaviours first, where a revision is a position.
2. `EvidenceIsReviewedOnce` for `pi-jsonl` and `devin-session`, whose windows are without recursion.

## 7. Not modelled

* Profiles and their compilation, schemas, settings, telemetry, prompt and result texts: parsing and formatting, no shared state.
* The status handler and the projections of `herdr_run observe`: reads that change nothing.
* What a review says: the evidence text, its redaction, the model's answer and its classification.
* Inspection and pane tools other than the reads the lane retirement rests on; steer's wait for idle.
* The supervision socket's framing (`supervision/socket.ts`): its request time-outs appear as failed reads in `ChildWorld`.
* `bindAnchors`' refusal of a lifecycle that went back (`supervision/supervisor.ts:593`): it only refuses more.
* A write of the loss accounting that fails itself (`daemon/mailbox.ts:696,848`).  An event's id is minted under the flock,
  where the code mints it just before (`:895`); it is not seen in between.
* The time stamps behind the retirement's anchor: an acceptance is of the content and of the turn it was written in.
* A caller whose tab or workspace differs, and the code of a failed snapshot (`daemon/runtime.ts:450,463-464`), and faults of the lock's
  directory (`pane-write-lock.ts:160-211`): each ends like a refusal that is modelled.
* A second `validate` beside the supervisor's chain (section 4).
* Reuse of a pane id by a stranger; systemd's start limit; the byte cap of a mailbox.
