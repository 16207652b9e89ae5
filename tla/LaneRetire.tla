------------------------------ MODULE LaneRetire ------------------------------
(***************************************************************************)
(* The daemon's lane-retirement sweep (src/src/daemon/retire.ts): a        *)
(* handed-off lane that stays quiet for the grace period is closed, after  *)
(* the whole proof chain is repeated under the pane's write lock and the   *)
(* run's flock.  With it, what has to agree about the close: the own-close *)
(* ledger (supervision/self-close.ts), the lane's supervisor as far as it  *)
(* settles on the absence, the terminal event of its job                   *)
(* (job-registry.ts), and the daemon's ordered shutdown (daemon/main.ts).  *)
(***************************************************************************)
EXTENDS PaneWorld

CONSTANTS
    Grace,          \* sweeps an unchanged lane is watched before it is eligible
    MaxFocusDefers, \* sweeps a focused pane may defer its close
    MaxAttempts,    \* close attempts before the lane is given up
    RetireEnabled   \* the kill switch

ASSUME RetireAssumption ==
    /\ Grace \in Nat \ {0} /\ MaxFocusDefers \in Nat /\ MaxAttempts \in Nat \ {0}
    /\ RetireEnabled \in BOOLEAN

VARIABLES
    sweep,      \* the sweep in flight
    entry,      \* the ledger entry of the lane: its clock, defers, attempts, view
    tracker,    \* the own-close ledger's entry for the pane
    sup,        \* the lane's supervisor, as far as it settles on the absence
    retired,    \* the marker retiredByDaemon
    endings,    \* lane_retired and job_terminal events written to the owner
    daemon      \* the daemon's life

retireVars == <<sweep, entry, tracker, sup, retired, endings, daemon>>

(* What else may speak against a close, outside the pane, as one look finds   *)
(* it: a retention token; the child's own intents and mailbox or the owner's  *)
(* place in the topology; the focus.                                          *)
Holds == {"none", "keep", "veto", "focused"}

(* What the clock compares: the agent's counter and the digest of the screen. *)
Screen == <<turns, Interior(pane), pane.status = "gone">>
NoClock == [set |-> FALSE, seq |-> 0, screen |-> <<{}, <<{}, {}>>, TRUE>>, age |-> 0]
NoEntry == [clock |-> NoClock, defers |-> 0, attempts |-> 0, view |-> "watching"]
Snapped(h) == [present |-> Joins(1), status |-> pane.status, seq |-> pane.seq, hold |-> h]
NoSnap == [present |-> FALSE, status |-> "gone", seq |-> 0, hold |-> "none"]
NoSweep == [pc |-> "idle", snap |-> NoSnap, acked |-> FALSE]

(* Shutdown's steps, in the order of the code; "down" is a dead process. *)
DaemonStates == {"up", "draining", "stopping", "closing", "released", "down"}
UnderFlock == {"flocked", "records", "screen", "leased", "proved", "dispatched"}

SweepStates ==
    [pc: {"idle", "snapped", "eligible", "locked", "retired"} \cup UnderFlock,
     snap: [present: BOOLEAN, status: {"working", "idle", "gone"}, seq: 0..MaxSeq, hold: Holds],
     acked: BOOLEAN]
ClockStates ==
    [set: BOOLEAN, seq: 0..MaxSeq, screen: (SUBSET Messages) \X Interiors \X BOOLEAN, age: 0..Grace]
EntryStates ==
    [clock: ClockStates, defers: 0..MaxFocusDefers, attempts: 0..MaxAttempts,
     view: {"watching", "retired", "failed"}]

RetireTypeOK ==
    /\ sweep \in SweepStates
    /\ entry \in EntryStates
    /\ tracker \in {"none", "pending", "claimed", "confirmed"}
    /\ sup \in {"watching", "consuming", "waking", "settling", "settled", "stopped"}
    /\ retired \in BOOLEAN
    /\ endings \in [retired: 0..2, terminal: 0..2]
    /\ daemon \in DaemonStates

RetireInit ==
    /\ sweep = NoSweep
    /\ entry = NoEntry
    /\ tracker = "none"
    /\ sup = "watching"
    /\ retired = FALSE
    /\ endings = [retired |-> 0, terminal |-> 0]
    /\ daemon = "up"

-----------------------------------------------------------------------------
(* The sweep. *)

(* The interval's tick, skipped while a sweep is in flight: one snapshot. *)
SweepTick ==
    /\ Retirer \in cast /\ daemon = "up"
    /\ sweep.pc = "idle"
    /\ \E h \in Holds : sweep' = [NoSweep EXCEPT !.pc = "snapped", !.snap = Snapped(h)]
    /\ UNCHANGED <<worldVars, entry, tracker, sup, retired, endings, daemon>>

(* traceVeto: a user turn past the accepted artifact, or anything in the      *)
(* composer.                                                                  *)
FollowUp == turns \ lane.covers # {} \/ Interior(pane) # <<{}, {}>>

SweepEnds(e) ==
    /\ sweep' = NoSweep
    /\ entry' = e
    /\ UNCHANGED <<worldVars, tracker, sup, retired, endings, daemon>>

ResetClock(e) == [e EXCEPT !.clock = NoClock]

(* evaluate, as far as it ends with nothing to close. *)
EvaluateIdle ==
    /\ sweep.pc = "snapped"
    /\ \/ entry.view # "watching" /\ SweepEnds(entry)
       \/ entry.view = "watching" /\
            \/ ~lane.handed /\ SweepEnds(NoEntry)
            \/ lane.handed /\ lane.reopened /\ SweepEnds(entry)
            \/ lane.handed /\ ~lane.reopened /\
                 \/ ~sweep.snap.present /\ SweepEnds(NoEntry)
                 \/ /\ sweep.snap.present
                    /\ sweep.snap.hold = "keep" \/ FollowUp \/ sweep.snap.status # "idle"
                    /\ SweepEnds(ResetClock(entry))

(* The observation the clock rests on: the counter of the snapshot and the    *)
(* screen as it is read now.                                                  *)
Quiet ==
    /\ sweep.pc = "snapped"
    /\ entry.view = "watching"
    /\ lane.handed /\ ~lane.reopened
    /\ sweep.snap.present /\ sweep.snap.hold # "keep" /\ ~FollowUp /\ sweep.snap.status = "idle"

(* A screen that cannot be read, or not whole, is no observation. *)
ScreenUnreadable == Quiet /\ SweepEnds(ResetClock(entry))

Unchanged(c) == c.set /\ c.seq = sweep.snap.seq /\ c.screen = Screen

ObserveClock ==
    /\ Quiet
    /\ \/ /\ ~Unchanged(entry.clock)
          /\ SweepEnds([entry EXCEPT !.clock =
                          [set |-> TRUE, seq |-> sweep.snap.seq, screen |-> Screen, age |-> 0]])
       \/ /\ Unchanged(entry.clock) /\ entry.clock.age < Grace
          /\ SweepEnds([entry EXCEPT !.clock.age = @ + 1])

GraceOver == Quiet /\ Unchanged(entry.clock) /\ entry.clock.age = Grace

(* Mutant of OthersPermit: the focus defers one sweep more than its bound. *)
OthersPermitLate(h) == h = "none" \/ (h = "focused" /\ entry.defers > MaxFocusDefers)

(* The vetoes, and the focus, which defers a bounded number of sweeps. *)
OthersPermit(h) == h = "none" \/ (h = "focused" /\ entry.defers >= MaxFocusDefers)

MayClose == OthersPermit(sweep.snap.hold)

Unfocused == IF sweep.snap.hold = "focused" THEN entry ELSE [entry EXCEPT !.defers = 0]

(* The owner-side vetoes; the focus, which defers a bounded number of times;  *)
(* the kill switch.                                                           *)
HeldBack ==
    /\ GraceOver
    /\ ~(MayClose /\ RetireEnabled)
    /\ SweepEnds(IF sweep.snap.hold = "veto" THEN entry
                 ELSE IF MayClose THEN Unfocused
                 ELSE [entry EXCEPT !.defers = @ + 1])

Eligible ==
    /\ GraceOver /\ MayClose /\ RetireEnabled
    /\ sweep' = [NoSweep EXCEPT !.pc = "eligible"]
    /\ entry' = Unfocused
    /\ UNCHANGED <<worldVars, tracker, sup, retired, endings, daemon>>

-----------------------------------------------------------------------------
(* closeLane and lockedClose. *)

SweepGoes(pc) ==
    /\ sweep' = [sweep EXCEPT !.pc = pc]
    /\ UNCHANGED <<pane, turns, landed, lane, fence, pressed, repeated, faults, lapsed,
                   entry, tracker, sup, retired, endings, daemon>>

TakePaneLock == sweep.pc = "eligible" /\ TakeLock(Retirer) /\ SweepGoes("locked")

PaneLockUnavailable == sweep.pc = "eligible" /\ lock # Nothing /\ SweepEnds(entry)

(* withRunFlock: transfers and sidecar mutations wait behind it. *)
TakeRunFlock == sweep.pc = "locked" /\ UNCHANGED lock /\ SweepGoes("flocked")

(* Leaving with nothing closed frees both locks and spends no attempt. *)
Settles(e) ==
    /\ DropLock(Retirer)
    /\ sweep' = NoSweep
    /\ entry' = e
    /\ UNCHANGED <<pane, turns, landed, lane, fence, pressed, repeated, faults, lapsed,
                   tracker, sup, retired, endings, daemon>>

RunFlockUnavailable == sweep.pc = "locked" /\ Settles(entry)

SidecarStands == lane.handed /\ ~lane.reopened
LifecycleStands == pane.status = "idle" /\ pane.seq = entry.clock.seq

(* The fresh sidecar, identity, tokens, lifecycle, provenance and vetoes. *)
RecheckRecords ==
    /\ sweep.pc = "flocked"
    /\ \/ SidecarStands /\ Joins(1) /\ LifecycleStands
          /\ UNCHANGED lock /\ SweepGoes("records")
       \/ ~SidecarStands /\ Settles(entry)
       \/ SidecarStands /\ ~Joins(1) /\ Settles(entry)
       \/ SidecarStands /\ Joins(1) /\ ~LifecycleStands /\ Settles(ResetClock(entry))
       \/ /\ SidecarStands /\ Joins(1) /\ LifecycleStands
          /\ \E h \in Holds : /\ ~OthersPermit(h)
                             /\ Settles(IF h = "keep" THEN ResetClock(entry) ELSE entry)

RecheckScreen ==
    /\ sweep.pc = "records"
    /\ \/ Screen = entry.clock.screen /\ UNCHANGED lock /\ SweepGoes("screen")
       \/ Screen # entry.clock.screen /\ Settles(ResetClock(entry))

RecheckLease ==
    /\ sweep.pc = "screen"
    /\ \/ LeaseHolds(Retirer) /\ UNCHANGED lock /\ SweepGoes("leased")
       \/ ~LeaseHolds(Retirer) /\ Settles(entry)

(* The follow-up proof is the last read before the close. *)
RecheckTrace ==
    /\ sweep.pc = "leased"
    /\ \/ ~FollowUp /\ UNCHANGED lock /\ SweepGoes("proved")
       \/ FollowUp /\ Settles(ResetClock(entry))

(* selfClose.begin, then the close of closeWithReadback: it closes the pane   *)
(* and says so, closes it and fails to say so, or does nothing.               *)
DispatchClose ==
    /\ sweep.pc = "proved"
    /\ tracker' = "pending"
    /\ entry' = [entry EXCEPT !.attempts = @ + 1]
    /\ \/ /\ pane.open
          /\ pane' = [pane EXCEPT !.open = FALSE, !.closer = "retirer"]
          /\ \E acked \in BOOLEAN : sweep' = [sweep EXCEPT !.pc = "dispatched", !.acked = acked]
       \/ /\ UNCHANGED pane
          /\ sweep' = [sweep EXCEPT !.pc = "dispatched", !.acked = FALSE]
    /\ UNCHANGED <<turns, landed, lane, lock, fence, pressed, repeated, faults, lapsed,
                   sup, retired, endings, daemon>>

(* The finisher: a supervisor that claimed the close is let go with the       *)
(* outcome; a confirmed close waits to be claimed; a failed one is forgotten. *)
Finish(confirmed) ==
    /\ tracker' = IF tracker = "pending" /\ confirmed THEN "confirmed" ELSE "none"
    /\ sup' = IF tracker = "claimed" THEN (IF confirmed THEN "settling" ELSE "waking") ELSE sup

(* Mutant of ReadbackProves: the marker is left to the step after the flock. *)
ReadbackMarksLate ==
    /\ sweep.pc = "dispatched" /\ sweep.acked /\ ~pane.open
    /\ entry' = [entry EXCEPT !.view = "retired"]
    /\ Finish(TRUE)
    /\ sweep' = [sweep EXCEPT !.pc = "retired"]
    /\ UNCHANGED <<worldVars, retired, endings, daemon>>

(* The readback shows the pane gone after a close that was acknowledged: the  *)
(* marker is published before the supervisor is let go.                       *)
ReadbackProves ==
    /\ sweep.pc = "dispatched" /\ sweep.acked /\ ~pane.open
    /\ retired' = TRUE
    /\ entry' = [entry EXCEPT !.view = "retired"]
    /\ Finish(TRUE)
    /\ sweep' = [sweep EXCEPT !.pc = "retired"]
    /\ UNCHANGED <<worldVars, endings, daemon>>

CloseLeaves(e) ==
    /\ Finish(FALSE)
    /\ entry' = e
    /\ DropLock(Retirer)
    /\ sweep' = NoSweep
    /\ UNCHANGED <<pane, turns, landed, lane, fence, pressed, repeated, faults, lapsed,
                   retired, endings, daemon>>

(* Gone without an acknowledged close of ours: another actor's close. *)
ReconciledAbsent ==
    /\ sweep.pc = "dispatched" /\ ~sweep.acked /\ ~pane.open
    /\ CloseLeaves(ResetClock(entry))

(* The pane is still there, or the readback failed. *)
MutationUncertain ==
    /\ sweep.pc = "dispatched"
    /\ CloseLeaves([entry EXCEPT !.view = IF entry.attempts >= MaxAttempts THEN "failed" ELSE @])

(* lane_retired, after the run flock is free; a failed write is only logged. *)
WriteLaneRetired ==
    /\ sweep.pc = "retired"
    /\ \E persisted \in BOOLEAN :
         endings' = IF persisted THEN [endings EXCEPT !.retired = @ + 1] ELSE endings
    /\ DropLock(Retirer)
    /\ sweep' = NoSweep
    /\ UNCHANGED <<pane, turns, landed, lane, fence, pressed, repeated, faults, lapsed,
                   entry, tracker, sup, retired, daemon>>

-----------------------------------------------------------------------------
(* The lane's supervisor and its job. *)

(* settleWithEvent on an absent pane asks the ledger: nothing tracked wakes   *)
(* the manager, a confirmed close does not, a pending one is waited for.      *)
ConsumeAbsence ==
    /\ Retirer \in cast /\ sup = "watching" /\ ~pane.open
    /\ \/ tracker = "none" /\ sup' = "waking" /\ UNCHANGED tracker
       \/ tracker = "confirmed" /\ sup' = "settling" /\ tracker' = "none"
       \/ tracker = "pending" /\ sup' = "consuming" /\ tracker' = "claimed"
    /\ UNCHANGED <<worldVars, sweep, entry, retired, endings, daemon>>

EmitPaneClosed ==
    /\ sup = "waking"
    /\ sup' = "settling"
    /\ UNCHANGED <<worldVars, sweep, entry, tracker, retired, endings, daemon>>

(* A confirmed close nobody claimed expires after its minute. *)
ConfirmedExpires ==
    /\ tracker = "confirmed"
    /\ tracker' = "none"
    /\ UNCHANGED <<worldVars, sweep, entry, sup, retired, endings, daemon>>

(* The supervisor's job settles: persistTerminalEvent consults the marker. *)
SettleSupervisor ==
    /\ sup = "settling"
    /\ sup' = "settled"
    /\ endings' = IF lane.handed /\ retired THEN endings
                  ELSE [endings EXCEPT !.terminal = @ + 1]
    /\ UNCHANGED <<worldVars, sweep, entry, tracker, retired, daemon>>

-----------------------------------------------------------------------------
(* The daemon's shutdown, step by step, and its death. *)

DaemonGoes(from, to) ==
    /\ daemon = from
    /\ daemon' = to
    /\ UNCHANGED <<worldVars, sweep, entry, tracker, retired, endings>>

(* shutdown: the intervals are cleared; a sweep in flight goes on. *)
BeginShutdown == Retirer \in cast /\ DaemonGoes("up", "draining") /\ UNCHANGED sup

(* Mutant of DrainSweep: the sweep in flight is not awaited. *)
DrainNothing == DaemonGoes("draining", "stopping") /\ UNCHANGED sup

(* await retireInflight *)
DrainSweep == sweep.pc = "idle" /\ DaemonGoes("draining", "stopping") /\ UNCHANGED sup

(* stopSupervisors: ports are shut down without a terminal event. *)
StopSupervisors ==
    /\ DaemonGoes("stopping", "closing")
    /\ sup' = IF sup = "settled" THEN sup ELSE "stopped"

(* recordStoppedAt, server.close, lock.release *)
CloseAndRelease == DaemonGoes("closing", "released") /\ UNCHANGED sup

(* The process dies: everything in memory goes, and the lock holder with it.  *)
CrashDaemon ==
    /\ Retirer \in cast
    /\ daemon \notin {"released", "down"}
    /\ Fault
    /\ daemon' = "down"
    /\ sweep' = NoSweep /\ entry' = NoEntry /\ tracker' = "none" /\ retired' = FALSE
    /\ sup' = IF sup = "settled" THEN sup ELSE "stopped"
    /\ lock' = IF lock \in DaemonWriters THEN Nothing ELSE lock
    /\ UNCHANGED <<pane, turns, landed, lane, fence, pressed, repeated, lapsed, endings>>

(* A new daemon: a handed-off run is not reattached, so it has no supervisor. *)
RestartDaemon ==
    /\ daemon \in {"released", "down"}
    /\ daemon' = "up"
    /\ sweep' = NoSweep /\ entry' = NoEntry /\ tracker' = "none" /\ retired' = FALSE
    /\ UNCHANGED <<worldVars, sup, endings>>

(* The sweep past its last look at the lease. *)
ClosePastItsCheck == sweep.pc \in {"leased", "proved"}

RetireStep ==
    \/ SweepTick \/ EvaluateIdle \/ ScreenUnreadable \/ ObserveClock
    \/ HeldBack \/ Eligible \/ TakePaneLock \/ PaneLockUnavailable
    \/ TakeRunFlock \/ RunFlockUnavailable \/ RecheckRecords \/ RecheckScreen \/ RecheckLease
    \/ RecheckTrace \/ DispatchClose \/ ReadbackProves \/ ReconciledAbsent \/ MutationUncertain
    \/ WriteLaneRetired \/ ConsumeAbsence \/ EmitPaneClosed \/ ConfirmedExpires \/ SettleSupervisor
    \/ BeginShutdown \/ DrainSweep \/ StopSupervisors \/ CloseAndRelease
    \/ CrashDaemon \/ RestartDaemon

=============================================================================
