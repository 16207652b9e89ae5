--------------------------------- MODULE Panes ---------------------------------
(***************************************************************************)
(* Everyone who writes to one lane's pane at once: prompts and flushes of  *)
(* several hosts, the daemon's idle hints, the retirement sweep and a      *)
(* turn-control call, over the pane's own changes, with crashes and deaths *)
(* of lock holders.                                                        *)
(***************************************************************************)
EXTENDS QueueFlush, LaneRetire, TurnControl, IdleHints

vars == <<cast, worldVars, flushVars, retireVars, ctl, hint>>

TypeOK == WorldTypeOK /\ FlushTypeOK /\ RetireTypeOK /\ ControlTypeOK /\ HintTypeOK

Init == WorldInit /\ FlushInit /\ RetireInit /\ ControlInit /\ HintInit

(* The sidecar is mutated under the run flock, which the close holds. *)
SidecarFree == sweep.pc \notin UnderFlock

WorldStep ==
    \/ TurnEnds \/ QueueDrains \/ OccupantReplaced \/ AgentGone \/ ClosedByOther
    \/ SidecarFree /\ (ArtifactAccepted \/ CycleReopened)

(* A lock's holder process is killed under its writer. *)
HolderDies ==
    /\ lock # Nothing
    /\ Fault
    /\ lock' = Nothing
    /\ lapsed' = (lapsed \/ IF lock = Retirer THEN ClosePastItsCheck
                          ELSE PastItsCheck(lock) \/ (lock = hint.text /\ hint.pc = "locked"))
    /\ UNCHANGED <<pane, turns, landed, lane, fence, pressed, repeated, flushVars, retireVars, ctl, hint>>

(* The sink lives as long as its process, and a hint in flight keeps that     *)
(* alive after the shutdown; a new daemon starts with a new sink.             *)
SinkOf(d) == IF d = "down" \/ (d = "up" /\ daemon # "up" /\ hint.pc = "idle") THEN NoHint ELSE hint

(* A supervisor of a daemon that has not stopped them persists an event. *)
EventFires == daemon \in {"up", "draining"} /\ \E m \in Hints : FireHint(m)

Next ==
    /\ UNCHANGED cast
    /\ \/ WorldStep /\ UNCHANGED <<flushVars, retireVars, ctl, hint>>
       \/ FlushStep /\ UNCHANGED <<retireVars, ctl, hint>>
       \/ RetireStep /\ hint' = SinkOf(daemon') /\ UNCHANGED <<flushVars, ctl>>
       \/ (EventFires \/ HintStep) /\ UNCHANGED <<flushVars, retireVars, ctl>>
       \/ ControlStep /\ UNCHANGED <<flushVars, retireVars, hint>>
       \/ HolderDies

Spec == Init /\ [][Next]_vars

-----------------------------------------------------------------------------
(* Properties. *)

(* No frame gets a second Enter while the composer has not been empty in      *)
(* between, whichever hosts press and whichever crash, unless a lock holder   *)
(* died after its writer's last lease.check (provenEnter's isSpent, check and *)
(* record before the key), or under a flush, whose fence.rearm has none.      *)
OneEnterPerFrame == repeated => lapsed

(* A lane the retirer closed under its agent held no prompt that its accepted *)
(* artifact does not answer: every prompt rides the same lock, and the follow-up proof is   *)
(* the last read before the close (lockedClose), so none is acknowledged in a *)
(* pane that then closes.                                                     *)
RetiredLosesNoPrompt ==
    pane.closer = "retirer" /\ Agent(1) /\ ~lapsed => landed \subseteq lane.covers

(* The owner hears of a lane's end once: lane_retired or job_terminal, never  *)
(* both, whether the supervisor saw the absence before, during or after the   *)
(* close's readback (lockedClose publishes the marker before the finisher).   *)
LaneEndsOnce == endings.retired + endings.terminal <= 1

(* Whatever a sweep does, closing the pane or telling the owner, it does       *)
(* before shutdown stops the supervisors and lets the daemon's lock go, so it *)
(* never acts beside a second daemon (shutdown awaits retireInflight).        *)
SweepActsInTime ==
    [][(pane.closer # "retirer" /\ pane'.closer = "retirer") \/ endings'.retired # endings.retired
         => daemon \in {"up", "draining"}]_vars

=============================================================================
