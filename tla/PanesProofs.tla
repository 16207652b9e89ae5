------------------------------ MODULE PanesProofs ------------------------------
(***************************************************************************)
(* Proofs about everyone who writes to one lane's pane (Panes), for any    *)
(* number of prompts, hosts, occupants and faults.  Four inductive         *)
(* invariants, each proved from the ones before it:                        *)
(*   LaneInv    what the sweep, the own-close ledger, the supervisor and   *)
(*              the marker owe each other about a lane's end;              *)
(*   TypeInv    the types, with the counters that stay below their bounds; *)
(*   LockInv    which writers act under the pane's lock, and what they     *)
(*              have put into the pane;                                    *)
(*   FrameInv   what the fence knows of the frames that got an Enter.      *)
(***************************************************************************)
EXTENDS Panes, FiniteSetTheorems, TLAPS

-----------------------------------------------------------------------------
(* The lane's end. *)

(* A sweep in flight keeps the daemon from stopping its supervisors. *)
BusyIsUp == sweep.pc # "idle" => daemon \in {"up", "draining"}

StoppedIsFinal == daemon \in {"closing", "released", "down"} => sup \in {"stopped", "settled"}

(* Nothing has been told or claimed about a pane that is open. *)
OpenIsUntold ==
    pane.open => /\ pane.closer = "none"
                 /\ endings.retired = 0 /\ endings.terminal = 0
                 /\ sup \in {"watching", "stopped"}
                 /\ ~retired

(* The own-close ledger holds an unfinished close exactly while one is        *)
(* dispatched, and the supervisor waits for it exactly while it is claimed.   *)
LedgerFollowsClose ==
    /\ tracker \in {"pending", "claimed"} <=> sweep.pc = "dispatched"
    /\ tracker = "claimed" <=> sup = "consuming"

(* An acknowledged close is still untold. *)
AckedIsUntold ==
    /\ sweep.acked => /\ sweep.pc \in {"dispatched", "retired"}
                      /\ ~pane.open
                      /\ endings.retired = 0 /\ endings.terminal = 0
    /\ sweep.acked /\ sweep.pc = "dispatched" => sup \in {"watching", "consuming", "stopped"}
    /\ sweep.pc = "retired" => sweep.acked /\ retired

(* Only a handed-off lane is closed. *)
ClosedIsHanded ==
    /\ sweep.pc \in {"records", "screen", "leased", "proved", "dispatched", "retired"} => lane.handed
    /\ retired => lane.handed

(* The terminal event is the supervisor's last act; after lane_retired it is  *)
(* suppressed by the marker, or there is no supervisor left to write it.      *)
EndingsAreCounted ==
    /\ endings.retired \in {0, 1} /\ endings.terminal \in {0, 1}
    /\ sup # "settled" => endings.terminal = 0
    /\ endings.retired = 1 => endings.terminal = 0 /\ (retired \/ sup \in {"stopped", "settled"})

LaneInv ==
    /\ BusyIsUp /\ StoppedIsFinal /\ OpenIsUntold /\ LedgerFollowsClose
    /\ AckedIsUntold /\ ClosedIsHanded /\ EndingsAreCounted

-----------------------------------------------------------------------------
(* The types and the counters. *)

(* A flush that may still press has a press left. *)
PressesLeft == \A h \in Hosts : key[h].pc # "sent" => flush[h].presses < MaxPresses

(* A lane the sweep still watches has an attempt left, unless its pane is gone. *)
Closing == {"eligible", "locked", "flocked", "records", "screen", "leased", "proved", "dispatched"}
AttemptsLeft ==
    /\ sweep.pc \in Closing => entry.view = "watching"
    /\ entry.view = "watching" =>
         \/ entry.attempts < MaxAttempts
         \/ sweep.pc = "dispatched"
         \/ ~pane.open /\ (sweep.pc = "idle" \/ (sweep.pc = "snapped" /\ ~sweep.snap.present))

TypeInv == TypeOK /\ IsFiniteSet(fence.spent) /\ PressesLeft /\ AttemptsLeft

-----------------------------------------------------------------------------
(* The lock. *)

(* A prompt has one delivery at a time: its own section, then, for a launch's *)
(* prompt, its key section; the hints are the daemon's alone.                 *)
OneDelivery ==
    /\ \A m \in Messages : key[m].pc # "idle" => send[m].pc = "unsent"
    /\ \A m \in Hints : send[m] = NoSend

(* Who writes holds the lock, as long as no holder died too late. *)
WritersHold ==
    ~lapsed =>
      /\ \A m \in Messages : send[m].pc \in {"locked", "verified"} => lock = m
      /\ hint.pc = "locked" => lock = hint.text
      /\ sweep.pc \in {"leased", "proved"} => lock = Retirer

(* What was written to the lane's own agent is in its trace or its composer. *)
LandedIsKept == Agent(1) => landed \subseteq turns \cup pane.queued \cup pane.draft

ProvedIsCovered ==
    /\ sweep.pc = "proved" /\ Agent(1) /\ ~lapsed => landed \subseteq lane.covers
    /\ RetiredLosesNoPrompt

LockInv == OneDelivery /\ WritersHold /\ LandedIsKept /\ ProvedIsCovered

-----------------------------------------------------------------------------
(* The frames. *)

Words(f) == f[1] \cup f[2]
Held == pane.queued \cup pane.draft

(* Prompts that may still be written to the pane. *)
Fresh(m) ==
    IF m \in Hints THEN m \notin landed ELSE send[m].pc \in {"idle", "resolved", "locked", "verified"}

(* No text is written twice, so no frame holds what is still to come. *)
FreshIsNew ==
    /\ hint.pc \in {"reading", "unsent", "locked"} => hint.text \notin landed
    /\ \A m \in Messages : Fresh(m) => m \notin Held /\ \A f \in pressed : m \notin Words(f)

FramesAreReal == \A f \in pressed : Words(f) # {}

(* A frame that got an Enter and could be met again is spent. *)
PressedIsSpent ==
    ~lapsed => \A f \in pressed : Words(f) \subseteq Held => IsSpent(pane.occ, f)

(* Who presses or rearms has to hold the lock. *)
Presses(w) == key[w].pc \in {"drained", "checked", "recorded"} \/ (w \in Hosts /\ key[w].pc = "locked")

(* What a key section has learnt of the frames, while it holds the lock. *)
ProofsStand(w) ==
    /\ key[w].pc \in {"joined", "final", "checked"} =>
         \A f \in pressed : Words(f) \subseteq Held => key[w].occ = pane.occ
    /\ key[w].pc = "drained" => \A f \in pressed : ~(Words(f) \subseteq Held)
    /\ key[w].pc = "final" => (key[w].cand \in pressed => IsSpent(key[w].occ, key[w].cand))
    /\ key[w].pc \in {"checked", "recorded"} => key[w].cand \notin pressed
    /\ key[w].pc = "recorded" => IsSpent(key[w].occ, key[w].cand)

(* A key section's frame is of texts written and not empty; as long as it is  *)
(* on the screen it is the joined occupant's.                                 *)
KeyIsSound(w) ==
    /\ \A m \in Messages : Fresh(m) => m \notin Words(key[w].cand)
    /\ key[w].pc \in {"candidate", "joined", "final", "checked", "recorded"} => Words(key[w].cand) # {}
    /\ key[w].pc \in {"joined", "final", "checked", "recorded"} /\ Words(key[w].cand) \subseteq Held
         => key[w].occ = pane.occ
    /\ ~lapsed /\ Presses(w) => lock = w
    /\ ~lapsed /\ lock = w => ProofsStand(w)

FrameInv ==
    /\ FreshIsNew /\ FramesAreReal /\ PressedIsSpent /\ OneEnterPerFrame
    /\ \A w \in Messages \cup Hosts : KeyIsSound(w)

-----------------------------------------------------------------------------
(* The lane's end, step by step. *)

(* What a step does that neither closes the pane nor touches the daemon. *)
LaneKept ==
    /\ UNCHANGED retireVars
    /\ pane'.open = pane.open /\ pane'.closer = pane.closer
    /\ lane.handed => lane'.handed

LEMMA KeptLane == ASSUME LaneInv, LaneKept PROVE LaneInv'
  BY DEF LaneInv, LaneKept, retireVars, BusyIsUp, StoppedIsFinal, OpenIsUntold, LedgerFollowsClose,
         AckedIsUntold, ClosedIsHanded, EndingsAreCounted

LEMMA RetireStepLane ==
  ASSUME WorldTypeOK, RetireTypeOK, LaneInv, RetireStep
  PROVE  LaneInv'
  <1> USE DEF LaneInv, BusyIsUp, StoppedIsFinal, OpenIsUntold, LedgerFollowsClose, AckedIsUntold,
              ClosedIsHanded, EndingsAreCounted, RetireTypeOK, SweepStates, UnderFlock, worldVars
  <1>1. CASE SweepTick
    BY <1>1 DEF SweepTick, NoSweep
  <1>2. CASE EvaluateIdle
    BY <1>2 DEF EvaluateIdle, SweepEnds, NoSweep, NoEntry
  <1>3. CASE ScreenUnreadable
    BY <1>3 DEF ScreenUnreadable, Quiet, SweepEnds, NoSweep
  <1>4. CASE ObserveClock
    BY <1>4 DEF ObserveClock, Quiet, SweepEnds, NoSweep
  <1>5. CASE HeldBack
    BY <1>5 DEF HeldBack, GraceOver, Quiet, SweepEnds, NoSweep
  <1>6. CASE Eligible
    BY <1>6 DEF Eligible, GraceOver, Quiet, NoSweep
  <1>7. CASE TakePaneLock
    BY <1>7 DEF TakePaneLock, SweepGoes
  <1>8. CASE PaneLockUnavailable
    BY <1>8 DEF PaneLockUnavailable, SweepEnds, NoSweep
  <1>9. CASE TakeRunFlock
    BY <1>9 DEF TakeRunFlock, SweepGoes
  <1>10. CASE RunFlockUnavailable
    BY <1>10 DEF RunFlockUnavailable, Settles, NoSweep
  <1>11. CASE RecheckRecords
    BY <1>11 DEF RecheckRecords, SidecarStands, SweepGoes, Settles, NoSweep
  <1>12. CASE RecheckScreen
    BY <1>12 DEF RecheckScreen, SweepGoes, Settles, NoSweep
  <1>13. CASE RecheckLease
    BY <1>13 DEF RecheckLease, SweepGoes, Settles, NoSweep
  <1>14. CASE RecheckTrace
    BY <1>14 DEF RecheckTrace, SweepGoes, Settles, NoSweep
  <1>15. CASE DispatchClose
    BY <1>15 DEF DispatchClose, WorldTypeOK, PaneStates
  <1>16. CASE ReadbackProves
    BY <1>16 DEF ReadbackProves, Finish
  <1>17. CASE ReconciledAbsent
    BY <1>17 DEF ReconciledAbsent, CloseLeaves, Finish, NoSweep
  <1>18. CASE MutationUncertain
    BY <1>18 DEF MutationUncertain, CloseLeaves, Finish, NoSweep
  <1>19. CASE WriteLaneRetired
    BY <1>19 DEF WriteLaneRetired, NoSweep
  <1>20. CASE ConsumeAbsence
    BY <1>20 DEF ConsumeAbsence
  <1>21. CASE EmitPaneClosed
    BY <1>21 DEF EmitPaneClosed
  <1>22. CASE ConfirmedExpires
    BY <1>22 DEF ConfirmedExpires
  <1>23. CASE SettleSupervisor
    BY <1>23 DEF SettleSupervisor
  <1>24. CASE BeginShutdown
    BY <1>24 DEF BeginShutdown, DaemonGoes
  <1>25. CASE DrainSweep
    BY <1>25 DEF DrainSweep, DaemonGoes
  <1>26. CASE StopSupervisors
    BY <1>26 DEF StopSupervisors, DaemonGoes
  <1>27. CASE CloseAndRelease
    BY <1>27 DEF CloseAndRelease, DaemonGoes
  <1>28. CASE CrashDaemon
    BY <1>28 DEF CrashDaemon, NoSweep
  <1>29. CASE RestartDaemon
    BY <1>29 DEF RestartDaemon, NoSweep
  <1> QED BY <1>1, <1>2, <1>3, <1>4, <1>5, <1>6, <1>7, <1>8, <1>9, <1>10, <1>11, <1>12, <1>13, <1>14, <1>15, <1>16, <1>17, <1>18, <1>19, <1>20, <1>21, <1>22, <1>23, <1>24, <1>25, <1>26, <1>27, <1>28, <1>29 DEF RetireStep

-----------------------------------------------------------------------------
(* What a step that does not close the pane may do to it. *)

PaneMoves(new) ==
    /\ pane' \in PaneStates /\ turns' \subseteq Messages
    /\ pane'.open = pane.open /\ pane'.closer = pane.closer
    /\ Held' \subseteq Held \cup new
    /\ pane'.occ = pane.occ \/ Held' = {}
    /\ Agent(1)' => Agent(1) /\ (turns \cup Held \cup new) \subseteq (turns' \cup Held')
    /\ pane.open \/ (pane' = pane /\ turns' = turns)

LEMMA PaneStays ==
  ASSUME WorldTypeOK, pane' = pane, turns' = turns
  PROVE  PaneMoves({})
  BY DEF WorldTypeOK, PaneMoves, Held, Agent

LEMMA TextMoves ==
  ASSUME WorldTypeOK, NEW m \in Messages, Joins(pane.occ), TextLands(m), MaxSeq \in Nat
  PROVE  PaneMoves({m}) /\ pressed' \subseteq pressed
  <1> USE DEF WorldTypeOK, PaneStates, PaneMoves, Held, Agent, Joins
  <1>1. CASE pane.status = "working" /\ PaneBecomes([pane EXCEPT !.queued = @ \cup {m}]) /\ UNCHANGED turns
    BY <1>1 DEF PaneBecomes, Interior
  <1>2. CASE /\ pane.status = "idle" /\ pane.seq < MaxSeq
             /\ PaneBecomes(Busy([pane EXCEPT !.draft = {}]))
             /\ turns' = turns \cup pane.draft \cup {m}
    <2>1. pane.seq + 1 \in 0 .. MaxSeq
      BY <1>2
    <2>2. pane' = [pane EXCEPT !.draft = {}, !.status = "working", !.seq = pane.seq + 1]
      BY <1>2 DEF PaneBecomes, Busy
    <2>3. pressed' \subseteq pressed
      BY <1>2 DEF PaneBecomes
    <2> QED BY <1>2, <2>1, <2>2, <2>3
  <1>3. CASE pane.status = "idle" /\ PaneBecomes([pane EXCEPT !.draft = @ \cup {m}]) /\ UNCHANGED turns
    BY <1>3 DEF PaneBecomes, Interior
  <1> QED BY <1>1, <1>2, <1>3 DEF TextLands

LEMMA EnterMoves ==
  ASSUME WorldTypeOK, NEW f \in Interiors, EnterLands(f), MaxSeq \in Nat
  PROVE  PaneMoves({}) /\ pressed' \subseteq pressed \cup {f}
  <1> USE DEF WorldTypeOK, PaneStates, PaneMoves, Held, Agent
  <1>1. CASE UNCHANGED <<pane, turns>> /\ pressed' = pressed \cup {f}
    BY <1>1, PaneStays
  <1>2. CASE /\ pane.open /\ pane.status # "gone" /\ Interior(pane) # <<{}, {}>> /\ pane.seq < MaxSeq
             /\ turns' = turns \cup pane.queued \cup pane.draft
             /\ LET sent == [pane EXCEPT !.queued = {}, !.draft = {}]
                IN pane' = IF pane.status = "working" THEN sent ELSE Busy(sent)
             /\ pressed' = {}
    <2>1. pane.seq + 1 \in 0 .. MaxSeq
      BY <1>2
    <2>2. \/ pane' = [pane EXCEPT !.queued = {}, !.draft = {}]
          \/ pane' = [pane EXCEPT !.queued = {}, !.draft = {}, !.status = "working", !.seq = pane.seq + 1]
      BY <1>2 DEF Busy
    <2>3. pressed' \subseteq pressed
      BY <1>2
    <2> QED BY <1>2, <2>1, <2>2, <2>3
  <1> QED BY <1>1, <1>2 DEF EnterLands

(* The agent's own changes. *)
AgentStep == TurnEnds \/ QueueDrains \/ OccupantReplaced \/ AgentGone

LEMMA AgentMoves ==
  ASSUME WorldTypeOK, AgentStep, MaxSeq \in Nat, MaxOccupants \in Nat
  PROVE  /\ PaneMoves({}) /\ pressed' \subseteq pressed
         /\ UNCHANGED <<landed, lane, lock, fence, repeated, faults, lapsed>>
  <1> USE DEF WorldTypeOK, PaneStates, PaneMoves, Held, Agent, PaneBecomes, Interior
  <1>1. CASE TurnEnds
    <2>1. pane.seq + 1 \in 0 .. MaxSeq
      BY <1>1 DEF TurnEnds
    <2>2. pane' = [pane EXCEPT !.status = "idle", !.seq = pane.seq + 1] /\ pressed' \subseteq pressed
      BY <1>1 DEF TurnEnds
    <2> QED BY <1>1, <2>1, <2>2 DEF TurnEnds
  <1>2. CASE QueueDrains
    <2>1. pane.seq + 1 \in 0 .. MaxSeq
      BY <1>2 DEF QueueDrains
    <2>2. /\ pane' = [pane EXCEPT !.queued = {}, !.status = "working", !.seq = pane.seq + 1]
          /\ pressed' \subseteq pressed
      BY <1>2 DEF QueueDrains, Busy
    <2> QED BY <1>2, <2>1, <2>2 DEF QueueDrains
  <1>3. CASE OccupantReplaced
    <2>1. pane.occ + 1 \in 1 .. MaxOccupants /\ pane.occ + 1 # 1
      BY <1>3 DEF OccupantReplaced
    <2>2. /\ pane' = [pane EXCEPT !.occ = pane.occ + 1, !.status = "idle", !.elsewhere = FALSE,
                                  !.queued = {}, !.draft = {}]
          /\ pressed' \subseteq pressed
      BY <1>3 DEF OccupantReplaced
    <2> QED BY <1>3, <2>1, <2>2 DEF OccupantReplaced
  <1>4. CASE AgentGone
    BY <1>4 DEF AgentGone, AgentLeaves
  <1> QED BY <1>1, <1>2, <1>3, <1>4 DEF AgentStep

LEMMA KeyMoves ==
  ASSUME WorldTypeOK, DispatchKey, MaxSeq \in Nat
  PROVE  /\ PaneMoves({}) /\ pressed' \subseteq pressed
         /\ UNCHANGED <<landed, lane, lock, fence, repeated, faults, lapsed>>
  <1> USE DEF WorldTypeOK, PaneStates, PaneMoves, Held, Agent
  <1>1. CASE UNCHANGED <<pane, pressed>>
    BY <1>1, PaneStays DEF DispatchKey
  <1>2. CASE /\ Joins(pane.occ) /\ pane.status = "working" /\ pane.seq < MaxSeq
             /\ PaneBecomes([pane EXCEPT !.status = "idle", !.seq = @ + 1])
    <2>1. pane.seq + 1 \in 0 .. MaxSeq
      BY <1>2
    <2>2. pane' = [pane EXCEPT !.status = "idle", !.seq = pane.seq + 1] /\ pressed' \subseteq pressed
      BY <1>2 DEF PaneBecomes
    <2> QED BY <1>2, <2>1, <2>2 DEF DispatchKey, Joins
  <1>3. CASE Joins(pane.occ) /\ ctl.op = "interrupt" /\ PaneBecomes(AgentLeaves(FALSE))
    BY <1>3 DEF DispatchKey, PaneBecomes, Interior, Joins, AgentLeaves
  <1> QED BY <1>1, <1>2, <1>3 DEF DispatchKey

-----------------------------------------------------------------------------
(* The types, component by component. *)

LEMMA Bounds ==
  /\ MaxSeq \in Nat /\ MaxOccupants \in Nat /\ MaxSpent \in Nat /\ MaxFaults \in Nat
  /\ Grace \in Nat /\ MaxFocusDefers \in Nat /\ MaxAttempts \in Nat \ {0}
  /\ 1 \in 1 .. MaxOccupants /\ 0 \in 0 .. MaxSeq /\ 0 \in 0 .. MaxOccupants
  BY PaneAssumption, RetireAssumption

(* The writers' names are told apart, and apart from no writer at all. *)
LEMMA Names ==
  /\ Hints \subseteq Messages /\ LaunchPrompts \subseteq Messages
  /\ \A m \in Messages : m \notin Hosts /\ m # Nothing /\ m # Retirer
  /\ \A h \in Hosts : h # Nothing /\ h # Retirer
  /\ Nothing # Retirer
  BY PaneAssumption DEF Nothing, Retirer

(* A step of the writers of prompts and keys touches the world in one of     *)
(* these ways.                                                               *)
FlushQuiet ==
    /\ UNCHANGED <<pane, turns, landed, lane, fence, pressed, repeated, faults, lapsed>>
    /\ lock' \in {lock, Nothing} \cup Messages \cup Hosts

LEMMA FlushEffects ==
  ASSUME FlushStep
  PROVE  \/ FlushQuiet
         \/ \E m \in Messages : RawWrite(m) \/ WritePrompt(m)
         \/ \E w \in Messages \cup Hosts : RearmFence(w) \/ RecordSpent(w) \/ SendEnter(w)
         \/ \E h \in Hosts : CrashHost(h)
  <1> USE DEF FlushQuiet, worldVars, TakeLock, DropLock
  <1>1. ASSUME NEW m \in Messages, NEW h \in Hosts, ResolveTarget(m, h) PROVE FlushQuiet
    BY <1>1 DEF ResolveTarget
  <1>2. ASSUME NEW m \in Messages,
               \/ EnterSection(m) \/ SectionRefused(m) \/ VerifyFreshPromptTarget(m)
               \/ FreshTargetRefused(m) \/ PromptRejected(m) \/ LeaveSection(m) \/ ConsumptionSeen(m)
        PROVE  FlushQuiet
    BY <1>2 DEF EnterSection, SectionRefused, VerifyFreshPromptTarget, FreshTargetRefused,
                PromptRejected, LeaveSection, ConsumptionSeen
  <1>3. ASSUME NEW h \in Hosts, CycleStarts(h) \/ WaitReturns(h) \/ WaitFails(h) PROVE FlushQuiet
    BY <1>3 DEF CycleStarts, WaitReturns, WaitFails
  <1>4. ASSUME NEW w \in Messages \cup Hosts,
               \/ TakeKeySection(w) \/ KeySectionRefused(w) \/ ReadCandidate(w) \/ JoinOccupant(w)
               \/ ReadFinal(w) \/ CheckFence(w) \/ LeaveKeySection(w)
        PROVE  FlushQuiet
    BY <1>4 DEF TakeKeySection, KeySectionRefused, ReadCandidate, JoinOccupant, ReadFinal, CheckFence,
                LeaveKeySection
  <1> QED BY <1>1, <1>2, <1>3, <1>4 DEF FlushStep

(* What a type of the world needs of the variables that changed. *)
LEMMA WorldTypes ==
  ASSUME WorldTypeOK, cast' = cast, pane' \in PaneStates, turns' \subseteq Messages,
         landed' \subseteq Messages, lane' \in LaneStates, lock' \in Writers \cup {Nothing},
         fence' \in [occ: 0..MaxOccupants, spent: SUBSET Interiors],
         Cardinality(fence'.spent) <= MaxSpent,
         pressed' \subseteq Interiors, repeated' \in BOOLEAN, faults' \in 0..MaxFaults,
         lapsed' \in BOOLEAN
  PROVE  WorldTypeOK'
  BY DEF WorldTypeOK

LEMMA FlushWorldTypes ==
  ASSUME TypeInv, cast' = cast, FlushStep
  PROVE  WorldTypeOK' /\ IsFiniteSet(fence'.spent) /\ UNCHANGED lane
         /\ pane'.open = pane.open /\ pane'.closer = pane.closer
  <1> USE Bounds, Names DEF TypeInv, TypeOK
  <1>0. WorldTypeOK
    OBVIOUS
  <1>t. /\ pane \in PaneStates /\ turns \subseteq Messages /\ landed \subseteq Messages
        /\ lane \in LaneStates /\ lock \in Writers \cup {Nothing}
        /\ fence \in [occ: 0..MaxOccupants, spent: SUBSET Interiors]
        /\ Cardinality(fence.spent) <= MaxSpent /\ IsFiniteSet(fence.spent)
        /\ pressed \subseteq Interiors /\ repeated \in BOOLEAN /\ faults \in 0..MaxFaults
        /\ lapsed \in BOOLEAN
    BY DEF WorldTypeOK
  <1>k. \A w \in Messages \cup Hosts : key[w].cand \in Interiors /\ key[w].occ \in 0..MaxOccupants
    BY DEF FlushTypeOK, KeyStates
  <1>1. CASE FlushQuiet
    <2>1. lock' \in Writers \cup {Nothing}
      BY <1>1, <1>t DEF FlushQuiet, Writers
    <2>2. UNCHANGED <<pane, turns, landed, lane, fence, pressed, repeated, faults, lapsed>>
      BY <1>1 DEF FlushQuiet
    <2>3. WorldTypeOK'
      BY <1>0, <1>t, <2>1, <2>2, WorldTypes
    <2> QED BY <1>t, <2>2, <2>3
  <1>2. ASSUME NEW m \in Messages, RawWrite(m) \/ WritePrompt(m)
        PROVE  /\ WorldTypeOK' /\ IsFiniteSet(fence'.spent) /\ UNCHANGED lane
               /\ pane'.open = pane.open /\ pane'.closer = pane.closer
    <2>1. PaneMoves({m}) /\ pressed' \subseteq pressed
      BY <1>0, <1>2, TextMoves DEF RawWrite, WritePrompt
    <2>2. landed' \subseteq Messages /\ UNCHANGED <<lane, lock, fence, repeated, faults, lapsed>>
      BY <1>2, <1>t DEF RawWrite, WritePrompt
    <2>3. pressed' \subseteq Interiors /\ pane' \in PaneStates /\ turns' \subseteq Messages
      BY <2>1, <1>t DEF PaneMoves
    <2>4. WorldTypeOK'
      BY <1>0, <1>t, <2>2, <2>3, WorldTypes
    <2> QED BY <1>t, <2>1, <2>2, <2>4 DEF PaneMoves
  <1>3. ASSUME NEW w \in Messages \cup Hosts, RearmFence(w) \/ RecordSpent(w)
        PROVE  /\ WorldTypeOK' /\ IsFiniteSet(fence'.spent) /\ UNCHANGED lane
               /\ pane'.open = pane.open /\ pane'.closer = pane.closer
    <2>1. UNCHANGED <<pane, turns, landed, lane, lock, pressed, repeated, faults, lapsed>>
      BY <1>3 DEF RearmFence, RecordSpent
    <2>2. /\ fence' \in [occ: 0..MaxOccupants, spent: SUBSET Interiors]
          /\ IsFiniteSet(fence'.spent) /\ Cardinality(fence'.spent) <= MaxSpent
      <3>1. IsFiniteSet({}) /\ Cardinality({}) = 0
        BY FS_EmptySet
      <3>2. CASE RearmFence(w)
        <4>1. fence' = [occ |-> pane.occ, spent |-> {}]
          BY <3>2 DEF RearmFence, Rearmed
        <4>2. pane.occ \in 0..MaxOccupants
          BY <1>t DEF PaneStates
        <4> QED BY <3>1, <4>1, <4>2
      <3>3. CASE RecordSpent(w)
        <4> DEFINE old == IF fence.occ = key[w].occ THEN fence.spent ELSE {}
                   f == key[w].cand
        <4>1. IsFiniteSet(old) /\ old \subseteq Interiors /\ Cardinality(old) <= MaxSpent
          BY <3>1, <1>t
        <4>2. Cardinality(old) \in Nat
          BY <4>1, FS_CardinalityType
        <4>3. f \in old \/ Cardinality(old) < MaxSpent
          BY <3>3 DEF RecordSpent, Recordable
        <4>4. /\ IsFiniteSet(old \cup {f})
              /\ Cardinality(old \cup {f}) = IF f \in old THEN Cardinality(old) ELSE Cardinality(old) + 1
          BY <4>1, FS_AddElement
        <4>5. fence' = [occ |-> key[w].occ, spent |-> old \cup {f}]
          BY <3>3 DEF RecordSpent, Recorded
        <4> HIDE DEF old
        <4> QED BY <4>1, <4>2, <4>3, <4>4, <4>5, <1>k
      <3> QED BY <1>3, <3>2, <3>3
    <2>3. WorldTypeOK'
      BY <1>0, <1>t, <2>1, <2>2, WorldTypes
    <2> QED BY <2>1, <2>2, <2>3
  <1>4. ASSUME NEW w \in Messages \cup Hosts, SendEnter(w)
        PROVE  /\ WorldTypeOK' /\ IsFiniteSet(fence'.spent) /\ UNCHANGED lane
               /\ pane'.open = pane.open /\ pane'.closer = pane.closer
    <2>1. PaneMoves({}) /\ pressed' \subseteq pressed \cup {key[w].cand}
      BY <1>0, <1>4, <1>k, EnterMoves DEF SendEnter
    <2>2. UNCHANGED <<landed, lane, lock, fence, faults, lapsed>> /\ repeated' \in BOOLEAN
      BY <1>4, <1>t DEF SendEnter
    <2>3. pressed' \subseteq Interiors /\ pane' \in PaneStates /\ turns' \subseteq Messages
      BY <2>1, <1>t, <1>k DEF PaneMoves
    <2>4. WorldTypeOK'
      BY <1>0, <1>t, <2>2, <2>3, WorldTypes
    <2> QED BY <1>t, <2>1, <2>2, <2>4 DEF PaneMoves
  <1>5. ASSUME NEW h \in Hosts, CrashHost(h)
        PROVE  /\ WorldTypeOK' /\ IsFiniteSet(fence'.spent) /\ UNCHANGED lane
               /\ pane'.open = pane.open /\ pane'.closer = pane.closer
    <2>1. UNCHANGED <<pane, turns, landed, lane, fence, pressed, repeated, lapsed>>
      BY <1>5 DEF CrashHost
    <2>2. lock' \in Writers \cup {Nothing} /\ faults' \in 0..MaxFaults
      BY <1>5, <1>t DEF CrashHost, Fault
    <2>3. WorldTypeOK'
      BY <1>0, <1>t, <2>1, <2>2, WorldTypes
    <2> QED BY <1>t, <2>1, <2>3
  <1> QED BY <1>1, <1>2, <1>3, <1>4, <1>5, FlushEffects

(* The deliveries, the flush queues and the key sections. *)
FlushOwn == FlushTypeOK /\ PressesLeft

LEMMA SendOwn ==
  ASSUME FlushOwn, NEW m \in Messages, NEW s \in SendStates,
         send' = [send EXCEPT ![m] = s], UNCHANGED <<flush, key>>
  PROVE  FlushOwn'
  BY DEF FlushOwn, FlushTypeOK, PressesLeft

LEMMA KeyOwn ==
  ASSUME FlushOwn, NEW w \in Messages \cup Hosts, NEW k \in KeyStates, key[w].pc # "sent",
         key' = [key EXCEPT ![w] = k], UNCHANGED <<send, flush>>
  PROVE  FlushOwn'
  BY DEF FlushOwn, FlushTypeOK, PressesLeft

LEMMA QueueOwn ==
  ASSUME FlushOwn, NEW h \in Hosts, NEW f \in FlushStates, f.presses < MaxPresses,
         flush' = [flush EXCEPT ![h] = f], UNCHANGED <<send, key>>
  PROVE  FlushOwn'
  BY DEF FlushOwn, FlushTypeOK, PressesLeft

LEMMA PlainStates ==
  /\ NoFlush \in FlushStates /\ NoFlush.presses < MaxPresses
  /\ NoKey \in KeyStates /\ NoKey.pc = "idle"
  /\ \A h \in Hosts : flush[h] \in FlushStates =>
       /\ CycleOver(h) \in FlushStates /\ CycleOver(h).presses < MaxPresses
  BY Bounds DEF NoFlush, FlushStates, MaxPresses, NoKey, KeyStates, Interiors, CycleOver

LEMMA ScheduleStates ==
  ASSUME NEW f \in FlushStates, NEW m \in Messages, NEW o \in 0..MaxOccupants
  PROVE  Schedule(f, m, o) \in FlushStates /\ Schedule(f, m, o).presses = f.presses
  <1>1. CASE f.waiting # Nothing
    BY <1>1 DEF Schedule, FlushStates
  <1>2. CASE f.waiting = Nothing
    BY <1>2 DEF Schedule, FlushStates
  <1> QED BY <1>1, <1>2

LEMMA PressStates ==
  ASSUME NEW f \in FlushStates, f.presses < MaxPresses, NEW c \in Interiors
  PROVE  [f EXCEPT !.presses = f.presses + 1, !.last = {c}] \in FlushStates
  <1>1. f.presses + 1 \in 0..MaxPresses
    BY DEF FlushStates, MaxPresses
  <1>2. {c} \in SUBSET Interiors
    OBVIOUS
  <1> QED BY <1>1, <1>2 DEF FlushStates

LEMMA FlushOwnTypes ==
  ASSUME WorldTypeOK, FlushOwn, FlushStep
  PROVE  FlushOwn'
  <1> USE Bounds, Names
  <1>p. pane.occ \in 0..MaxOccupants /\ Interior(pane) \in Interiors
    BY DEF WorldTypeOK, PaneStates, Interior, Interiors
  <1>s. \A m \in Messages : send[m] \in SendStates
    BY DEF FlushOwn, FlushTypeOK
  <1>f. \A h \in Hosts : flush[h] \in FlushStates
    BY DEF FlushOwn, FlushTypeOK
  <1>k. \A w \in Messages \cup Hosts : key[w] \in KeyStates
    BY DEF FlushOwn, FlushTypeOK
  <1>d. /\ send \in [Messages -> SendStates] /\ flush \in [Hosts -> FlushStates]
        /\ key \in [Messages \cup Hosts -> KeyStates]
    BY DEF FlushOwn, FlushTypeOK
  <1>1. ASSUME NEW m \in Messages, NEW h \in Hosts, ResolveTarget(m, h) PROVE FlushOwn'
    <2> DEFINE s == [pc |-> "resolved", host |-> h, occ |-> pane.occ, busy |-> FALSE]
    <2>1. s \in SendStates
      BY <1>p DEF SendStates
    <2>2. send' = [send EXCEPT ![m] = s] /\ UNCHANGED <<flush, key>>
      BY <1>1 DEF ResolveTarget
    <2> HIDE DEF s
    <2> QED BY <2>1, <2>2, SendOwn
  <1>2. ASSUME NEW m \in Messages, NEW p \in {"locked", "written", "acked", "done"},
               StepSend(m, p), UNCHANGED <<flush, key>>
        PROVE  FlushOwn'
    <2> DEFINE s == [send[m] EXCEPT !.pc = p]
    <2>1. s \in SendStates
      BY <1>s DEF SendStates
    <2>2. send' = [send EXCEPT ![m] = s]
      BY <1>2 DEF StepSend
    <2> HIDE DEF s
    <2> QED BY <1>2, <2>1, <2>2, SendOwn
  <1>3. ASSUME NEW m \in Messages,
               \/ RawWrite(m) \/ EnterSection(m) \/ SectionRefused(m) \/ FreshTargetRefused(m)
               \/ WritePrompt(m) \/ PromptRejected(m) \/ ConsumptionSeen(m)
        PROVE  FlushOwn'
    BY <1>2, <1>3 DEF RawWrite, EnterSection, SectionRefused, FreshTargetRefused, WritePrompt,
                      PromptRejected, ConsumptionSeen
  <1>4. ASSUME NEW m \in Messages, VerifyFreshPromptTarget(m) PROVE FlushOwn'
    <2> DEFINE s == [send[m] EXCEPT !.pc = "verified", !.busy = (pane.status = "working")]
    <2>1. s \in SendStates
      BY <1>s DEF SendStates
    <2>2. send' = [send EXCEPT ![m] = s] /\ UNCHANGED <<flush, key>>
      BY <1>4, <1>d, <1>s DEF VerifyFreshPromptTarget, SendStates
    <2> HIDE DEF s
    <2> QED BY <2>1, <2>2, SendOwn
  <1>5. ASSUME NEW m \in Messages, LeaveSection(m) PROVE FlushOwn'
    <2> DEFINE q == IF send[m].pc = "acked" /\ m \in LaunchPrompts THEN "unsent" ELSE "done"
               s == [send[m] EXCEPT !.pc = q]
               h == send[m].host
               f == Schedule(flush[h], m, send[m].occ)
    <2>1. s \in SendStates /\ send' = [send EXCEPT ![m] = s] /\ UNCHANGED key
      BY <1>5, <1>s DEF SendStates, LeaveSection, StepSend
    <2>2. send' \in [Messages -> SendStates]
      BY <2>1, <1>d
    <2>3. CASE flush' = flush
      BY <2>2, <2>3, <2>1 DEF FlushOwn, FlushTypeOK, PressesLeft
    <2>4. CASE flush' = [flush EXCEPT ![h] = f]
      <3>1. CASE h \in Hosts
        <4>1. f \in FlushStates /\ f.presses = flush[h].presses
          <5>1. flush[h] \in FlushStates /\ send[m].occ \in 0..MaxOccupants
            BY <3>1, <1>f, <1>s DEF SendStates
          <5> QED BY <5>1, ScheduleStates
        <4>2. flush' \in [Hosts -> FlushStates] /\ \A g \in Hosts : flush'[g].presses = flush[g].presses
          <5> HIDE DEF f
          <5>1. flush'[h] = f /\ \A g \in Hosts : g # h => flush'[g] = flush[g]
            BY <2>4, <1>d, <3>1
          <5> QED BY <4>1, <5>1, <2>4, <1>d, <3>1
        <4> QED BY <2>2, <2>1, <4>2 DEF FlushOwn, FlushTypeOK, PressesLeft
      <3>2. CASE h \notin Hosts
        <4>1. flush' = flush
          BY <2>4, <3>2, <1>d
        <4> QED BY <2>3, <4>1
      <3> QED BY <3>1, <3>2
    <2> QED BY <1>5, <2>3, <2>4 DEF LeaveSection
  <1>6. ASSUME NEW h \in Hosts, CycleStarts(h) PROVE FlushOwn'
    <2> DEFINE m == flush[h].pending
               f == [NoFlush EXCEPT !.waiting = m, !.occ = send[m].occ]
    <2>1. m \in Messages
      BY <1>6, <1>f DEF CycleStarts, FlushStates
    <2>2. f \in FlushStates /\ f.presses < MaxPresses
      BY <2>1, <1>s, PlainStates DEF FlushStates, SendStates, NoFlush, MaxPresses
    <2>3. flush' = [flush EXCEPT ![h] = f] /\ UNCHANGED <<send, key>>
      BY <1>6 DEF CycleStarts
    <2> HIDE DEF f
    <2> QED BY <2>2, <2>3, QueueOwn
  <1>7. ASSUME NEW h \in Hosts, WaitReturns(h) PROVE FlushOwn'
    <2>1. /\ flush' \in [Hosts -> FlushStates] /\ UNCHANGED <<send, key>>
          /\ \A g \in Hosts : flush'[g].presses = flush[g].presses
      BY <1>7, <1>d, <1>f DEF WaitReturns, FlushStates
    <2> QED BY <2>1 DEF FlushOwn, FlushTypeOK, PressesLeft
  <1>8. ASSUME NEW h \in Hosts, WaitFails(h) PROVE FlushOwn'
    <2>1. flush' = [flush EXCEPT ![h] = CycleOver(h)] /\ UNCHANGED <<send, key>>
      BY <1>8 DEF WaitFails, CycleOver
    <2> QED BY <2>1, <1>f, PlainStates, QueueOwn
  <1>9. ASSUME NEW h \in Hosts, CrashHost(h) PROVE FlushOwn'
    <2>1. send' \in [Messages -> SendStates]
      BY <1>9, <1>s DEF CrashHost, SendStates
    <2>2. flush' = [flush EXCEPT ![h] = NoFlush]
      BY <1>9 DEF CrashHost
    <2>3. /\ key' \in [Messages \cup Hosts -> KeyStates]
          /\ \A w \in Messages \cup Hosts : key'[w] \in {key[w], NoKey}
          /\ \A g \in Hosts : g # h => key'[g] \in {key[g]} \/ g \in Messages
      BY <1>9, <1>k, PlainStates DEF CrashHost
    <2>4. \A g \in Hosts : g # h => flush'[g] = flush[g] /\ key'[g] = key[g]
      BY <2>2, <2>3, <1>d
    <2>5. flush'[h] = NoFlush /\ flush' \in [Hosts -> FlushStates]
      BY <2>2, <1>d, PlainStates
    <2> QED BY <2>1, <2>3, <2>4, <2>5, PlainStates DEF FlushOwn, FlushTypeOK, PressesLeft
  <1>10. ASSUME NEW w \in Messages \cup Hosts, NEW p \in {"locked", "final", "checked", "recorded", "sent"},
                StepKey(w, p), key[w].pc # "sent", UNCHANGED <<send, flush>>
         PROVE  FlushOwn'
    <2> DEFINE k == [key[w] EXCEPT !.pc = p]
    <2>1. k \in KeyStates
      BY <1>k DEF KeyStates
    <2>2. key' = [key EXCEPT ![w] = k]
      BY <1>10 DEF StepKey
    <2> HIDE DEF k
    <2> QED BY <1>10, <2>1, <2>2, KeyOwn
  <1>11. ASSUME NEW w \in Messages \cup Hosts,
                \/ TakeKeySection(w) \/ RearmFence(w) \/ ReadFinal(w) \/ CheckFence(w) \/ RecordSpent(w)
         PROVE  FlushOwn'
    BY <1>10, <1>11, PlainStates DEF TakeKeySection, RearmFence, ReadFinal, CheckFence, RecordSpent
  <1>12. ASSUME NEW w \in Messages \cup Hosts, ReadCandidate(w) PROVE FlushOwn'
    <2>1. PICK p \in {"candidate", "drained"} :
             key' = [key EXCEPT ![w].pc = p, ![w].cand = Interior(pane)]
      BY <1>12 DEF ReadCandidate, Composer
    <2> DEFINE k == [key[w] EXCEPT !.pc = p, !.cand = Interior(pane)]
    <2>2. k \in KeyStates
      BY <1>k, <1>p DEF KeyStates
    <2>3. key' = [key EXCEPT ![w] = k] /\ key[w].pc # "sent" /\ UNCHANGED <<send, flush>>
      BY <1>12, <2>1, <1>d, <1>k DEF ReadCandidate, KeyStates
    <2> HIDE DEF k
    <2> QED BY <2>2, <2>3, KeyOwn
  <1>13. ASSUME NEW w \in Messages \cup Hosts, JoinOccupant(w) PROVE FlushOwn'
    <2> DEFINE k == [key[w] EXCEPT !.pc = "joined", !.occ = pane.occ]
    <2>2. k \in KeyStates
      BY <1>k, <1>p DEF KeyStates
    <2>3. key' = [key EXCEPT ![w] = k] /\ key[w].pc # "sent" /\ UNCHANGED <<send, flush>>
      BY <1>13, <1>d, <1>k DEF JoinOccupant, KeyStates
    <2> HIDE DEF k
    <2> QED BY <2>2, <2>3, KeyOwn
  <1>14. ASSUME NEW w \in Messages \cup Hosts, SendEnter(w) PROVE FlushOwn'
    <2> DEFINE k == [key[w] EXCEPT !.pc = "sent"]
    <2>1. k \in KeyStates /\ key' = [key EXCEPT ![w] = k] /\ UNCHANGED send /\ k.pc = "sent"
      BY <1>14, <1>k DEF KeyStates, SendEnter, StepKey
    <2> HIDE DEF k
    <2>2. /\ key' \in [Messages \cup Hosts -> KeyStates]
          /\ \A v \in Messages \cup Hosts : v # w => key'[v] = key[v]
          /\ key'[w].pc = "sent"
      BY <2>1, <1>d
    <2>3. CASE w \in Hosts
      <3> DEFINE f == [flush[w] EXCEPT !.presses = flush[w].presses + 1, !.last = {key[w].cand}]
      <3>1. flush[w].presses < MaxPresses
        BY <1>14, <2>3 DEF SendEnter, FlushOwn, PressesLeft
      <3>2. f \in FlushStates
        <4>1. flush[w] \in FlushStates /\ key[w].cand \in Interiors
          BY <2>3, <1>f, <1>k DEF KeyStates
        <4> QED BY <3>1, <4>1, PressStates
      <3>3. flush' = [flush EXCEPT ![w] = f]
        BY <1>14, <2>3, <1>d, <1>f DEF SendEnter, FlushStates
      <3> HIDE DEF f
      <3>4. flush' \in [Hosts -> FlushStates] /\ \A g \in Hosts : g # w => flush'[g] = flush[g]
        BY <3>2, <3>3, <1>d
      <3> QED BY <2>1, <2>2, <3>4 DEF FlushOwn, FlushTypeOK, PressesLeft
    <2>4. CASE w \notin Hosts
      <3>1. UNCHANGED flush
        BY <1>14, <2>4 DEF SendEnter
      <3> QED BY <2>1, <2>2, <2>4, <3>1 DEF FlushOwn, FlushTypeOK, PressesLeft
    <2> QED BY <2>3, <2>4
  <1>15. ASSUME NEW w \in Messages \cup Hosts, LeaveKeySection(w) PROVE FlushOwn'
    <2>1. key' = [key EXCEPT ![w] = NoKey]
      BY <1>15 DEF LeaveKeySection
    <2>2. /\ key' \in [Messages \cup Hosts -> KeyStates]
          /\ \A v \in Messages \cup Hosts : v # w => key'[v] = key[v]
      BY <2>1, <1>d, PlainStates
    <2>3. CASE w \in Hosts
      <3>1. UNCHANGED send
        BY <1>15, <2>3 DEF LeaveKeySection
      <3>2. \/ flush' = flush /\ flush[w].presses < MaxPresses
            \/ flush' = [flush EXCEPT ![w] = CycleOver(w)]
        BY <1>15, <2>3 DEF LeaveKeySection
      <3>3. /\ flush' \in [Hosts -> FlushStates] /\ flush'[w].presses < MaxPresses
            /\ \A g \in Hosts : g # w => flush'[g] = flush[g]
        <4>1. CycleOver(w) \in FlushStates /\ CycleOver(w).presses < MaxPresses
          BY <2>3, <1>f, PlainStates
        <4>2. CASE flush' = flush /\ flush[w].presses < MaxPresses
          BY <4>2, <1>d
        <4>3. CASE flush' = [flush EXCEPT ![w] = CycleOver(w)]
          BY <4>1, <4>3, <2>3, <1>d
        <4> QED BY <3>2, <4>2, <4>3
      <3> QED BY <2>2, <3>1, <3>3 DEF FlushOwn, FlushTypeOK, PressesLeft
    <2>4. CASE w \notin Hosts
      <3>1. StepSend(w, "done") /\ UNCHANGED flush /\ w \in Messages
        BY <1>15, <2>4 DEF LeaveKeySection
      <3>2. send' \in [Messages -> SendStates]
        BY <3>1, <1>d, <1>s DEF StepSend, SendStates
      <3> QED BY <2>2, <2>4, <3>1, <3>2 DEF FlushOwn, FlushTypeOK, PressesLeft
    <2> QED BY <2>3, <2>4
  <1>16. ASSUME NEW w \in Messages \cup Hosts, KeySectionRefused(w) PROVE FlushOwn'
    <2>1. CASE w \in Hosts
      <3>1. flush' = [flush EXCEPT ![w] = CycleOver(w)] /\ UNCHANGED <<send, key>>
        BY <1>16, <2>1 DEF KeySectionRefused
      <3> QED BY <3>1, <2>1, <1>f, PlainStates, QueueOwn
    <2>2. CASE w \notin Hosts
      <3>1. StepSend(w, "done") /\ UNCHANGED <<flush, key>> /\ w \in Messages
        BY <1>16, <2>2 DEF KeySectionRefused
      <3> QED BY <3>1, <1>2
    <2> QED BY <2>1, <2>2
  <1> QED BY <1>1, <1>3, <1>4, <1>5, <1>6, <1>7, <1>8, <1>9, <1>11, <1>12, <1>13, <1>14, <1>15, <1>16
          DEF FlushStep

(* The sweep, its ledger entry, the supervisor and the daemon. *)

LEMMA PlainEntries ==
  /\ NoSweep \in SweepStates /\ NoSweep.pc = "idle" /\ ~NoSweep.acked
  /\ NoClock \in ClockStates
  /\ NoEntry \in EntryStates /\ NoEntry.attempts < MaxAttempts /\ NoEntry.view = "watching"
  /\ \A p \in {"snapped", "eligible"} :
       [NoSweep EXCEPT !.pc = p] \in SweepStates /\ [NoSweep EXCEPT !.pc = p].pc = p
  <1> USE Bounds
  <1>1. NoSnap \in [present: BOOLEAN, status: {"working", "idle", "gone"}, seq: 0..MaxSeq, hold: Holds]
    BY DEF NoSnap, Holds
  <1>2. /\ NoSweep \in SweepStates /\ NoSweep.pc = "idle" /\ ~NoSweep.acked
        /\ \A p \in {"snapped", "eligible"} :
             [NoSweep EXCEPT !.pc = p] \in SweepStates /\ [NoSweep EXCEPT !.pc = p].pc = p
    BY <1>1 DEF NoSweep, SweepStates, UnderFlock
  <1>3. <<{}, <<{}, {}>>, TRUE>> \in (SUBSET Messages) \X Interiors \X BOOLEAN
    BY DEF Interiors
  <1>4. 0 \in 0..Grace
    OBVIOUS
  <1>5. NoClock \in ClockStates
    BY <1>3, <1>4 DEF NoClock, ClockStates
  <1>6. 0 \in 0..MaxFocusDefers /\ 0 \in 0..MaxAttempts /\ 0 < MaxAttempts
    OBVIOUS
  <1>7. NoEntry \in EntryStates /\ NoEntry.attempts < MaxAttempts /\ NoEntry.view = "watching"
    BY <1>5, <1>6 DEF NoEntry, EntryStates
  <1> QED BY <1>2, <1>5, <1>7

LEMMA EntryUpdates ==
  ASSUME NEW e \in EntryStates
  PROVE  /\ ResetClock(e) \in EntryStates
         /\ ResetClock(e).view = e.view /\ ResetClock(e).attempts = e.attempts
         /\ \A c \in ClockStates : LET u == [e EXCEPT !.clock = c] IN
              u \in EntryStates /\ u.view = e.view /\ u.attempts = e.attempts
         /\ \A d \in 0..MaxFocusDefers : LET u == [e EXCEPT !.defers = d] IN
              u \in EntryStates /\ u.view = e.view /\ u.attempts = e.attempts
         /\ \A a \in 0..MaxAttempts : LET u == [e EXCEPT !.attempts = a] IN
              u \in EntryStates /\ u.view = e.view /\ u.attempts = a
         /\ \A v \in {"watching", "retired", "failed"} : LET u == [e EXCEPT !.view = v] IN
              u \in EntryStates /\ u.view = v /\ u.attempts = e.attempts
  BY PlainEntries DEF EntryStates, ResetClock

(* The world as a step of the daemon leaves it. *)
LEMMA RetireEffects ==
  ASSUME RetireStep
  PROVE  /\ UNCHANGED <<turns, landed, lane, fence, pressed, repeated, lapsed>>
         /\ lock' \in {lock, Nothing, Retirer}
         /\ faults' = faults \/ Fault
         /\ pane' = pane \/ pane' = [pane EXCEPT !.open = FALSE, !.closer = "retirer"]
  <1> USE DEF worldVars, TakeLock, DropLock, Fault
  <1>1. CASE \/ SweepTick \/ Eligible \/ ReadbackProves \/ ConsumeAbsence \/ EmitPaneClosed
             \/ ConfirmedExpires \/ SettleSupervisor \/ RestartDaemon
    BY <1>1 DEF SweepTick, Eligible, ReadbackProves, ConsumeAbsence, EmitPaneClosed, ConfirmedExpires,
                SettleSupervisor, RestartDaemon
  <1>2. CASE EvaluateIdle \/ ScreenUnreadable \/ ObserveClock \/ HeldBack \/ PaneLockUnavailable
    BY <1>2 DEF EvaluateIdle, ScreenUnreadable, ObserveClock, HeldBack, PaneLockUnavailable, SweepEnds
  <1>3. CASE TakePaneLock \/ TakeRunFlock \/ RunFlockUnavailable
    BY <1>3 DEF TakePaneLock, TakeRunFlock, RunFlockUnavailable, SweepGoes, Settles
  <1>4. CASE RecheckRecords \/ RecheckScreen \/ RecheckLease \/ RecheckTrace
    BY <1>4 DEF RecheckRecords, RecheckScreen, RecheckLease, RecheckTrace, SweepGoes, Settles
  <1>5. CASE DispatchClose
    BY <1>5 DEF DispatchClose
  <1>6. CASE ReconciledAbsent \/ MutationUncertain \/ WriteLaneRetired
    BY <1>6 DEF ReconciledAbsent, MutationUncertain, CloseLeaves, WriteLaneRetired
  <1>7. CASE BeginShutdown \/ DrainSweep \/ StopSupervisors \/ CloseAndRelease
    BY <1>7 DEF BeginShutdown, DrainSweep, StopSupervisors, CloseAndRelease, DaemonGoes
  <1>8. CASE CrashDaemon
    BY <1>8 DEF CrashDaemon
  <1> QED BY <1>1, <1>2, <1>3, <1>4, <1>5, <1>6, <1>7, <1>8 DEF RetireStep

LEMMA RetireWorldTypes ==
  ASSUME WorldTypeOK, cast' = cast, RetireStep
  PROVE  WorldTypeOK'
  <1>t. /\ pane \in PaneStates /\ turns \subseteq Messages /\ landed \subseteq Messages
        /\ lane \in LaneStates /\ lock \in Writers \cup {Nothing}
        /\ fence \in [occ: 0..MaxOccupants, spent: SUBSET Interiors]
        /\ Cardinality(fence.spent) <= MaxSpent
        /\ pressed \subseteq Interiors /\ repeated \in BOOLEAN /\ faults \in 0..MaxFaults
        /\ lapsed \in BOOLEAN
    BY DEF WorldTypeOK
  <1>1. pane' \in PaneStates
    BY <1>t, RetireEffects DEF PaneStates
  <1>2. lock' \in Writers \cup {Nothing}
    BY <1>t, RetireEffects DEF Writers
  <1>3. faults' \in 0..MaxFaults
    BY <1>t, RetireEffects, Bounds DEF Fault
  <1> QED BY <1>t, <1>1, <1>2, <1>3, RetireEffects, WorldTypes

(* What each step of the sweep does to itself and to its entry. *)
RetireOwn == RetireTypeOK /\ AttemptsLeft

LEMMA SweepRests ==
  ASSUME RetireOwn, NEW e \in EntryStates, sweep' = NoSweep, entry' = e, pane' = pane,
         e.view = "watching" => e.attempts < MaxAttempts \/ ~pane.open,
         UNCHANGED <<retired, endings, daemon>>,
         tracker' \in {"none", "pending", "claimed", "confirmed"},
         sup' \in {"watching", "consuming", "waking", "settling", "settled", "stopped"}
  PROVE  RetireOwn'
  BY PlainEntries DEF RetireOwn, RetireTypeOK, AttemptsLeft, Closing

LEMMA SweepProceeds ==
  ASSUME RetireOwn, NEW p \in Closing, p # "dispatched", sweep.pc \in Closing,
         sweep.pc # "dispatched", sweep' = [sweep EXCEPT !.pc = p],
         pane' = pane, UNCHANGED <<entry, tracker, sup, retired, endings, daemon>>
  PROVE  RetireOwn'
  <1>1. sweep' \in SweepStates /\ sweep'.pc = p
    BY DEF RetireOwn, RetireTypeOK, SweepStates, Closing, UnderFlock
  <1> QED BY <1>1 DEF RetireOwn, RetireTypeOK, AttemptsLeft, Closing

LEMMA RetireOwnTypes ==
  ASSUME WorldTypeOK, RetireOwn, LaneInv, RetireStep
  PROVE  RetireOwn'
  <1> USE Bounds
  <1>t. /\ sweep \in SweepStates /\ entry \in EntryStates
        /\ tracker \in {"none", "pending", "claimed", "confirmed"}
        /\ sup \in {"watching", "consuming", "waking", "settling", "settled", "stopped"}
        /\ pane \in PaneStates
    BY DEF RetireOwn, RetireTypeOK, WorldTypeOK
  <1>e. /\ entry.view \in {"watching", "retired", "failed"} /\ entry.attempts \in 0..MaxAttempts
        /\ entry.defers \in 0..MaxFocusDefers /\ entry.clock \in ClockStates
        /\ entry.clock.age \in 0..Grace
    BY <1>t DEF EntryStates, ClockStates
  <1>r. ASSUME sweep.pc = "snapped", NEW e \in EntryStates, SweepEnds(e),
               e.view = "watching" => e.attempts < MaxAttempts \/ (e.attempts = entry.attempts /\ entry.view = "watching")
        PROVE  RetireOwn'
    <2>1. e.view = "watching" => e.attempts < MaxAttempts \/ ~pane.open
      BY <1>r DEF RetireOwn, AttemptsLeft
    <2>2. sweep' = NoSweep /\ entry' = e /\ pane' = pane /\ UNCHANGED <<tracker, sup, retired, endings, daemon>>
      BY <1>r DEF SweepEnds, worldVars
    <2> QED BY <1>r, <1>t, <2>1, <2>2, SweepRests
  <1>q. ASSUME sweep.pc \in Closing, sweep.pc # "dispatched", NEW e \in EntryStates,
               e.view = entry.view, e.attempts = entry.attempts,
               Settles(e) \/ SweepEnds(e)
        PROVE  RetireOwn'
    <2>1. e.view = "watching" => e.attempts < MaxAttempts \/ ~pane.open
      BY <1>q DEF RetireOwn, AttemptsLeft, Closing
    <2>2. sweep' = NoSweep /\ entry' = e /\ pane' = pane /\ UNCHANGED <<tracker, sup, retired, endings, daemon>>
      BY <1>q DEF Settles, SweepEnds, worldVars
    <2> QED BY <1>q, <1>t, <2>1, <2>2, SweepRests
  <1>g. ASSUME NEW p \in Closing, p # "dispatched", sweep.pc \in Closing, sweep.pc # "dispatched", SweepGoes(p)
        PROVE  RetireOwn'
    BY <1>g, SweepProceeds DEF SweepGoes
  <1>c. /\ ResetClock(entry) \in EntryStates
        /\ ResetClock(entry).view = entry.view /\ ResetClock(entry).attempts = entry.attempts
    BY <1>t, EntryUpdates
  <1>1. CASE SweepTick
    <2>1. PICK h \in Holds : sweep' = [NoSweep EXCEPT !.pc = "snapped", !.snap = Snapped(h)]
      BY <1>1 DEF SweepTick
    <2>2. /\ sweep' \in SweepStates /\ sweep'.pc = "snapped" /\ sweep'.snap.present = Joins(1)
      BY <2>1, <1>t, PlainEntries DEF Snapped, SweepStates, NoSweep, NoSnap, PaneStates, Joins, Agent, UnderFlock
    <2>3. /\ UNCHANGED <<pane, entry, tracker, sup, retired, endings, daemon>> /\ sweep.pc = "idle"
      BY <1>1 DEF SweepTick, worldVars
    <2>4. entry.view = "watching" => entry.attempts < MaxAttempts \/ ~pane.open
      BY <2>3 DEF RetireOwn, AttemptsLeft
    <2>5. ~pane.open => ~sweep'.snap.present
      BY <2>2 DEF Joins
    <2> QED BY <2>2, <2>3, <2>4, <2>5 DEF RetireOwn, RetireTypeOK, AttemptsLeft, Closing
  <1>2. CASE EvaluateIdle
    <2>1. sweep.pc = "snapped" /\ (SweepEnds(entry) \/ SweepEnds(NoEntry) \/ SweepEnds(ResetClock(entry)))
      BY <1>2 DEF EvaluateIdle
    <2> QED BY <2>1, <1>r, <1>t, <1>c, PlainEntries
  <1>3. CASE ScreenUnreadable
    BY <1>3, <1>r, <1>t, <1>c DEF ScreenUnreadable, Quiet
  <1>4. CASE ObserveClock
    <2>1. sweep.pc = "snapped"
      BY <1>4 DEF ObserveClock, Quiet
    <2>2. Screen \in (SUBSET Messages) \X Interiors \X BOOLEAN /\ sweep.snap.seq \in 0..MaxSeq
      BY <1>t DEF Screen, WorldTypeOK, PaneStates, Interior, Interiors, SweepStates
    <2>3. CASE SweepEnds([entry EXCEPT !.clock =
                          [set |-> TRUE, seq |-> sweep.snap.seq, screen |-> Screen, age |-> 0]])
      <3> DEFINE c == [set |-> TRUE, seq |-> sweep.snap.seq, screen |-> Screen, age |-> 0]
      <3>1. c \in ClockStates
        BY <2>2 DEF ClockStates
      <3> HIDE DEF c
      <3> DEFINE e == [entry EXCEPT !.clock = c]
      <3>2. e \in EntryStates /\ e.view = entry.view /\ e.attempts = entry.attempts
        BY <3>1, <1>t, EntryUpdates
      <3>3. SweepEnds(e)
        BY <2>3 DEF c
      <3> HIDE DEF e
      <3> QED BY <2>1, <3>2, <3>3, <1>r
    <2>4. CASE entry.clock.age < Grace /\ SweepEnds([entry EXCEPT !.clock.age = @ + 1])
      <3> DEFINE c == [entry.clock EXCEPT !.age = entry.clock.age + 1]
                 e == [entry EXCEPT !.clock = c]
      <3>1. entry.clock.age + 1 \in 0..Grace
        BY <2>4, <1>e
      <3>2. c \in ClockStates
        BY <3>1, <1>e DEF ClockStates
      <3>3. e \in EntryStates /\ e.view = entry.view /\ e.attempts = entry.attempts
        BY <3>2, <1>t, EntryUpdates
      <3>4. SweepEnds(e)
        BY <2>4
      <3> HIDE DEF e, c
      <3> QED BY <2>1, <3>3, <3>4, <1>r
    <2> QED BY <1>4, <2>3, <2>4 DEF ObserveClock
  <1>u. /\ Unfocused \in EntryStates /\ Unfocused.view = entry.view /\ Unfocused.attempts = entry.attempts
    <2>1. 0 \in 0..MaxFocusDefers
      OBVIOUS
    <2>2. Unfocused = entry \/ Unfocused = [entry EXCEPT !.defers = 0]
      BY DEF Unfocused
    <2> DEFINE e == [entry EXCEPT !.defers = 0]
    <2>3. e \in EntryStates /\ e.view = entry.view /\ e.attempts = entry.attempts
      BY <1>t, <2>1, EntryUpdates
    <2> HIDE DEF e
    <2>4. Unfocused = entry \/ Unfocused = e
      BY <2>2 DEF e
    <2> QED BY <1>t, <2>3, <2>4
  <1>5. CASE HeldBack
    <2>1. sweep.pc = "snapped"
      BY <1>5 DEF HeldBack, GraceOver, Quiet
    <2>2. CASE SweepEnds(entry) \/ SweepEnds(Unfocused)
      BY <2>1, <2>2, <1>r, <1>t, <1>u
    <2>3. CASE ~MayClose /\ sweep.snap.hold # "veto" /\ SweepEnds([entry EXCEPT !.defers = @ + 1])
      <3> DEFINE e == [entry EXCEPT !.defers = entry.defers + 1]
      <3>1. sweep.snap.hold = "focused"
        BY <1>5, <2>3, <1>t DEF HeldBack, GraceOver, Quiet, MayClose, OthersPermit, SweepStates, Holds
      <3>2. entry.defers + 1 \in 0..MaxFocusDefers
        BY <3>1, <2>3, <1>e DEF MayClose, OthersPermit
      <3>3. e \in EntryStates /\ e.view = entry.view /\ e.attempts = entry.attempts
        BY <3>2, <1>t, EntryUpdates
      <3>4. SweepEnds(e)
        BY <2>3
      <3> HIDE DEF e
      <3> QED BY <2>1, <3>3, <3>4, <1>r
    <2> QED BY <1>5, <2>2, <2>3 DEF HeldBack
  <1>6. CASE Eligible
    <2>1. /\ sweep' = [NoSweep EXCEPT !.pc = "eligible"] /\ entry' = Unfocused
          /\ UNCHANGED <<pane, tracker, sup, retired, endings, daemon>>
          /\ sweep.pc = "snapped" /\ entry.view = "watching" /\ sweep.snap.present
      BY <1>6 DEF Eligible, GraceOver, Quiet, worldVars
    <2>2. sweep' \in SweepStates /\ sweep'.pc = "eligible"
      BY <2>1, PlainEntries
    <2>3. entry.attempts < MaxAttempts
      BY <2>1 DEF RetireOwn, AttemptsLeft
    <2> QED BY <2>1, <2>2, <2>3, <1>u DEF RetireOwn, RetireTypeOK, AttemptsLeft, Closing
  <1>7. CASE TakePaneLock \/ TakeRunFlock
    BY <1>7, <1>g DEF TakePaneLock, TakeRunFlock, Closing
  <1>8. CASE PaneLockUnavailable \/ RunFlockUnavailable
    BY <1>8, <1>q, <1>t DEF PaneLockUnavailable, RunFlockUnavailable, Closing
  <1>9. CASE RecheckRecords
    <2>1. \/ SweepGoes("records") \/ Settles(entry) \/ Settles(ResetClock(entry))
      BY <1>9 DEF RecheckRecords
    <2>2. sweep.pc = "flocked"
      BY <1>9 DEF RecheckRecords
    <2> QED BY <2>1, <2>2, <1>g, <1>q, <1>t, <1>c DEF Closing
  <1>10. CASE RecheckScreen \/ RecheckLease \/ RecheckTrace
    <2>1. \/ sweep.pc = "records" /\ (SweepGoes("screen") \/ Settles(ResetClock(entry)))
          \/ sweep.pc = "screen" /\ (SweepGoes("leased") \/ Settles(entry))
          \/ sweep.pc = "leased" /\ (SweepGoes("proved") \/ Settles(ResetClock(entry)))
      BY <1>10 DEF RecheckScreen, RecheckLease, RecheckTrace
    <2> QED BY <2>1, <1>g, <1>q, <1>t, <1>c DEF Closing
  <1>11. CASE DispatchClose
    <2>1. entry.attempts < MaxAttempts /\ entry.view = "watching"
      BY <1>11 DEF DispatchClose, RetireOwn, AttemptsLeft, Closing
    <2>2. entry.attempts + 1 \in 0..MaxAttempts
      BY <2>1, <1>e
    <2> DEFINE e == [entry EXCEPT !.attempts = entry.attempts + 1]
    <2>3. e \in EntryStates /\ e.view = "watching"
      BY <2>1, <2>2, <1>t, EntryUpdates
    <2>4. entry' = e
      BY <1>11 DEF DispatchClose
    <2>5. sweep' \in SweepStates /\ sweep'.pc = "dispatched"
      BY <1>11, <1>t DEF DispatchClose, SweepStates, UnderFlock
    <2>6. tracker' = "pending" /\ UNCHANGED <<sup, retired, endings, daemon>>
      BY <1>11 DEF DispatchClose
    <2> HIDE DEF e
    <2> QED BY <2>3, <2>4, <2>5, <2>6 DEF RetireOwn, RetireTypeOK, AttemptsLeft, Closing
  <1>12. CASE ReadbackProves
    <2>1. entry' \in EntryStates /\ entry'.view = "retired"
      BY <1>12, <1>t, EntryUpdates DEF ReadbackProves
    <2>2. sweep' \in SweepStates /\ sweep'.pc = "retired"
      BY <1>12, <1>t DEF ReadbackProves, SweepStates, UnderFlock
    <2>3. /\ tracker' \in {"none", "pending", "claimed", "confirmed"}
          /\ sup' \in {"watching", "consuming", "waking", "settling", "settled", "stopped"}
          /\ retired' = TRUE /\ UNCHANGED <<endings, daemon>>
      BY <1>12, <1>t DEF ReadbackProves, Finish
    <2> QED BY <2>1, <2>2, <2>3 DEF RetireOwn, RetireTypeOK, AttemptsLeft, Closing
  <1>13. CASE ReconciledAbsent \/ MutationUncertain
    <2>1. PICK e : /\ CloseLeaves(e)
                   /\ \/ e = ResetClock(entry) /\ ~pane.open
                      \/ e = [entry EXCEPT !.view = IF entry.attempts >= MaxAttempts THEN "failed" ELSE @]
      BY <1>13 DEF ReconciledAbsent, MutationUncertain
    <2>2. e \in EntryStates /\ (e.view = "watching" => e.attempts < MaxAttempts \/ ~pane.open)
      <3>1. CASE e = ResetClock(entry) /\ ~pane.open
        BY <3>1, <1>c
      <3>2. CASE e = [entry EXCEPT !.view = IF entry.attempts >= MaxAttempts THEN "failed" ELSE @]
        <4>1. CASE entry.attempts >= MaxAttempts
          <5>1. e = [entry EXCEPT !.view = "failed"]
            BY <3>2, <4>1
          <5> QED BY <5>1, <1>t, EntryUpdates
        <4>2. CASE ~(entry.attempts >= MaxAttempts)
          <5>1. e = [entry EXCEPT !.view = entry.view]
            BY <3>2, <4>2
          <5>2. entry.attempts < MaxAttempts
            BY <4>2, <1>e
          <5> QED BY <5>1, <5>2, <1>t, <1>e, EntryUpdates
        <4> QED BY <4>1, <4>2
      <3> QED BY <2>1, <3>1, <3>2
    <2>3. /\ tracker' \in {"none", "pending", "claimed", "confirmed"}
          /\ sup' \in {"watching", "consuming", "waking", "settling", "settled", "stopped"}
          /\ sweep' = NoSweep /\ entry' = e /\ pane' = pane /\ UNCHANGED <<retired, endings, daemon>>
      BY <2>1, <1>t DEF CloseLeaves, Finish
    <2> QED BY <2>2, <2>3, SweepRests
  <1>14. CASE WriteLaneRetired
    <2>1. sweep.pc = "retired" /\ sweep' = NoSweep /\ UNCHANGED <<pane, entry, tracker, sup, retired, daemon>>
      BY <1>14 DEF WriteLaneRetired
    <2>2. endings.retired = 0 /\ endings \in [retired: 0..2, terminal: 0..2]
      BY <2>1 DEF LaneInv, AckedIsUntold, RetireOwn, RetireTypeOK
    <2>3. endings' \in [retired: 0..2, terminal: 0..2]
      BY <1>14, <2>2 DEF WriteLaneRetired
    <2>4. entry.view = "watching" => entry.attempts < MaxAttempts
      BY <2>1 DEF RetireOwn, AttemptsLeft
    <2> QED BY <2>1, <2>3, <2>4, PlainEntries DEF RetireOwn, RetireTypeOK, AttemptsLeft, Closing
  <1>15. CASE ConsumeAbsence \/ EmitPaneClosed \/ ConfirmedExpires
    BY <1>15, <1>t DEF ConsumeAbsence, EmitPaneClosed, ConfirmedExpires, worldVars, RetireOwn, RetireTypeOK,
                       AttemptsLeft
  <1>16. CASE SettleSupervisor
    <2>1. endings.terminal = 0 /\ endings \in [retired: 0..2, terminal: 0..2]
      BY <1>16 DEF SettleSupervisor, LaneInv, EndingsAreCounted, RetireOwn, RetireTypeOK
    <2>2. endings' \in [retired: 0..2, terminal: 0..2]
      BY <1>16, <2>1 DEF SettleSupervisor
    <2> QED BY <1>16, <2>2 DEF SettleSupervisor, worldVars, RetireOwn, RetireTypeOK, AttemptsLeft
  <1>17. CASE BeginShutdown \/ DrainSweep \/ StopSupervisors \/ CloseAndRelease
    BY <1>17, <1>t DEF BeginShutdown, DrainSweep, StopSupervisors, CloseAndRelease, DaemonGoes, worldVars,
                       RetireOwn, RetireTypeOK, AttemptsLeft, DaemonStates
  <1>18. CASE CrashDaemon \/ RestartDaemon
    <2>1. /\ sweep' = NoSweep /\ entry' = NoEntry /\ tracker' = "none" /\ retired' = FALSE
          /\ sup' \in {"watching", "consuming", "waking", "settling", "settled", "stopped"}
          /\ daemon' \in DaemonStates /\ UNCHANGED endings
      BY <1>18, <1>t DEF CrashDaemon, RestartDaemon, DaemonStates
    <2> QED BY <2>1, PlainEntries DEF RetireOwn, RetireTypeOK, AttemptsLeft, Closing
  <1> QED BY <1>1, <1>2, <1>3, <1>4, <1>5, <1>6, <1>7, <1>8, <1>9, <1>10, <1>11, <1>12, <1>13, <1>14,
             <1>15, <1>16, <1>17, <1>18 DEF RetireStep

(* The turn-control call, the hints, the world's own steps, the dying holders. *)

(* A step that changes the pane's content at most, and adds no writer's lock. *)
PaneOnly(new) ==
    /\ PaneMoves(new) /\ pressed' \subseteq pressed
    /\ landed' = landed \cup new
    /\ UNCHANGED <<lane, lock, fence, repeated, faults, lapsed>>

LEMMA PaneOnlyTypes ==
  ASSUME WorldTypeOK, cast' = cast, NEW new \in SUBSET Messages, PaneOnly(new)
  PROVE  WorldTypeOK'
  BY WorldTypes DEF WorldTypeOK, PaneOnly, PaneMoves

LEMMA WorldQuiet ==
  ASSUME WorldTypeOK, UNCHANGED worldVars
  PROVE  PaneOnly({})
  BY PaneStays DEF PaneOnly, worldVars

LEMMA ControlEffects ==
  ASSUME WorldTypeOK, ControlStep
  PROVE  PaneOnly({})
  <1>1. CASE DispatchKey
    BY <1>1, KeyMoves, Bounds DEF PaneOnly
  <1>2. CASE UNCHANGED worldVars
    BY <1>2, WorldQuiet
  <1>3. DispatchKey \/ UNCHANGED worldVars
    BY DEF ControlStep, PreState, FreshIdentity, IdentityRefused, WaitWindow, ConfirmExit, ConfirmStop,
           Unconfirmed, Ends
  <1> QED BY <1>1, <1>2, <1>3

LEMMA ControlTypes ==
  ASSUME WorldTypeOK, ControlTypeOK, ControlStep
  PROVE  ControlTypeOK'
  <1>p. pane.occ \in 0..MaxOccupants /\ pane.seq \in 0..MaxSeq
    BY Bounds DEF WorldTypeOK, PaneStates
  <1>1. CASE PreState
    BY <1>1, <1>p DEF PreState, ControlTypeOK, NoCtl, Operations
  <1>2. CASE FreshIdentity
    BY <1>2, <1>p DEF FreshIdentity, ControlTypeOK
  <1>3. CASE IdentityRefused \/ ConfirmExit \/ ConfirmStop \/ Unconfirmed
    BY <1>3 DEF IdentityRefused, ConfirmExit, ConfirmStop, Unconfirmed, Ends, ControlTypeOK
  <1>4. CASE DispatchKey
    BY <1>4 DEF DispatchKey, ControlTypeOK
  <1>5. CASE WaitWindow
    BY <1>5 DEF WaitWindow, ControlTypeOK
  <1> QED BY <1>1, <1>2, <1>3, <1>4, <1>5 DEF ControlStep

HintAction == EventFires \/ HintStep

LEMMA HintTypes ==
  ASSUME HintTypeOK, HintAction
  PROVE  HintTypeOK'
  <1> USE Names DEF HintTypeOK
  <1>1. ASSUME NEW m \in Hints, FireHint(m) PROVE HintTypeOK'
    BY <1>1 DEF FireHint
  <1>2. CASE OwnerNotIdle \/ HintSectionRefused \/ LeaveHintSection
    BY <1>2 DEF OwnerNotIdle, HintSectionRefused, LeaveHintSection, HintDropped
  <1>3. CASE WindowOver
    BY <1>3 DEF WindowOver
  <1>4. CASE ReadOwnerPane \/ EnterHintSection \/ PromptOwner \/ HintRefused
    BY <1>4 DEF ReadOwnerPane, EnterHintSection, PromptOwner, HintRefused
  <1> QED BY <1>1, <1>2, <1>3, <1>4 DEF HintAction, EventFires, HintStep

LEMMA SinkTypes ==
  ASSUME HintTypeOK, NEW d, hint' = SinkOf(d)
  PROVE  HintTypeOK'
  BY Names DEF HintTypeOK, SinkOf, NoHint

(* A hint takes the lock, writes its text, or gives the lock back. *)
HintLocks ==
    /\ UNCHANGED <<pane, turns, landed, lane, fence, pressed, repeated, faults, lapsed>>
    /\ lock' \in {lock, Nothing, hint.text}

LEMMA HintEffects ==
  ASSUME WorldTypeOK, HintTypeOK, HintAction
  PROVE  \/ PaneOnly({})
         \/ hint.text \in Hints /\ HintLocks
         \/ hint.text \in Hints /\ PromptOwner /\ PaneOnly({hint.text})
  <1> USE Names, Bounds
  <1>1. CASE UNCHANGED worldVars
    BY <1>1, WorldQuiet
  <1>2. CASE EnterHintSection \/ LeaveHintSection
    BY <1>2 DEF EnterHintSection, LeaveHintSection, TakeLock, DropLock, HintLocks, HintTypeOK
  <1>3. CASE PromptOwner
    <2>1. hint.text \in Hints /\ hint.text \in Messages
      BY <1>3 DEF PromptOwner, HintTypeOK
    <2>2. PaneMoves({hint.text}) /\ pressed' \subseteq pressed
      BY <1>3, <2>1, TextMoves DEF PromptOwner
    <2> QED BY <1>3, <2>1, <2>2 DEF PromptOwner, PaneOnly
  <1>4. \/ UNCHANGED worldVars \/ EnterHintSection \/ LeaveHintSection \/ PromptOwner
    BY DEF HintAction, EventFires, FireHint, HintStep, WindowOver, ReadOwnerPane, OwnerNotIdle,
           HintSectionRefused, HintRefused
  <1> QED BY <1>1, <1>2, <1>3, <1>4

LEMMA HintWorldTypes ==
  ASSUME WorldTypeOK, HintTypeOK, cast' = cast, HintAction
  PROVE  WorldTypeOK'
  <1>1. CASE PaneOnly({})
    BY <1>1, PaneOnlyTypes
  <1>2. CASE hint.text \in Hints /\ HintLocks
    <2>1. lock' \in Writers \cup {Nothing}
      BY <1>2, Names DEF HintLocks, Writers, WorldTypeOK
    <2> QED BY <1>2, <2>1, WorldTypes DEF HintLocks, WorldTypeOK
  <1>3. CASE hint.text \in Hints /\ PaneOnly({hint.text})
    <2>1. {hint.text} \in SUBSET Messages
      BY <1>3, Names
    <2> QED BY <1>3, <2>1, PaneOnlyTypes
  <1> QED BY <1>1, <1>2, <1>3, HintEffects

(* A step of the world: the agent's own, a close, the sidecar's. *)
LEMMA WorldEffects ==
  ASSUME WorldTypeOK, WorldStep
  PROVE  \/ PaneOnly({})
         \/ ClosedByOther
         \/ /\ UNCHANGED <<pane, turns, landed, lock, fence, pressed, repeated, faults, lapsed>>
            /\ lane' \in LaneStates /\ (lane.handed => lane'.handed)
            /\ SidecarFree /\ pane.open
  <1>1. CASE AgentStep
    BY <1>1, AgentMoves, Bounds DEF PaneOnly
  <1>2. CASE SidecarFree /\ ArtifactAccepted
    BY <1>2 DEF ArtifactAccepted, WorldTypeOK, LaneStates, Joins
  <1>3. CASE SidecarFree /\ CycleReopened
    BY <1>3 DEF CycleReopened, WorldTypeOK, LaneStates
  <1> QED BY <1>1, <1>2, <1>3 DEF WorldStep, AgentStep

LEMMA WorldStepTypes ==
  ASSUME WorldTypeOK, cast' = cast, WorldStep
  PROVE  WorldTypeOK'
  <1>1. CASE PaneOnly({})
    BY <1>1, PaneOnlyTypes
  <1>2. CASE ClosedByOther
    <2>1. pane' \in PaneStates
      BY <1>2 DEF ClosedByOther, WorldTypeOK, PaneStates
    <2> QED BY <1>2, <2>1, WorldTypes DEF ClosedByOther, WorldTypeOK
  <1>3. CASE /\ UNCHANGED <<pane, turns, landed, lock, fence, pressed, repeated, faults, lapsed>>
             /\ lane' \in LaneStates
    BY <1>3, WorldTypes DEF WorldTypeOK
  <1> QED BY <1>1, <1>2, <1>3, WorldEffects

LEMMA HolderDiesTypes ==
  ASSUME WorldTypeOK, cast' = cast, HolderDies
  PROVE  WorldTypeOK'
  <1>1. lock' \in Writers \cup {Nothing} /\ faults' \in 0..MaxFaults /\ lapsed' \in BOOLEAN
    BY Bounds DEF HolderDies, Fault, WorldTypeOK, ClosePastItsCheck, PastItsCheck
  <1> QED BY <1>1, WorldTypes DEF HolderDies, WorldTypeOK

-----------------------------------------------------------------------------
(* The types and the lane's end together. *)

LEMMA InitTypes == Init => TypeInv /\ LaneInv
  <1> SUFFICES ASSUME Init PROVE TypeInv /\ LaneInv
    OBVIOUS
  <1> USE Bounds, PlainStates, PlainEntries
          DEF Init, WorldInit, FlushInit, RetireInit, ControlInit, HintInit
  <1>1. WorldTypeOK /\ IsFiniteSet(fence.spent)
    <2>1. IsFiniteSet({}) /\ Cardinality({}) = 0
      BY FS_EmptySet
    <2>2. pane \in PaneStates /\ lane \in LaneStates
      BY DEF PaneStates, LaneStates
    <2>3. fence \in [occ: 0..MaxOccupants, spent: SUBSET Interiors] /\ faults \in 0..MaxFaults
      OBVIOUS
    <2>4. IsFiniteSet(fence.spent) /\ Cardinality(fence.spent) <= MaxSpent
      BY <2>1
    <2>5. cast \in Casts /\ turns \subseteq Messages /\ landed \subseteq Messages /\ pressed \subseteq Interiors
      OBVIOUS
    <2>6. lock \in Writers \cup {Nothing} /\ repeated \in BOOLEAN /\ lapsed \in BOOLEAN
      OBVIOUS
    <2> QED BY <2>2, <2>3, <2>4, <2>5, <2>6 DEF WorldTypeOK
  <1>2. FlushTypeOK /\ PressesLeft
    <2>1. NoSend \in SendStates
      BY DEF NoSend, SendStates
    <2> QED BY <2>1 DEF FlushTypeOK, PressesLeft
  <1>3. RetireTypeOK /\ AttemptsLeft
    <2>1. endings \in [retired: 0..2, terminal: 0..2]
      OBVIOUS
    <2>2. AttemptsLeft
      BY DEF AttemptsLeft, Closing
    <2> QED BY <2>1, <2>2 DEF RetireTypeOK, DaemonStates
  <1>4. ControlTypeOK
    BY DEF ControlTypeOK, NoCtl, Operations
  <1>5. HintTypeOK
    BY DEF HintTypeOK, NoHint
  <1>6. LaneInv
    BY DEF LaneInv, BusyIsUp, StoppedIsFinal, OpenIsUntold, LedgerFollowsClose, AckedIsUntold,
           ClosedIsHanded, EndingsAreCounted
  <1> QED BY <1>1, <1>2, <1>3, <1>4, <1>5, <1>6 DEF TypeInv, TypeOK

LEMMA KeptTypes ==
  ASSUME RetireOwn, UNCHANGED retireVars, pane'.open = pane.open
  PROVE  RetireOwn'
  BY DEF RetireOwn, RetireTypeOK, AttemptsLeft, retireVars

LEMMA ClosedKeeps ==
  ASSUME WorldTypeOK, RetireOwn, LaneInv, UNCHANGED retireVars, ClosedByOther
  PROVE  RetireOwn' /\ LaneInv'
  <1>1. pane'.open = FALSE /\ pane.open /\ UNCHANGED lane
    BY DEF ClosedByOther, WorldTypeOK, PaneStates
  <1>2. RetireOwn'
    BY <1>1 DEF RetireOwn, RetireTypeOK, AttemptsLeft, retireVars
  <1>3. LaneInv'
    BY <1>1 DEF LaneInv, retireVars, BusyIsUp, StoppedIsFinal, OpenIsUntold, LedgerFollowsClose,
         AckedIsUntold, ClosedIsHanded, EndingsAreCounted
  <1> QED BY <1>2, <1>3

LEMMA TypesStep == TypeInv /\ LaneInv /\ [Next]_vars => TypeInv' /\ LaneInv'
  <1> SUFFICES ASSUME TypeInv, LaneInv, [Next]_vars PROVE TypeInv' /\ LaneInv'
    OBVIOUS
  <1>t. /\ WorldTypeOK /\ FlushTypeOK /\ RetireTypeOK /\ ControlTypeOK /\ HintTypeOK
        /\ IsFiniteSet(fence.spent) /\ PressesLeft /\ AttemptsLeft
    BY DEF TypeInv, TypeOK
  <1>o. FlushOwn /\ RetireOwn
    BY <1>t DEF FlushOwn, RetireOwn
  <1>g. ASSUME WorldTypeOK', FlushOwn', RetireOwn', ControlTypeOK', HintTypeOK', IsFiniteSet(fence'.spent)
        PROVE  TypeInv'
    BY <1>g DEF TypeInv, TypeOK, FlushOwn, RetireOwn
  <1>f. ASSUME UNCHANGED flushVars PROVE FlushOwn'
    BY <1>o, <1>f DEF FlushOwn, FlushTypeOK, PressesLeft, flushVars
  <1>c. ASSUME UNCHANGED ctl PROVE ControlTypeOK'
    BY <1>t, <1>c DEF ControlTypeOK
  <1>h. ASSUME UNCHANGED hint PROVE HintTypeOK'
    BY <1>t, <1>h DEF HintTypeOK
  <1>1. ASSUME WorldStep, UNCHANGED cast, UNCHANGED <<flushVars, retireVars, ctl, hint>>
        PROVE  TypeInv' /\ LaneInv'
    <2>1. WorldTypeOK' /\ FlushOwn' /\ ControlTypeOK' /\ HintTypeOK'
      BY <1>1, <1>t, <1>f, <1>c, <1>h, WorldStepTypes
    <2>2. UNCHANGED fence
      BY <1>1, <1>t, WorldEffects DEF PaneOnly, ClosedByOther
    <2>3. RetireOwn' /\ LaneInv'
      <3>1. CASE ClosedByOther
        BY <1>1, <3>1, <1>t, <1>o, ClosedKeeps
      <3>2. CASE /\ pane'.open = pane.open /\ pane'.closer = pane.closer
                 /\ lane.handed => lane'.handed
        BY <1>1, <3>2, <1>o, KeptTypes, KeptLane DEF LaneKept
      <3> QED BY <1>1, <1>t, <3>1, <3>2, WorldEffects DEF PaneOnly, PaneMoves
    <2> QED BY <2>1, <2>2, <2>3, <1>g, <1>t
  <1>2. ASSUME FlushStep, UNCHANGED cast, UNCHANGED <<retireVars, ctl, hint>>
        PROVE  TypeInv' /\ LaneInv'
    <2>1. FlushOwn'
      BY <1>2, <1>t, <1>o, FlushOwnTypes
    <2>2. ControlTypeOK' /\ HintTypeOK'
      BY <1>2, <1>c, <1>h
    <2>3. /\ WorldTypeOK' /\ IsFiniteSet(fence'.spent) /\ UNCHANGED lane
          /\ pane'.open = pane.open /\ pane'.closer = pane.closer
      BY <1>2, FlushWorldTypes
    <2>4. RetireOwn' /\ LaneInv'
      BY <1>2, <2>3, <1>o, KeptTypes, KeptLane DEF LaneKept
    <2> QED BY <2>1, <2>2, <2>3, <2>4, <1>g
  <1>3. ASSUME RetireStep, hint' = SinkOf(daemon'), UNCHANGED cast, UNCHANGED <<flushVars, ctl>>
        PROVE  TypeInv' /\ LaneInv'
    <2>1. RetireOwn' /\ LaneInv'
      BY <1>3, <1>t, <1>o, RetireOwnTypes, RetireStepLane
    <2>2. FlushOwn' /\ ControlTypeOK'
      BY <1>3, <1>f, <1>c
    <2>3. WorldTypeOK' /\ UNCHANGED fence
      BY <1>3, <1>t, RetireWorldTypes, RetireEffects
    <2>4. HintTypeOK'
      BY <1>3, <1>t, SinkTypes
    <2> QED BY <2>1, <2>2, <2>3, <2>4, <1>g, <1>t
  <1>4. ASSUME HintAction, UNCHANGED cast, UNCHANGED <<flushVars, retireVars, ctl>>
        PROVE  TypeInv' /\ LaneInv'
    <2>1. WorldTypeOK' /\ HintTypeOK'
      BY <1>4, <1>t, HintWorldTypes, HintTypes
    <2>2. FlushOwn' /\ ControlTypeOK'
      BY <1>4, <1>f, <1>c
    <2>3. /\ UNCHANGED <<fence, lane>>
          /\ pane'.open = pane.open /\ pane'.closer = pane.closer
      BY <1>4, <1>t, HintEffects DEF PaneOnly, PaneMoves, HintLocks
    <2>4. RetireOwn' /\ LaneInv'
      BY <1>4, <2>3, <1>o, KeptTypes, KeptLane DEF LaneKept
    <2> QED BY <2>1, <2>2, <2>3, <2>4, <1>g, <1>t
  <1>5. ASSUME ControlStep, UNCHANGED cast, UNCHANGED <<flushVars, retireVars, hint>>
        PROVE  TypeInv' /\ LaneInv'
    <2>1. ControlTypeOK' /\ PaneOnly({})
      BY <1>5, <1>t, ControlTypes, ControlEffects
    <2>2. WorldTypeOK'
      BY <1>5, <1>t, <2>1, PaneOnlyTypes
    <2>3. FlushOwn' /\ HintTypeOK'
      BY <1>5, <1>f, <1>h
    <2>4. RetireOwn' /\ LaneInv'
      BY <1>5, <2>1, <1>o, KeptTypes, KeptLane DEF LaneKept, PaneOnly, PaneMoves
    <2> QED BY <2>1, <2>2, <2>3, <2>4, <1>g, <1>t DEF PaneOnly
  <1>6. ASSUME HolderDies, UNCHANGED cast
        PROVE  TypeInv' /\ LaneInv'
    <2>1. UNCHANGED <<pane, lane, fence, flushVars, retireVars, ctl, hint>>
      BY <1>6 DEF HolderDies
    <2>2. WorldTypeOK' /\ FlushOwn' /\ ControlTypeOK' /\ HintTypeOK'
      BY <1>6, <1>t, <2>1, <1>f, <1>c, <1>h, HolderDiesTypes
    <2>3. RetireOwn' /\ LaneInv'
      BY <2>1, <1>o, KeptTypes, KeptLane DEF LaneKept
    <2> QED BY <2>1, <2>2, <2>3, <1>g, <1>t
  <1>7. ASSUME UNCHANGED vars PROVE TypeInv' /\ LaneInv'
    <2>1. UNCHANGED <<cast, worldVars, flushVars, retireVars, ctl, hint>>
      BY <1>7 DEF vars
    <2>2. WorldTypeOK'
      BY <1>t, <2>1 DEF WorldTypeOK, worldVars
    <2>3. FlushOwn' /\ ControlTypeOK' /\ HintTypeOK'
      BY <2>1, <1>f, <1>c, <1>h
    <2>4. RetireOwn' /\ LaneInv'
      BY <2>1, <1>o, KeptTypes, KeptLane DEF LaneKept, worldVars
    <2> QED BY <2>1, <2>2, <2>3, <2>4, <1>g, <1>t DEF worldVars
  <1> QED BY <1>1, <1>2, <1>3, <1>4, <1>5, <1>6, <1>7 DEF Next, HintAction

LEMMA TypesAndLane == Spec => [](TypeInv /\ LaneInv)
  BY InitTypes, TypesStep, PTL DEF Spec

(* The variables of every actor at the pane keep their types: no flush       *)
(* presses more often than DEVIN_QUEUE_FLUSH_MAX_PRESSES, the fence never     *)
(* outgrows its file, no lane is dispatched a close past its attempts, and no *)
(* close is deferred past its bound.                                          *)
THEOREM PaneTypes == Spec => []TypeOK
  <1>1. TypeInv => TypeOK
    BY DEF TypeInv
  <1> QED BY <1>1, TypesAndLane, PTL

(* The owner hears of a lane's end once, however the supervisor's look, the   *)
(* close, its readback, the marker, crashes and restarts interleave.          *)
THEOREM LaneEndsAtMostOnce == Spec => []LaneEndsOnce
  <1>1. LaneInv => LaneEndsOnce
    BY DEF LaneInv, EndingsAreCounted, LaneEndsOnce
  <1> QED BY <1>1, TypesAndLane, PTL

(* A sweep closes the pane and tells the owner only while its daemon is up or *)
(* draining: never beside a second daemon.                                    *)
THEOREM SweepsActInTime == Spec => SweepActsInTime
  <1> DEFINE InTime == (pane.closer # "retirer" /\ pane'.closer = "retirer") \/ endings'.retired # endings.retired
                         => daemon \in {"up", "draining"}
  <1>1. ASSUME TypeInv, LaneInv, [Next]_vars PROVE [InTime]_vars
    <2>t. WorldTypeOK /\ RetireTypeOK /\ HintTypeOK /\ BusyIsUp /\ TypeInv
      BY <1>1 DEF TypeInv, TypeOK, LaneInv
    <2>1. CASE RetireStep
      <3>1. CASE DispatchClose \/ WriteLaneRetired
        BY <3>1, <2>t DEF DispatchClose, WriteLaneRetired, BusyIsUp
      <3>2. CASE SettleSupervisor
        BY <3>2, <2>t DEF SettleSupervisor, worldVars, RetireTypeOK
      <3>3. CASE ~DispatchClose /\ ~WriteLaneRetired /\ ~SettleSupervisor
        <4>1. UNCHANGED <<pane, endings>>
          BY <2>1, <3>3 DEF RetireStep, worldVars, SweepTick, EvaluateIdle, ScreenUnreadable, ObserveClock,
             HeldBack, Eligible, TakePaneLock, PaneLockUnavailable, TakeRunFlock, RunFlockUnavailable,
             RecheckRecords, RecheckScreen, RecheckLease, RecheckTrace, ReadbackProves, ReconciledAbsent,
             MutationUncertain, ConsumeAbsence, EmitPaneClosed, ConfirmedExpires, BeginShutdown, DrainSweep,
             StopSupervisors, CloseAndRelease, CrashDaemon, RestartDaemon, SweepEnds, SweepGoes, Settles,
             CloseLeaves, DaemonGoes
        <4> QED BY <4>1
      <3> QED BY <3>1, <3>2, <3>3
    <2>2. CASE ~RetireStep
      <3>0. UNCHANGED retireVars
        BY <1>1, <2>2 DEF Next, HolderDies, vars
      <3>1. pane'.closer = pane.closer \/ pane'.closer = "other"
        <4>1. CASE WorldStep
          BY <4>1, <2>t, WorldEffects DEF PaneOnly, PaneMoves, ClosedByOther, WorldTypeOK, PaneStates
        <4>2. CASE FlushStep /\ UNCHANGED cast
          BY <4>2, <2>t, FlushWorldTypes
        <4>3. CASE HintAction
          BY <4>3, <2>t, HintEffects DEF PaneOnly, PaneMoves, HintLocks
        <4>4. CASE ControlStep
          BY <4>4, <2>t, ControlEffects DEF PaneOnly, PaneMoves
        <4>5. CASE HolderDies \/ UNCHANGED vars
          BY <4>5 DEF HolderDies, vars, worldVars
        <4> QED BY <1>1, <2>2, <4>1, <4>2, <4>3, <4>4, <4>5 DEF Next, HintAction
      <3> QED BY <3>0, <3>1 DEF retireVars
    <2> QED BY <2>1, <2>2
  <1> QED BY <1>1, TypesAndLane, PTL DEF Spec, SweepActsInTime

-----------------------------------------------------------------------------
(* The lock, step by step. *)

(* A prompt's delivery and its key section change one at a time. *)
LEMMA DeliveryStep ==
  ASSUME TypeInv, OneDelivery, FlushStep
  PROVE  OneDelivery'
  <1> USE Names
  <1>s. /\ send \in [Messages -> SendStates] /\ key \in [Messages \cup Hosts -> KeyStates]
        /\ \A m \in Messages : send[m] \in SendStates
        /\ \A w \in Messages \cup Hosts : key[w] \in KeyStates
    BY DEF TypeInv, TypeOK, FlushTypeOK
  <1>n. NoKey.pc = "idle" /\ NoSend.pc = "idle" /\ NoSend.host = Nothing
    BY DEF NoKey, NoSend
  <1>1. ASSUME NEW m \in Messages, key[m].pc = "idle", m \notin Hints, UNCHANGED key,
               \A n \in Messages : n # m => send'[n] = send[n]
        PROVE  OneDelivery'
    BY <1>1 DEF OneDelivery
  <1>2. ASSUME NEW m \in Messages, NEW h \in Hosts, ResolveTarget(m, h) PROVE OneDelivery'
    BY <1>1, <1>2, <1>s DEF ResolveTarget, OneDelivery
  <1>3. ASSUME NEW m \in Messages,
               \/ RawWrite(m) \/ EnterSection(m) \/ SectionRefused(m) \/ FreshTargetRefused(m)
               \/ WritePrompt(m) \/ PromptRejected(m) \/ LeaveSection(m) \/ VerifyFreshPromptTarget(m)
        PROVE OneDelivery'
    <2>1. send[m].pc # "unsent" /\ m \notin Hints
      BY <1>3, <1>n DEF RawWrite, EnterSection, SectionRefused, FreshTargetRefused, WritePrompt, PromptRejected,
                  LeaveSection, VerifyFreshPromptTarget, OneDelivery
    <2>2. UNCHANGED key /\ \A n \in Messages : n # m => send'[n] = send[n]
      BY <1>3, <1>s DEF RawWrite, EnterSection, SectionRefused, FreshTargetRefused, WritePrompt, PromptRejected,
                  LeaveSection, VerifyFreshPromptTarget, StepSend
    <2> QED BY <2>1, <2>2, <1>1 DEF OneDelivery
  <1>4. ASSUME NEW m \in Messages, ConsumptionSeen(m) PROVE OneDelivery'
    BY <1>1, <1>4, <1>s, <1>n DEF ConsumptionSeen, StepSend, OneDelivery
  <1>5. ASSUME NEW h \in Hosts, CycleStarts(h) \/ WaitReturns(h) \/ WaitFails(h) PROVE OneDelivery'
    BY <1>5 DEF CycleStarts, WaitReturns, WaitFails, OneDelivery
  <1>6. ASSUME NEW h \in Hosts, CrashHost(h) PROVE OneDelivery'
    <2> DEFINE own == {m \in Messages : send[m].host = h /\ send[m].pc # "done"}
    <2>1. /\ \A m \in Messages : m \notin own => send'[m] = send[m] /\ key'[m] = key[m]
          /\ \A m \in Messages : m \in own => key'[m] = NoKey
      BY <1>6 DEF CrashHost
    <2>2. \A m \in Hints : m \notin own
      BY <1>n DEF OneDelivery
    <2> QED BY <2>1, <2>2, <1>n DEF OneDelivery
  <1>7. ASSUME NEW w \in Messages \cup Hosts, UNCHANGED send,
               \A v \in Messages \cup Hosts : v # w => key'[v] = key[v],
               key[w].pc # "idle" \/ w \in Hosts \/ send[w].pc = "unsent"
        PROVE  OneDelivery'
    BY <1>7 DEF OneDelivery
  <1>8. ASSUME NEW w \in Messages \cup Hosts,
               \/ TakeKeySection(w) \/ ReadCandidate(w) \/ JoinOccupant(w) \/ RearmFence(w) \/ ReadFinal(w)
               \/ CheckFence(w) \/ RecordSpent(w) \/ SendEnter(w)
        PROVE  OneDelivery'
    <2>1. UNCHANGED send /\ \A v \in Messages \cup Hosts : v # w => key'[v] = key[v]
      BY <1>8, <1>s DEF TakeKeySection, ReadCandidate, JoinOccupant, RearmFence, ReadFinal, CheckFence,
                        RecordSpent, SendEnter, StepKey
    <2>2. key[w].pc # "idle" \/ w \in Hosts \/ send[w].pc = "unsent"
      BY <1>8 DEF TakeKeySection, ReadCandidate, JoinOccupant, RearmFence, ReadFinal, CheckFence,
                        RecordSpent, SendEnter, WantsKey
    <2> QED BY <2>1, <2>2, <1>7
  <1>9. ASSUME NEW w \in Messages \cup Hosts, LeaveKeySection(w) PROVE OneDelivery'
    <2>1. key[w].pc # "idle" /\ key' = [key EXCEPT ![w] = NoKey]
      BY <1>9 DEF LeaveKeySection, Refused
    <2>2. CASE w \in Hosts
      BY <1>9, <2>1, <2>2, <1>7, <1>s DEF LeaveKeySection
    <2>3. CASE w \notin Hosts
      <3>1. w \in Messages /\ send[w].pc = "unsent" /\ w \notin Hints
        BY <2>1, <2>3, <1>n DEF OneDelivery
      <3>2. /\ \A n \in Messages : n # w => send'[n] = send[n] /\ key'[n] = key[n]
            /\ key'[w] = NoKey
        BY <1>9, <2>1, <2>3, <1>s DEF LeaveKeySection, StepSend
      <3> QED BY <3>1, <3>2, <1>n DEF OneDelivery
    <2> QED BY <2>2, <2>3
  <1>10. ASSUME NEW w \in Messages \cup Hosts, KeySectionRefused(w) PROVE OneDelivery'
    <2>1. CASE w \in Hosts
      BY <1>10, <2>1 DEF KeySectionRefused, OneDelivery
    <2>2. CASE w \notin Hosts
      BY <1>10, <2>2, <1>1, <1>s, <1>n DEF KeySectionRefused, WantsKey, StepSend, OneDelivery
    <2> QED BY <2>1, <2>2
  <1> QED BY <1>2, <1>3, <1>4, <1>5, <1>6, <1>8, <1>9, <1>10 DEF FlushStep

(* Who writes still holds the lock after a step of the prompts and keys. *)
LEMMA FlushWritersHold ==
  ASSUME TypeInv, OneDelivery, WritersHold, FlushStep, UNCHANGED <<hint, sweep>>
  PROVE  WritersHold'
  <1> USE Names
  <1>s. /\ send \in [Messages -> SendStates] /\ key \in [Messages \cup Hosts -> KeyStates]
        /\ \A m \in Messages : send[m] \in SendStates
    BY DEF TypeInv, TypeOK, FlushTypeOK
  <1>n. NoKey.pc = "idle" /\ NoSend.pc = "idle" /\ NoSend.host = Nothing
    BY DEF NoKey, NoSend
  <1>h. hint.pc = "locked" => hint.text \in Hints /\ send[hint.text] = NoSend
    BY DEF TypeInv, TypeOK, HintTypeOK, OneDelivery
  <1>l. lapsed' = lapsed
    BY FlushEffects DEF FlushQuiet, RawWrite, WritePrompt, RearmFence, RecordSpent, SendEnter, CrashHost
  \* A step that keeps the lock of everyone who relies on it.
  <1>1. ASSUME \A m \in Messages : send'[m].pc \in {"locked", "verified"} =>
                 \/ send[m].pc \in {"locked", "verified"} /\ (lock = m => lock' = m)
                 \/ lock' = m,
               hint.pc = "locked" /\ lock = hint.text => lock' = lock,
               lock = Retirer => lock' = lock
        PROVE  WritersHold'
    BY <1>1, <1>l DEF WritersHold
  <1>2. ASSUME NEW m \in Messages, NEW h \in Hosts, ResolveTarget(m, h) PROVE WritersHold'
    BY <1>1, <1>2, <1>s DEF ResolveTarget, worldVars
  <1>3. ASSUME NEW m \in Messages,
               \/ RawWrite(m) \/ SectionRefused(m) \/ FreshTargetRefused(m)
               \/ WritePrompt(m) \/ PromptRejected(m) \/ VerifyFreshPromptTarget(m) \/ ConsumptionSeen(m)
        PROVE WritersHold'
    <2>1. lock' = lock
      BY <1>3 DEF RawWrite, SectionRefused, FreshTargetRefused, WritePrompt, PromptRejected,
                  VerifyFreshPromptTarget, ConsumptionSeen, worldVars
    <2>2. \A n \in Messages : n # m => send'[n] = send[n]
      BY <1>3, <1>s DEF RawWrite, SectionRefused, FreshTargetRefused, WritePrompt, PromptRejected,
                  VerifyFreshPromptTarget, ConsumptionSeen, StepSend
    <2>3. send'[m].pc \in {"locked", "verified"} => send[m].pc \in {"locked", "verified"}
      BY <1>3, <1>s DEF RawWrite, SectionRefused, FreshTargetRefused, WritePrompt, PromptRejected,
                  VerifyFreshPromptTarget, ConsumptionSeen, StepSend, SendStates
    <2> QED BY <2>1, <2>2, <2>3, <1>1
  <1>4. ASSUME NEW m \in Messages, EnterSection(m) PROVE WritersHold'
    <2>1. lock = Nothing /\ lock' = m /\ \A n \in Messages : n # m => send'[n] = send[n]
      BY <1>4, <1>s DEF EnterSection, TakeLock, StepSend
    <2> QED BY <2>1, <1>1, <1>h
  <1>5. ASSUME NEW m \in Messages, LeaveSection(m) PROVE WritersHold'
    <2>1. /\ lock' = IF lock = m THEN Nothing ELSE lock
          /\ \A n \in Messages : n # m => send'[n] = send[n]
          /\ send'[m].pc \in {"unsent", "done"} /\ send[m].pc # "idle"
      BY <1>5, <1>s DEF LeaveSection, DropLock, StepSend, SendStates
    <2> QED BY <2>1, <1>1, <1>h, <1>n
  <1>6. ASSUME NEW h \in Hosts, CycleStarts(h) \/ WaitReturns(h) \/ WaitFails(h) PROVE WritersHold'
    BY <1>1, <1>6 DEF CycleStarts, WaitReturns, WaitFails, worldVars
  <1>7. ASSUME NEW h \in Hosts, CrashHost(h) PROVE WritersHold'
    <2> DEFINE own == {m \in Messages : send[m].host = h /\ send[m].pc # "done"}
    <2>1. /\ \A m \in Messages : m \notin own => send'[m] = send[m]
          /\ \A m \in Messages : m \in own => send'[m].pc = "done"
          /\ lock' = IF lock \in own \cup {h} THEN Nothing ELSE lock
      BY <1>7, <1>s DEF CrashHost, SendStates
    <2>2. hint.pc = "locked" => hint.text \notin own /\ hint.text \in Messages
      BY <1>h, <1>n
    <2>3. own \subseteq Messages
      OBVIOUS
    <2> HIDE DEF own
    <2> QED BY <2>1, <2>2, <2>3, <1>1
  <1>8. ASSUME NEW w \in Messages \cup Hosts,
               \/ ReadCandidate(w) \/ JoinOccupant(w) \/ RearmFence(w) \/ ReadFinal(w)
               \/ CheckFence(w) \/ RecordSpent(w) \/ SendEnter(w)
        PROVE  WritersHold'
    BY <1>1, <1>8 DEF ReadCandidate, JoinOccupant, RearmFence, ReadFinal, CheckFence, RecordSpent,
                      SendEnter, worldVars
  <1>9. ASSUME NEW w \in Messages \cup Hosts, TakeKeySection(w) PROVE WritersHold'
    <2>1. lock = Nothing /\ send' = send
      BY <1>9 DEF TakeKeySection, TakeLock
    <2> QED BY <2>1, <1>1, <1>h
  <1>10. ASSUME NEW w \in Messages \cup Hosts, LeaveKeySection(w) PROVE WritersHold'
    <2>1. key[w].pc # "idle" /\ lock' = IF lock = w THEN Nothing ELSE lock
      BY <1>10 DEF LeaveKeySection, Refused, DropLock
    <2>2. w \in Messages => send[w].pc = "unsent"
      BY <2>1 DEF OneDelivery
    <2>3. \A n \in Messages : n # w => send'[n] = send[n]
      BY <1>10, <1>s DEF LeaveKeySection, StepSend
    <2>4. w \in Messages => send'[w].pc = "done"
      BY <1>10, <1>s DEF LeaveKeySection, StepSend, SendStates
    <2> QED BY <2>1, <2>2, <2>3, <2>4, <1>1, <1>h, <1>n
  <1>11. ASSUME NEW w \in Messages \cup Hosts, KeySectionRefused(w) PROVE WritersHold'
    <2>1. lock' = lock
      BY <1>11 DEF KeySectionRefused, worldVars
    <2>2. \A n \in Messages : send'[n].pc \in {send[n].pc, "done"}
      BY <1>11, <1>s DEF KeySectionRefused, StepSend, SendStates
    <2> QED BY <2>1, <2>2, <1>1
  <1> QED BY <1>2, <1>3, <1>4, <1>5, <1>6, <1>7, <1>8, <1>9, <1>10, <1>11 DEF FlushStep

LEMMA SweepStarts ==
  /\ \A x : [NoSweep EXCEPT !.pc = "snapped", !.snap = x].pc = "snapped"
  /\ [NoSweep EXCEPT !.pc = "eligible"].pc = "eligible"
  /\ NoSweep.pc = "idle"
  BY DEF NoSweep

LEMMA RetireWritersHold ==
  ASSUME TypeInv, OneDelivery, WritersHold, RetireStep, hint' = SinkOf(daemon'), UNCHANGED send
  PROVE  WritersHold'
  <1> USE Names
  <1>n. NoSend.pc = "idle"
    BY DEF NoSend
  <1>s. sweep \in SweepStates /\ NoSweep.pc = "idle"
    BY PlainEntries DEF TypeInv, TypeOK, RetireTypeOK
  <1>h. hint.pc = "locked" => hint.text \in Hints /\ hint.text \in Messages
    BY DEF TypeInv, TypeOK, HintTypeOK
  <1>k. hint'.pc = "locked" => hint' = hint
    BY DEF SinkOf, NoHint
  <1>l. lapsed' = lapsed
    BY RetireEffects
  <1>1. ASSUME lock' = lock, sweep'.pc \in {"leased", "proved"} => sweep.pc \in {"leased", "proved"} \/ lock = Retirer
        PROVE  WritersHold'
    BY <1>1, <1>k, <1>l DEF WritersHold
  <1>2. ASSUME lock' = Nothing, lock = Retirer \/ (lock \in Hints /\ hint'.pc # "locked"),
               sweep'.pc \notin {"leased", "proved"}
        PROVE  WritersHold'
    BY <1>2, <1>k, <1>l, <1>h, <1>n DEF WritersHold, OneDelivery
  <1>3. CASE TakePaneLock
    <2>1. lock = Nothing /\ sweep'.pc = "locked"
      BY <1>3, <1>s DEF TakePaneLock, TakeLock, SweepGoes, SweepStates
    <2> QED BY <2>1, <1>k, <1>l, <1>h DEF WritersHold
  <1>4. CASE TakeRunFlock
    <2>1. lock' = lock /\ sweep'.pc = "flocked"
      BY <1>4, <1>s DEF TakeRunFlock, SweepGoes, SweepStates
    <2> QED BY <2>1, <1>1
  <1>5. ASSUME DropLock(Retirer), sweep' = NoSweep PROVE WritersHold'
    BY <1>5, <1>1, <1>2, <1>s DEF DropLock
  <1>6. CASE RunFlockUnavailable \/ ReconciledAbsent \/ MutationUncertain \/ WriteLaneRetired
    BY <1>6, <1>5 DEF RunFlockUnavailable, ReconciledAbsent, MutationUncertain, WriteLaneRetired, Settles,
                      CloseLeaves
  <1>7. CASE RecheckRecords
    <2>1. (lock' = lock /\ sweep' = [sweep EXCEPT !.pc = "records"]) \/ (DropLock(Retirer) /\ sweep' = NoSweep)
      BY <1>7 DEF RecheckRecords, Settles, SweepGoes
    <2> QED BY <2>1, <1>1, <1>5, <1>s DEF SweepStates
  <1>8. CASE RecheckScreen \/ RecheckLease \/ RecheckTrace
    <2>1. \/ lock' = lock /\ sweep' = [sweep EXCEPT !.pc = "screen"]
          \/ lock' = lock /\ lock = Retirer /\ sweep' = [sweep EXCEPT !.pc = "leased"]
          \/ lock' = lock /\ sweep.pc = "leased" /\ sweep' = [sweep EXCEPT !.pc = "proved"]
          \/ DropLock(Retirer) /\ sweep' = NoSweep
      BY <1>8 DEF RecheckScreen, RecheckLease, RecheckTrace, Settles, SweepGoes, LeaseHolds
    <2> QED BY <2>1, <1>1, <1>5, <1>s DEF SweepStates
  <1>9. CASE CrashDaemon
    <2>1. sweep' = NoSweep /\ hint' = NoHint /\ lock' = IF lock \in DaemonWriters THEN Nothing ELSE lock
      BY <1>9 DEF CrashDaemon, SinkOf
    <2> QED BY <2>1, <1>1, <1>2, <1>s DEF DaemonWriters, NoHint
  <1>10. CASE \/ SweepTick \/ EvaluateIdle \/ ScreenUnreadable \/ ObserveClock \/ HeldBack \/ Eligible
              \/ PaneLockUnavailable
    <2>1. lock' = lock /\ (sweep' = NoSweep \/ (\E h \in Holds : sweep' = [NoSweep EXCEPT !.pc = "snapped", !.snap = Snapped(h)])
                             \/ sweep' = [NoSweep EXCEPT !.pc = "eligible"])
      BY <1>10 DEF SweepTick, EvaluateIdle, ScreenUnreadable, ObserveClock, HeldBack, Eligible,
                   PaneLockUnavailable, SweepEnds, worldVars
    <2>2. sweep'.pc \in {"idle", "snapped", "eligible"}
      BY <2>1, SweepStarts
    <2> QED BY <2>1, <2>2, <1>1
  <1>11. CASE DispatchClose \/ ReadbackProves
    <2>1. lock' = lock /\ sweep'.pc \in {"dispatched", "retired"}
      BY <1>11, <1>s DEF DispatchClose, ReadbackProves, worldVars, SweepStates
    <2> QED BY <2>1, <1>1
  <1>12. CASE \/ ConsumeAbsence \/ EmitPaneClosed \/ ConfirmedExpires \/ SettleSupervisor
              \/ BeginShutdown \/ DrainSweep \/ StopSupervisors \/ CloseAndRelease
    <2>1. lock' = lock /\ sweep' = sweep
      BY <1>12 DEF ConsumeAbsence, EmitPaneClosed, ConfirmedExpires, SettleSupervisor, BeginShutdown, DrainSweep,
                   StopSupervisors, CloseAndRelease, DaemonGoes, worldVars
    <2> QED BY <2>1, <1>1
  <1>13. CASE RestartDaemon
    BY <1>13, <1>1, <1>s DEF RestartDaemon, worldVars
  <1> QED BY <1>3, <1>4, <1>6, <1>7, <1>8, <1>9, <1>10, <1>11, <1>12, <1>13 DEF RetireStep

LEMMA HintWritersHold ==
  ASSUME TypeInv, OneDelivery, WritersHold, HintAction, UNCHANGED <<send, sweep>>
  PROVE  WritersHold'
  <1> USE Names
  <1>n. NoSend.pc = "idle"
    BY DEF NoSend
  <1>h. hint.pc # "idle" => hint.text \in Hints
    BY DEF TypeInv, TypeOK, HintTypeOK
  <1>t. hint \in [pc: {"idle", "reading", "unsent", "locked", "written"},
                  text: Hints \cup {Nothing}, sent: BOOLEAN]
    BY DEF TypeInv, TypeOK, HintTypeOK
  <1>1. CASE EnterHintSection
    <2>1. lock = Nothing /\ lock' = hint.text /\ hint'.text = hint.text /\ lapsed' = lapsed
      BY <1>1, <1>t DEF EnterHintSection, TakeLock
    <2> QED BY <2>1 DEF WritersHold
  <1>2. CASE LeaveHintSection
    <2>1. /\ lock' = (IF lock = hint.text THEN Nothing ELSE lock) /\ hint'.pc = "idle" /\ lapsed' = lapsed
          /\ hint.text \in Hints
      BY <1>2, <1>t, <1>h DEF LeaveHintSection, DropLock, HintDropped
    <2> QED BY <2>1, <1>n DEF WritersHold, OneDelivery
  <1>3. CASE \/ \E m \in Hints : FireHint(m)
             \/ WindowOver \/ ReadOwnerPane \/ OwnerNotIdle \/ HintSectionRefused \/ PromptOwner \/ HintRefused
    <2>1. /\ lock' = lock /\ lapsed' = lapsed
          /\ hint'.pc = "locked" => hint.pc = "locked" /\ hint'.text = hint.text
      BY <1>3, <1>t DEF FireHint, WindowOver, ReadOwnerPane, OwnerNotIdle, HintSectionRefused, PromptOwner,
                        HintRefused, HintDropped, worldVars
    <2> QED BY <2>1 DEF WritersHold
  <1> QED BY <1>1, <1>2, <1>3 DEF HintAction, EventFires, HintStep

LEMMA DeathWritersHold ==
  ASSUME TypeInv, OneDelivery, WritersHold, HolderDies
  PROVE  WritersHold'
  <1> USE Names
  <1>1. UNCHANGED <<send, hint, sweep>>
    BY DEF HolderDies, flushVars, retireVars
  <1>h. hint.pc = "locked" => hint.text \in Messages
    BY DEF TypeInv, TypeOK, HintTypeOK
  <1>2. lapsed' = (lapsed \/ IF lock = Retirer THEN ClosePastItsCheck
                          ELSE PastItsCheck(lock) \/ (lock = hint.text /\ hint.pc = "locked"))
    BY DEF HolderDies
  <1>3. ASSUME NEW m \in Messages, send[m].pc \in {"locked", "verified"}, ~lapsed' PROVE FALSE
    BY <1>2, <1>3 DEF WritersHold, PastItsCheck
  <1>4. ASSUME hint.pc = "locked", ~lapsed' PROVE FALSE
    BY <1>2, <1>4, <1>h DEF WritersHold
  <1>5. ASSUME sweep.pc \in {"leased", "proved"}, ~lapsed' PROVE FALSE
    BY <1>2, <1>5 DEF WritersHold, ClosePastItsCheck
  <1> QED BY <1>1, <1>3, <1>4, <1>5 DEF WritersHold

(* The text that a step of the pane leaves in the trace and the composer. *)
LEMMA LandedMoves ==
  ASSUME LandedIsKept, NEW new, PaneMoves(new), landed' \subseteq landed \cup new
  PROVE  LandedIsKept'
  BY DEF LandedIsKept, PaneMoves, Held

(* A step that neither closes the pane nor adds a prompt or an artifact keeps *)
(* what was proved of the close.                                              *)
LEMMA CoveredMoves ==
  ASSUME ProvedIsCovered, LaneInv, NEW new, PaneMoves(new), landed' = landed, lane' = lane, ~lapsed' => ~lapsed,
         sweep'.pc = "proved" => sweep.pc = "proved"
  PROVE  ProvedIsCovered'
  <1>1. pane'.closer = pane.closer /\ (Agent(1)' => Agent(1))
    BY DEF PaneMoves
  <1> QED BY <1>1 DEF ProvedIsCovered, RetiredLosesNoPrompt

(* The same for a prompt that lands: its writer has the lock, so no close is  *)
(* proved, and the pane is open, so none is done.                             *)
LEMMA CoveredLands ==
  ASSUME LaneInv, NEW new, PaneMoves(new), pane.open, sweep'.pc # "proved" \/ lapsed'
  PROVE  ProvedIsCovered'
  <1>1. pane'.closer = "none"
    BY DEF PaneMoves, LaneInv, OpenIsUntold
  <1> QED BY <1>1 DEF ProvedIsCovered, RetiredLosesNoPrompt

LEMMA FlushCovered ==
  ASSUME TypeInv, LaneInv, LockInv, FlushStep, UNCHANGED <<hint, sweep>>
  PROVE  LandedIsKept' /\ ProvedIsCovered'
  <1> USE Names, Bounds
  <1>t. WorldTypeOK /\ \A w \in Messages \cup Hosts : key[w].cand \in Interiors
    BY DEF TypeInv, TypeOK, FlushTypeOK, KeyStates
  <1>i. WritersHold /\ LandedIsKept /\ ProvedIsCovered
    BY DEF LockInv
  <1>1. ASSUME UNCHANGED <<pane, turns, landed, lane, lapsed>> PROVE LandedIsKept' /\ ProvedIsCovered'
    <2>1. PaneMoves({})
      BY <1>1, <1>t, PaneStays
    <2> QED BY <1>1, <1>i, <2>1, LandedMoves, CoveredMoves
  <1>2. ASSUME NEW m \in Messages, RawWrite(m) PROVE LandedIsKept' /\ ProvedIsCovered'
    <2>1. PaneMoves({m}) /\ UNCHANGED <<landed, lane, lapsed>>
      BY <1>2, <1>t, TextMoves DEF RawWrite
    <2> QED BY <1>i, <2>1, LandedMoves, CoveredMoves
  <1>3. ASSUME NEW m \in Messages, WritePrompt(m) PROVE LandedIsKept' /\ ProvedIsCovered'
    <2>1. PaneMoves({m}) /\ landed' = landed \cup {m} /\ UNCHANGED <<lane, lapsed>> /\ pane.open
      BY <1>3, <1>t, TextMoves DEF WritePrompt, Joins
    <2>2. sweep.pc # "proved" \/ lapsed
      BY <1>3, <1>i DEF WritePrompt, WritersHold
    <2> QED BY <1>i, <2>1, <2>2, LandedMoves, CoveredLands
  <1>4. ASSUME NEW w \in Messages \cup Hosts, SendEnter(w) PROVE LandedIsKept' /\ ProvedIsCovered'
    <2>1. PaneMoves({}) /\ UNCHANGED <<landed, lane, lapsed>>
      BY <1>4, <1>t, EnterMoves DEF SendEnter
    <2> QED BY <1>i, <2>1, LandedMoves, CoveredMoves
  <1> QED BY <1>1, <1>2, <1>3, <1>4, FlushEffects DEF FlushQuiet, RearmFence, RecordSpent, CrashHost

LEMMA RetireCovered ==
  ASSUME TypeInv, LaneInv, LockInv, RetireStep
  PROVE  LandedIsKept' /\ ProvedIsCovered'
  <1>t. WorldTypeOK /\ pane \in PaneStates /\ sweep \in SweepStates
    BY DEF TypeInv, TypeOK, WorldTypeOK, RetireTypeOK
  <1>i. WritersHold /\ LandedIsKept /\ ProvedIsCovered
    BY DEF LockInv
  <1>u. UNCHANGED <<turns, landed, lane, lapsed>>
    BY RetireEffects
  <1>1. pane'.queued = pane.queued /\ pane'.draft = pane.draft /\ pane'.status = pane.status /\ pane'.occ = pane.occ
    BY <1>t, RetireEffects DEF PaneStates
  <1>2. LandedIsKept'
    BY <1>i, <1>u, <1>1 DEF LandedIsKept, Agent
  <1> SUFFICES ProvedIsCovered'
    BY <1>2
  <1>3. ASSUME pane' = pane, sweep'.pc = "proved" => sweep.pc = "proved" PROVE ProvedIsCovered'
    BY <1>3, <1>i, <1>u, <1>t, PaneStays, CoveredMoves
  <1>4. CASE RecheckTrace
    <2>1. \/ ~FollowUp /\ pane' = pane
          \/ pane' = pane /\ sweep'.pc # "proved"
      BY <1>4, PlainEntries DEF RecheckTrace, SweepGoes, Settles
    <2>2. CASE ~FollowUp /\ pane' = pane
      <3>1. turns \subseteq lane.covers /\ pane.queued = {} /\ pane.draft = {}
        BY <2>2 DEF FollowUp, Interior
      <3>2. Agent(1) => landed \subseteq lane.covers
        BY <3>1, <1>i DEF LandedIsKept
      <3> QED BY <1>i, <1>u, <2>2, <3>2 DEF ProvedIsCovered, RetiredLosesNoPrompt, Agent
    <2> QED BY <2>1, <2>2, <1>3
  <1>5. CASE DispatchClose
    <2>1. sweep.pc = "proved" /\ sweep'.pc = "dispatched"
      BY <1>5, <1>t DEF DispatchClose, SweepStates
    <2>2. Agent(1) /\ ~lapsed => landed \subseteq lane.covers
      BY <2>1, <1>i DEF ProvedIsCovered
    <2> QED BY <2>1, <2>2, <1>u, <1>1 DEF ProvedIsCovered, RetiredLosesNoPrompt, Agent
  <1>6. CASE ~RecheckTrace /\ ~DispatchClose
    <2>1. CASE \/ SweepTick \/ EvaluateIdle \/ ScreenUnreadable \/ ObserveClock \/ HeldBack \/ Eligible
               \/ PaneLockUnavailable
      <3>1. /\ pane' = pane
            /\ \/ sweep' = NoSweep
               \/ \E h \in Holds : sweep' = [NoSweep EXCEPT !.pc = "snapped", !.snap = Snapped(h)]
               \/ sweep' = [NoSweep EXCEPT !.pc = "eligible"]
        BY <2>1 DEF SweepTick, EvaluateIdle, ScreenUnreadable, ObserveClock, HeldBack, Eligible,
                    PaneLockUnavailable, SweepEnds, worldVars
      <3>2. sweep'.pc \in {"idle", "snapped", "eligible"}
        BY <3>1, SweepStarts
      <3> QED BY <3>1, <3>2, <1>3
    <2>2. CASE \/ TakePaneLock \/ TakeRunFlock \/ RunFlockUnavailable \/ RecheckRecords \/ RecheckScreen
               \/ RecheckLease
      <3>1. /\ pane' = pane
            /\ \/ sweep' = NoSweep
               \/ \E p \in {"locked", "flocked", "records", "screen", "leased"} : sweep' = [sweep EXCEPT !.pc = p]
        BY <2>2 DEF TakePaneLock, TakeRunFlock, RunFlockUnavailable, RecheckRecords, RecheckScreen,
                    RecheckLease, SweepGoes, Settles
      <3>2. sweep'.pc # "proved"
        BY <3>1, <1>t DEF NoSweep, SweepStates
      <3> QED BY <3>1, <3>2, <1>3
    <2>3. CASE \/ ReadbackProves \/ ReconciledAbsent \/ MutationUncertain \/ WriteLaneRetired
               \/ CrashDaemon \/ RestartDaemon
      <3>1. pane' = pane /\ (sweep' = NoSweep \/ sweep' = [sweep EXCEPT !.pc = "retired"])
        BY <2>3 DEF ReadbackProves, ReconciledAbsent, MutationUncertain, WriteLaneRetired, CloseLeaves,
                    CrashDaemon, RestartDaemon, worldVars
      <3>2. sweep'.pc # "proved"
        BY <3>1, <1>t DEF NoSweep, SweepStates
      <3> QED BY <3>1, <3>2, <1>3
    <2>4. CASE \/ ConsumeAbsence \/ EmitPaneClosed \/ ConfirmedExpires \/ SettleSupervisor
               \/ BeginShutdown \/ DrainSweep \/ StopSupervisors \/ CloseAndRelease
      <3>1. pane' = pane /\ sweep' = sweep
        BY <2>4 DEF ConsumeAbsence, EmitPaneClosed, ConfirmedExpires, SettleSupervisor, BeginShutdown,
                    DrainSweep, StopSupervisors, CloseAndRelease, DaemonGoes, worldVars
      <3> QED BY <3>1, <1>3
    <2> QED BY <1>6, <2>1, <2>2, <2>3, <2>4 DEF RetireStep
  <1> QED BY <1>4, <1>5, <1>6

LEMMA LockStep == TypeInv /\ LaneInv /\ LockInv /\ [Next]_vars => LockInv'
  <1> SUFFICES ASSUME TypeInv, LaneInv, LockInv, [Next]_vars PROVE LockInv'
    OBVIOUS
  <1> USE Names, Bounds
  <1>t. WorldTypeOK /\ HintTypeOK
    BY DEF TypeInv, TypeOK
  <1>i. OneDelivery /\ WritersHold /\ LandedIsKept /\ ProvedIsCovered
    BY DEF LockInv
  <1>d. ASSUME UNCHANGED flushVars PROVE OneDelivery'
    BY <1>d, <1>i DEF OneDelivery, flushVars
  <1>w. ASSUME UNCHANGED <<lock, lapsed, flushVars, hint, sweep>> PROVE WritersHold'
    BY <1>w, <1>i DEF WritersHold, flushVars
  <1>1. ASSUME WorldStep, UNCHANGED <<flushVars, retireVars, ctl, hint>> PROVE LockInv'
    <2>1. CASE PaneOnly({})
      <3>1. LandedIsKept' /\ ProvedIsCovered'
        BY <1>1, <2>1, <1>i, LandedMoves, CoveredMoves DEF PaneOnly, retireVars
      <3> QED BY <1>1, <2>1, <3>1, <1>d, <1>w DEF LockInv, PaneOnly, retireVars
    <2>2. CASE ClosedByOther
      <3>1. /\ pane'.queued = pane.queued /\ pane'.draft = pane.draft /\ pane'.status = pane.status
            /\ pane'.occ = pane.occ /\ pane'.closer = "other" /\ UNCHANGED <<turns, landed, lane, lock, lapsed>>
        BY <2>2, <1>t DEF ClosedByOther, WorldTypeOK, PaneStates
      <3>2. LandedIsKept' /\ ProvedIsCovered'
        BY <1>1, <3>1, <1>i DEF LandedIsKept, ProvedIsCovered, RetiredLosesNoPrompt, Agent, retireVars
      <3> QED BY <1>1, <3>1, <3>2, <1>d, <1>w DEF LockInv, retireVars
    <2>3. CASE /\ UNCHANGED <<pane, turns, landed, lock, fence, pressed, repeated, faults, lapsed>>
               /\ SidecarFree /\ pane.open
      <3>1. LandedIsKept'
        BY <2>3, <1>i DEF LandedIsKept, Agent
      <3>2. pane.closer = "none" /\ sweep.pc # "proved"
        BY <2>3 DEF LaneInv, OpenIsUntold, SidecarFree, UnderFlock
      <3>3. ProvedIsCovered'
        BY <1>1, <2>3, <3>2 DEF ProvedIsCovered, RetiredLosesNoPrompt, retireVars
      <3> QED BY <1>1, <2>3, <3>1, <3>3, <1>d, <1>w DEF LockInv, retireVars
    <2> QED BY <1>1, <1>t, <2>1, <2>2, <2>3, WorldEffects
  <1>2. ASSUME FlushStep, UNCHANGED <<retireVars, ctl, hint>> PROVE LockInv'
    <2>1. UNCHANGED <<hint, sweep>>
      BY <1>2 DEF retireVars
    <2> QED BY <1>2, <1>i, <2>1, DeliveryStep, FlushWritersHold, FlushCovered DEF LockInv
  <1>3. ASSUME RetireStep, hint' = SinkOf(daemon'), UNCHANGED <<flushVars, ctl>> PROVE LockInv'
    <2>1. UNCHANGED send
      BY <1>3 DEF flushVars
    <2> QED BY <1>3, <1>i, <1>d, <2>1, RetireWritersHold, RetireCovered DEF LockInv
  <1>4. ASSUME HintAction, UNCHANGED <<flushVars, retireVars, ctl>> PROVE LockInv'
    <2>1. UNCHANGED <<send, sweep>>
      BY <1>4 DEF flushVars, retireVars
    <2>2. LandedIsKept' /\ ProvedIsCovered'
      <3>1. CASE PaneOnly({})
        BY <2>1, <3>1, <1>i, LandedMoves, CoveredMoves DEF PaneOnly
      <3>2. CASE hint.text \in Hints /\ HintLocks
        <4>1. PaneMoves({}) /\ UNCHANGED <<landed, lane, lapsed>>
          BY <3>2, <1>t, PaneStays DEF HintLocks
        <4> QED BY <2>1, <4>1, <1>i, LandedMoves, CoveredMoves
      <3>3. CASE hint.text \in Hints /\ PromptOwner /\ PaneOnly({hint.text})
        <4>1. PaneMoves({hint.text}) /\ landed' = landed \cup {hint.text} /\ lapsed' = lapsed
          BY <3>3 DEF PaneOnly
        <4>2. pane.open /\ hint.pc = "locked"
          BY <3>3 DEF PromptOwner, Joins
        <4>3. sweep'.pc # "proved" \/ lapsed'
          BY <3>3, <4>1, <4>2, <2>1, <1>i DEF WritersHold
        <4> QED BY <4>1, <4>2, <4>3, <1>i, LandedMoves, CoveredLands
      <3> QED BY <1>4, <1>t, <3>1, <3>2, <3>3, HintEffects
    <2> QED BY <1>4, <1>i, <1>d, <2>1, <2>2, HintWritersHold DEF LockInv
  <1>5. ASSUME ControlStep, UNCHANGED <<flushVars, retireVars, hint>> PROVE LockInv'
    <2>1. PaneOnly({})
      BY <1>5, <1>t, ControlEffects
    <2>2. LandedIsKept' /\ ProvedIsCovered'
      BY <1>5, <2>1, <1>i, LandedMoves, CoveredMoves DEF PaneOnly, retireVars
    <2> QED BY <1>5, <2>1, <2>2, <1>d, <1>w DEF LockInv, PaneOnly, retireVars
  <1>6. ASSUME HolderDies PROVE LockInv'
    <2>1. UNCHANGED <<pane, turns, landed, lane, flushVars, retireVars>> /\ (~lapsed' => ~lapsed)
      BY <1>6 DEF HolderDies
    <2>2. LandedIsKept' /\ ProvedIsCovered'
      BY <2>1, <1>i, <1>t, PaneStays, LandedMoves, CoveredMoves DEF retireVars
    <2> QED BY <1>6, <1>i, <1>d, <2>1, <2>2, DeathWritersHold DEF LockInv
  <1>7. ASSUME UNCHANGED vars PROVE LockInv'
    <2>1. UNCHANGED <<pane, turns, landed, lane, lock, lapsed, flushVars, sweep, hint>>
      BY <1>7 DEF vars, worldVars, retireVars
    <2>2. LandedIsKept' /\ ProvedIsCovered'
      BY <2>1, <1>i, <1>t, PaneStays, LandedMoves, CoveredMoves
    <2> QED BY <1>d, <1>w, <2>1, <2>2 DEF LockInv
  <1> QED BY <1>1, <1>2, <1>3, <1>4, <1>5, <1>6, <1>7 DEF Next, HintAction

LEMMA InitLock == Init => LockInv
  BY Names DEF Init, WorldInit, FlushInit, RetireInit, HintInit, LockInv, OneDelivery, WritersHold, LandedIsKept,
         ProvedIsCovered, RetiredLosesNoPrompt, NoSend, NoKey, NoHint, NoSweep

LEMMA LocksHold == Spec => []LockInv
  BY InitLock, LockStep, TypesAndLane, PTL DEF Spec

(* A lane that the retirer closes under its own agent holds no prompt that   *)
(* its accepted artifact does not answer: the lock keeps every acknowledged  *)
(* write out between the follow-up proof and the close.                      *)
THEOREM RetirementLosesNoPrompt == Spec => []RetiredLosesNoPrompt
  <1>1. LockInv => RetiredLosesNoPrompt
    BY DEF LockInv, ProvedIsCovered
  <1> QED BY <1>1, LocksHold, PTL

-----------------------------------------------------------------------------
(* The frames, step by step. *)

(* A step outside the key sections: the composer loses texts or takes fresh   *)
(* ones, frames are only forgotten, and no presser loses the lock unnoticed.  *)
FrameKept(new) ==
    /\ Held' \subseteq Held \cup new
    /\ pane'.occ = pane.occ \/ Held' = {}
    /\ pressed' \subseteq pressed
    /\ UNCHANGED <<fence, repeated>>
    /\ \A w \in Messages \cup Hosts : key'[w] \in {key[w], NoKey}
    /\ ~lapsed' => ~lapsed
    /\ \A m \in new : m \in Messages /\ Fresh(m)
    /\ \A m \in Messages : Fresh(m)' => Fresh(m) /\ m \notin new
    /\ hint'.pc \in {"reading", "unsent", "locked"} => hint'.text \notin landed'
    /\ \A w \in Messages \cup Hosts : ~lapsed' /\ Presses(w) /\ lock = w /\ key'[w] = key[w] => lock' = w
    /\ \A w \in Messages \cup Hosts : lock' = w /\ key[w].pc \notin {"idle", "locked"} => lock = w \/ key'[w] = NoKey

LEMMA KeptFrames ==
  ASSUME FrameInv, NEW new, FrameKept(new)
  PROVE  FrameInv'
  <1>n. NoKey.pc = "idle" /\ Words(NoKey.cand) = {}
    BY DEF NoKey, Words
  <1>w. ASSUME NEW f, \A m \in Messages : Fresh(m) => m \notin Words(f), Words(f) \subseteq Held'
        PROVE  Words(f) \subseteq Held
    BY <1>w DEF FrameKept
  <1>1. FreshIsNew'
    BY DEF FrameInv, FreshIsNew, FrameKept
  <1>2. FramesAreReal' /\ OneEnterPerFrame'
    BY DEF FrameInv, FramesAreReal, OneEnterPerFrame, FrameKept
  <1>3. ASSUME NEW f \in pressed', Words(f) \subseteq Held'
        PROVE  f \in pressed /\ Words(f) \subseteq Held /\ Words(f) # {} /\ pane'.occ = pane.occ
    <2>1. f \in pressed /\ Words(f) # {} /\ \A m \in Messages : Fresh(m) => m \notin Words(f)
      BY <1>3 DEF FrameInv, FreshIsNew, FramesAreReal, FrameKept
    <2> QED BY <1>3, <1>w, <2>1 DEF FrameKept
  <1>4. PressedIsSpent'
    BY <1>3 DEF FrameInv, PressedIsSpent, FrameKept, IsSpent
  <1>5. ASSUME NEW w \in Messages \cup Hosts PROVE KeyIsSound(w)'
    <2>i. KeyIsSound(w)
      BY DEF FrameInv
    <2>1. CASE key'[w] = NoKey
      BY <1>n, <2>1 DEF KeyIsSound, Presses, ProofsStand
    <2>2. CASE key'[w] = key[w]
      <3>1. \A m \in Messages : Fresh(m)' => m \notin Words(key'[w].cand)
        BY <2>i, <2>2 DEF KeyIsSound, FrameKept
      <3>2. ASSUME Words(key[w].cand) \subseteq Held', Words(key[w].cand) # {}
            PROVE  Words(key[w].cand) \subseteq Held /\ pane'.occ = pane.occ
        BY <3>2, <1>w, <2>i DEF KeyIsSound, FrameKept
      <3>3. ~lapsed' /\ Presses(w)' => lock' = w
        BY <2>i, <2>2 DEF KeyIsSound, FrameKept, Presses
      <3>4. ASSUME ~lapsed', lock' = w PROVE ProofsStand(w)'
        <4>1. CASE key[w].pc \in {"idle", "locked"}
          BY <2>2, <4>1 DEF ProofsStand
        <4>2. CASE key[w].pc \notin {"idle", "locked"}
          <5>1. lock = w \/ key'[w] = NoKey
            BY <3>4, <4>2 DEF FrameKept
          <5>2. CASE key'[w] = NoKey
            BY <5>2, <1>n DEF ProofsStand
          <5>3. CASE lock = w
            <6>1. ProofsStand(w)
              BY <3>4, <5>3, <2>i DEF KeyIsSound, FrameKept
            <6>2. fence' = fence /\ pressed' \subseteq pressed
              BY DEF FrameKept
            <6> QED BY <6>1, <6>2, <2>2, <1>3 DEF ProofsStand, IsSpent
          <5> QED BY <5>1, <5>2, <5>3
        <4> QED BY <4>1, <4>2
      <3> QED BY <2>i, <2>2, <3>1, <3>2, <3>3, <3>4 DEF KeyIsSound
    <2> QED BY <2>1, <2>2 DEF FrameKept
  <1> QED BY <1>1, <1>2, <1>4, <1>5 DEF FrameInv

(* A step of one key section that leaves the pane and the fence alone. *)
KeyKept(w) ==
    /\ UNCHANGED <<pane, landed, fence, pressed, repeated, lapsed, hint>>
    /\ \A v \in Messages \cup Hosts : v # w => key'[v] = key[v]
    /\ \A m \in Messages : Fresh(m)' => Fresh(m)
    /\ \A v \in Messages \cup Hosts : v # w => (lock' = v <=> lock = v)

LEMMA KeptKey ==
  ASSUME FrameInv, NEW w \in Messages \cup Hosts, KeyKept(w), KeyIsSound(w)'
  PROVE  FrameInv'
  <1>1. FreshIsNew' /\ FramesAreReal' /\ OneEnterPerFrame' /\ PressedIsSpent'
    BY DEF FrameInv, FreshIsNew, FramesAreReal, OneEnterPerFrame, PressedIsSpent, KeyKept, Held, IsSpent
  <1>2. ASSUME NEW v \in Messages \cup Hosts, v # w PROVE KeyIsSound(v)'
    <2>1. KeyIsSound(v)
      BY DEF FrameInv
    <2>2. key'[v] = key[v] /\ pane' = pane /\ fence' = fence /\ pressed' = pressed /\ lapsed' = lapsed
      BY <1>2 DEF KeyKept
    <2>3. ProofsStand(v) => ProofsStand(v)'
      BY <2>2 DEF ProofsStand, Held, IsSpent
    <2>4. Presses(v)' <=> Presses(v)
      BY <2>2 DEF Presses
    <2>5. (lock' = v <=> lock = v) /\ \A m \in Messages : Fresh(m)' => Fresh(m)
      BY <1>2 DEF KeyKept
    <2>6. Held' = Held
      BY <2>2 DEF Held
    <2> QED BY <2>1, <2>2, <2>3, <2>4, <2>5, <2>6 DEF KeyIsSound
  <1> QED BY <1>1, <1>2 DEF FrameInv

LEMMA KeyFrames ==
  ASSUME TypeInv, LockInv, FrameInv, UNCHANGED <<hint, sweep>>, NEW w \in Messages \cup Hosts,
         \/ TakeKeySection(w) \/ ReadCandidate(w) \/ JoinOccupant(w) \/ ReadFinal(w) \/ CheckFence(w)
         \/ LeaveKeySection(w)
  PROVE  FrameInv'
  <1> USE Names
  <1>s. /\ send \in [Messages -> SendStates] /\ key \in [Messages \cup Hosts -> KeyStates]
        /\ \A m \in Messages : send[m] \in SendStates
        /\ \A v \in Messages \cup Hosts : key[v] \in KeyStates
    BY DEF TypeInv, TypeOK, FlushTypeOK
  <1>n. NoKey.pc = "idle" /\ Words(NoKey.cand) = {}
    BY DEF NoKey, Words
  <1>i. KeyIsSound(w)
    BY DEF FrameInv
  <1>x. \A v \in Messages \cup Hosts : v # Nothing
    OBVIOUS
  <1>k. ASSUME UNCHANGED <<worldVars, send>>, NEW k, key' = [key EXCEPT ![w] = k] PROVE KeyKept(w) /\ key'[w] = k
    BY <1>k, <1>s DEF KeyKept, worldVars, Fresh
  <1>1. CASE TakeKeySection(w)
    <2>1. /\ lock = Nothing /\ lock' = w /\ key[w] = NoKey /\ UNCHANGED <<pane, landed, fence, pressed, repeated, lapsed, send>>
          /\ key' = [key EXCEPT ![w] = [NoKey EXCEPT !.pc = "locked"]]
      BY <1>1, <1>s DEF TakeKeySection, TakeLock, StepKey
    <2>2. KeyKept(w)
      BY <2>1, <1>s, <1>x DEF KeyKept, Fresh
    <2>3. key'[w].pc = "locked" /\ Words(key'[w].cand) = {}
      BY <2>1, <1>s DEF NoKey, Words
    <2>4. KeyIsSound(w)'
      BY <2>1, <2>3 DEF KeyIsSound, Presses, ProofsStand
    <2> QED BY <2>2, <2>4, KeptKey
  <1>2. CASE ReadCandidate(w)
    <2>1. PICK p \in {"candidate", "drained"} :
            /\ key' = [key EXCEPT ![w].pc = p, ![w].cand = Interior(pane)]
            /\ p = "candidate" => Unsent(w, Composer(pane))
            /\ p = "drained" => w \in Hosts /\ pane.queued = {} /\ pane.draft = {}
      BY <1>2 DEF ReadCandidate, Composer
    <2>2. key[w].pc = "locked" /\ UNCHANGED <<worldVars, send>>
      BY <1>2 DEF ReadCandidate
    <2>3. key' = [key EXCEPT ![w] = [key[w] EXCEPT !.pc = p, !.cand = Interior(pane)]]
      BY <2>1, <1>s
    <2>4. KeyKept(w)
      BY <2>2, <2>3, <1>k
    <2>5. key'[w].pc = p /\ key'[w].cand = Interior(pane)
      BY <2>3, <1>s DEF KeyStates
    <2>6. Words(Interior(pane)) = Held
      BY DEF Words, Interior, Held
    <2>7. p = "candidate" => Held # {}
      BY <2>1 DEF Unsent, Composer, Held
    <2>8. p = "drained" => Held = {} /\ (~lapsed => lock = w)
      BY <2>1, <2>2, <1>i DEF Held, KeyIsSound, Presses
    <2>9. UNCHANGED <<pane, landed, pressed, lapsed, lock, fence>>
      BY <2>2 DEF worldVars
    <2>10. \A m \in Messages : Fresh(m)' => m \notin Held
      BY <2>4 DEF KeyKept, FrameInv, FreshIsNew
    <2>11. p = "drained" => ProofsStand(w)'
      BY <2>5, <2>8, <2>9 DEF ProofsStand, Held, FrameInv, FramesAreReal
    <2>12. p = "candidate" => ProofsStand(w)' /\ ~Presses(w)'
      BY <2>5 DEF ProofsStand, Presses
    <2>13. KeyIsSound(w)'
      BY <2>5, <2>6, <2>7, <2>8, <2>9, <2>10, <2>11, <2>12 DEF KeyIsSound
    <2> QED BY <2>4, <2>13, KeptKey
  <1>3. CASE JoinOccupant(w)
    <2>1. key' = [key EXCEPT ![w] = [key[w] EXCEPT !.pc = "joined", !.occ = pane.occ]]
      BY <1>3, <1>s DEF JoinOccupant
    <2>2. key[w].pc = "candidate" /\ UNCHANGED <<worldVars, send>>
      BY <1>3 DEF JoinOccupant
    <2>3. KeyKept(w)
      BY <2>1, <2>2, <1>k
    <2>4. key'[w].pc = "joined" /\ key'[w].occ = pane.occ /\ key'[w].cand = key[w].cand /\ pane' = pane
      BY <2>1, <2>2, <1>s DEF KeyStates, worldVars
    <2>5. \A m \in Messages : Fresh(m)' => Fresh(m)
      BY <2>3 DEF KeyKept
    <2>6. KeyIsSound(w)'
      BY <2>2, <2>4, <2>5, <1>i DEF KeyIsSound, Presses, ProofsStand
    <2> QED BY <2>3, <2>6, KeptKey
  <1>4. CASE ReadFinal(w)
    <2>1. key' = [key EXCEPT ![w] = [key[w] EXCEPT !.pc = "final"]]
      BY <1>4, <1>s DEF ReadFinal, StepKey
    <2>2. key[w].pc = "joined" /\ UNCHANGED <<worldVars, send>> /\ key[w].cand = Interior(pane)
      BY <1>4 DEF ReadFinal
    <2>3. KeyKept(w)
      BY <2>1, <2>2, <1>k
    <2>4. key'[w].pc = "final" /\ key'[w].occ = key[w].occ /\ key'[w].cand = key[w].cand
      BY <2>1, <1>s DEF KeyStates
    <2>5. UNCHANGED <<pane, landed, pressed, lapsed, lock, fence>>
      BY <2>2 DEF worldVars
    <2>6. Words(key[w].cand) \subseteq Held
      BY <2>2 DEF Words, Interior, Held
    <2>7. key[w].occ = pane.occ
      BY <2>2, <2>6, <1>i DEF KeyIsSound
    <2>8. ~lapsed /\ key[w].cand \in pressed => IsSpent(key[w].occ, key[w].cand)
      BY <2>6, <2>7 DEF FrameInv, PressedIsSpent
    <2>9. \A m \in Messages : Fresh(m)' => Fresh(m)
      BY <2>3 DEF KeyKept
    <2>10. ~lapsed /\ lock = w => ProofsStand(w)'
      BY <2>4, <2>5, <2>7, <2>8 DEF ProofsStand, IsSpent
    <2>11. KeyIsSound(w)'
      BY <2>2, <2>4, <2>5, <2>7, <2>9, <2>10, <1>i DEF KeyIsSound, Presses
    <2> QED BY <2>3, <2>11, KeptKey
  <1>5. CASE CheckFence(w)
    <2>1. key' = [key EXCEPT ![w] = [key[w] EXCEPT !.pc = "checked"]]
      BY <1>5, <1>s DEF CheckFence, StepKey
    <2>2. /\ key[w].pc = "final" /\ UNCHANGED <<worldVars, send>> /\ lock = w
          /\ ~IsSpent(key[w].occ, key[w].cand)
      BY <1>5 DEF CheckFence, LeaseHolds
    <2>3. KeyKept(w)
      BY <2>1, <2>2, <1>k
    <2>4. key'[w].pc = "checked" /\ key'[w].occ = key[w].occ /\ key'[w].cand = key[w].cand
      BY <2>1, <1>s DEF KeyStates
    <2>5. UNCHANGED <<pane, landed, pressed, lapsed, lock, fence>>
      BY <2>2 DEF worldVars
    <2>6. ~lapsed => ProofsStand(w)
      BY <2>2, <1>i DEF KeyIsSound
    <2>7. ~lapsed => ProofsStand(w)'
      BY <2>2, <2>4, <2>5, <2>6 DEF ProofsStand, Held
    <2>8. \A m \in Messages : Fresh(m)' => Fresh(m)
      BY <2>3 DEF KeyKept
    <2>9. KeyIsSound(w)'
      BY <2>2, <2>4, <2>5, <2>7, <2>8, <1>i DEF KeyIsSound, Presses, Held
    <2> QED BY <2>3, <2>9, KeptKey
  <1>6. CASE LeaveKeySection(w)
    <2>1. key[w].pc # "idle" /\ key' = [key EXCEPT ![w] = NoKey]
      BY <1>6 DEF LeaveKeySection, Refused
    <2>2. lock' = (IF lock = w THEN Nothing ELSE lock) /\ UNCHANGED <<pane, landed, fence, pressed, repeated, lapsed>>
      BY <1>6 DEF LeaveKeySection, DropLock
    <2>3. \A m \in Messages : send'[m] = send[m] \/ (m \notin Hints /\ send'[m].pc = "done")
      <3>1. w \in Hosts => send' = send
        BY <1>6 DEF LeaveKeySection
      <3>2. w \notin Hosts => w \in Messages /\ w \notin Hints
        BY <2>1 DEF LockInv, OneDelivery, NoSend
      <3>3. w \notin Hosts => \A m \in Messages : send'[m] = send[m] \/ (m = w /\ send'[m].pc = "done")
        BY <1>6, <3>2, <1>s DEF LeaveKeySection, StepSend, SendStates
      <3> QED BY <3>1, <3>2, <3>3
    <2>4. \A m \in Messages : Fresh(m)' => Fresh(m)
      BY <2>2, <2>3 DEF Fresh
    <2>5. KeyKept(w)
      BY <2>1, <2>2, <2>4, <1>s, <1>x DEF KeyKept
    <2>6. key'[w].pc = "idle" /\ Words(key'[w].cand) = {}
      BY <2>1, <1>s, <1>n
    <2>7. KeyIsSound(w)'
      BY <2>6 DEF KeyIsSound, Presses, ProofsStand
    <2> QED BY <2>5, <2>7, KeptKey
  <1> QED BY <1>1, <1>2, <1>3, <1>4, <1>5, <1>6

(* Only the holder of the lock changes what the fence and the frames say. *)
LEMMA FenceFrames ==
  ASSUME TypeInv, FrameInv, UNCHANGED hint, NEW w \in Messages \cup Hosts, RearmFence(w) \/ RecordSpent(w)
  PROVE  FrameInv'
  <1>s. /\ key \in [Messages \cup Hosts -> KeyStates]
        /\ \A v \in Messages \cup Hosts : key[v] \in KeyStates
        /\ fence \in [occ: 0..MaxOccupants, spent: SUBSET Interiors]
    BY DEF TypeInv, TypeOK, FlushTypeOK, WorldTypeOK
  <1>i. KeyIsSound(w)
    BY DEF FrameInv
  <1>u. UNCHANGED <<pane, landed, lock, pressed, repeated, lapsed, send, hint>>
    BY DEF RearmFence, RecordSpent
  <1>l. ~lapsed => lock = w /\ ProofsStand(w)
    BY <1>i DEF RearmFence, RecordSpent, KeyIsSound, Presses
  <1>k. /\ \A v \in Messages \cup Hosts : v # w => key'[v] = key[v]
        /\ key'[w].cand = key[w].cand /\ key'[w].occ = key[w].occ
    BY <1>s DEF RearmFence, RecordSpent, StepKey, KeyStates
  <1>f. \A m \in Messages : Fresh(m)' <=> Fresh(m)
    BY <1>u DEF Fresh
  <1>h. Held' = Held
    BY <1>u DEF Held
  <1>1. FreshIsNew' /\ FramesAreReal' /\ OneEnterPerFrame'
    BY <1>u, <1>f, <1>h DEF FrameInv, FreshIsNew, FramesAreReal, OneEnterPerFrame
  <1>2. ASSUME NEW v \in Messages \cup Hosts, v # w PROVE KeyIsSound(v)'
    <2>1. KeyIsSound(v) /\ key'[v] = key[v]
      BY <1>2, <1>k DEF FrameInv
    <2>2. (Presses(v)' <=> Presses(v)) /\ (~lapsed => lock # v)
      BY <1>2, <2>1, <1>l DEF Presses
    <2> QED BY <2>1, <2>2, <1>u, <1>f, <1>h DEF KeyIsSound
  <1>3. CASE RearmFence(w)
    <2>1. key[w].pc = "drained" /\ key'[w].pc = "sent"
      BY <1>3, <1>s DEF RearmFence, StepKey, KeyStates
    <2>2. PressedIsSpent'
      BY <1>l, <1>u, <1>h, <2>1 DEF PressedIsSpent, ProofsStand
    <2>3. KeyIsSound(w)'
      BY <2>1, <1>i, <1>k, <1>f DEF KeyIsSound, Presses, ProofsStand
    <2> QED BY <1>1, <1>2, <2>2, <2>3 DEF FrameInv
  <1>4. CASE RecordSpent(w)
    <2>1. key[w].pc = "checked" /\ key'[w].pc = "recorded"
      BY <1>4, <1>s DEF RecordSpent, StepKey, KeyStates
    <2>2. /\ fence'.occ = key[w].occ /\ key[w].cand \in fence'.spent
          /\ fence.occ = key[w].occ => fence.spent \subseteq fence'.spent
      BY <1>4, <1>s DEF RecordSpent, Recorded
    <2>3. PressedIsSpent'
      <3>1. ASSUME ~lapsed, NEW f \in pressed, Words(f) \subseteq Held PROVE IsSpent(pane.occ, f)'
        <4>1. key[w].occ = pane.occ
          BY <3>1, <2>1, <1>l DEF ProofsStand
        <4>2. fence.occ = pane.occ /\ f \in fence.spent
          BY <3>1 DEF FrameInv, PressedIsSpent, IsSpent
        <4> QED BY <4>1, <4>2, <2>2, <1>u DEF IsSpent
      <3> QED BY <3>1, <1>u, <1>h DEF PressedIsSpent, IsSpent
    <2>4. ~lapsed => ProofsStand(w)'
      BY <2>1, <2>2, <1>l, <1>k, <1>u DEF ProofsStand, IsSpent
    <2>5. KeyIsSound(w)'
      BY <2>1, <2>4, <1>i, <1>l, <1>k, <1>f, <1>u, <1>h DEF KeyIsSound, Presses
    <2> QED BY <1>1, <1>2, <2>3, <2>5 DEF FrameInv
  <1> QED BY <1>3, <1>4

LEMMA EnterFrames ==
  ASSUME TypeInv, FrameInv, UNCHANGED hint, NEW w \in Messages \cup Hosts, SendEnter(w)
  PROVE  FrameInv'
  <1>s. /\ key \in [Messages \cup Hosts -> KeyStates]
        /\ \A v \in Messages \cup Hosts : key[v] \in KeyStates
        /\ WorldTypeOK /\ key[w].cand \in Interiors
    BY DEF TypeInv, TypeOK, FlushTypeOK, KeyStates
  <1>i. KeyIsSound(w) /\ key[w].pc = "recorded"
    BY DEF FrameInv, SendEnter
  <1>p. PaneMoves({}) /\ pressed' \subseteq pressed \cup {key[w].cand}
    BY <1>s, EnterMoves, Bounds DEF SendEnter
  <1>u. UNCHANGED <<landed, lock, fence, lapsed, send, hint>>
    BY DEF SendEnter
  <1>l. ~lapsed => lock = w /\ ProofsStand(w)
    BY <1>i DEF KeyIsSound, Presses
  <1>k. /\ \A v \in Messages \cup Hosts : v # w => key'[v] = key[v]
        /\ key'[w].cand = key[w].cand /\ key'[w].pc = "sent"
    BY <1>s DEF SendEnter, StepKey, KeyStates
  <1>f. \A m \in Messages : Fresh(m)' <=> Fresh(m)
    BY <1>u DEF Fresh
  <1>h. Held' \subseteq Held /\ (pane'.occ = pane.occ \/ Held' = {})
    BY <1>p DEF PaneMoves
  <1>c. Words(key[w].cand) # {} /\ \A m \in Messages : Fresh(m) => m \notin Words(key[w].cand)
    BY <1>i DEF KeyIsSound
  <1>1. FreshIsNew' /\ FramesAreReal'
    BY <1>p, <1>u, <1>f, <1>h, <1>c DEF FrameInv, FreshIsNew, FramesAreReal
  <1>2. OneEnterPerFrame'
    <2>1. repeated' <=> (repeated \/ key[w].cand \in pressed)
      BY DEF SendEnter
    <2>2. ~lapsed => key[w].cand \notin pressed
      BY <1>i, <1>l DEF ProofsStand
    <2>3. repeated => lapsed
      BY DEF FrameInv, OneEnterPerFrame
    <2>4. lapsed' <=> lapsed
      BY <1>u
    <2> QED BY <2>1, <2>2, <2>3, <2>4 DEF OneEnterPerFrame
  <1>3. ASSUME ~lapsed, NEW f \in pressed', Words(f) \subseteq Held' PROVE IsSpent(pane.occ, f)'
    <2>1. Words(f) \subseteq Held /\ Words(f) # {}
      BY <1>3, <1>h, <1>1 DEF FramesAreReal
    <2>2. pane'.occ = pane.occ
      BY <1>3, <2>1, <1>h
    <2>3. CASE f = key[w].cand
      BY <1>3, <2>1, <2>2, <2>3, <1>i, <1>l, <1>u DEF KeyIsSound, ProofsStand, IsSpent
    <2>4. CASE f \in pressed
      BY <1>3, <2>1, <2>2, <2>4, <1>u DEF FrameInv, PressedIsSpent, IsSpent
    <2> QED BY <1>3, <1>p, <2>3, <2>4
  <1>4. PressedIsSpent'
    BY <1>3, <1>u DEF PressedIsSpent
  <1>5. ASSUME NEW v \in Messages \cup Hosts, v # w PROVE KeyIsSound(v)'
    <2>1. KeyIsSound(v) /\ key'[v] = key[v]
      BY <1>5, <1>k DEF FrameInv
    <2>2. (Presses(v)' <=> Presses(v)) /\ (~lapsed => lock # v)
      BY <1>5, <2>1, <1>l DEF Presses
    <2>3. /\ key[v].pc \in {"joined", "final", "checked", "recorded"} /\ Words(key[v].cand) \subseteq Held'
             => key[v].occ = pane'.occ
      BY <2>1, <1>h DEF KeyIsSound
    <2> QED BY <2>1, <2>2, <2>3, <1>u, <1>f DEF KeyIsSound
  <1>6. KeyIsSound(w)'
    BY <1>k, <1>c, <1>f DEF KeyIsSound, Presses, ProofsStand
  <1> QED BY <1>1, <1>2, <1>4, <1>5, <1>6 DEF FrameInv

(* The facts that the steps outside the key sections have in common. *)
LEMMA PlainFrames ==
  ASSUME TypeInv, LockInv, FrameInv
  PROVE  /\ \A m \in Messages : send[m].pc # "unsent" => key[m].pc = "idle" /\ ~Presses(m)
         /\ \A m \in Hints : send[m].pc = "idle" /\ key[m].pc = "idle" /\ ~Presses(m)
         /\ hint.pc \in {"reading", "unsent", "locked"} => hint.text \in Hints /\ hint.text \notin landed
         /\ send \in [Messages -> SendStates]
         /\ \A m \in Messages : send[m] \in SendStates
  <1>1. NoSend.pc = "idle"
    BY DEF NoSend
  <1>2. \A m \in Messages : send[m].pc # "unsent" => key[m].pc = "idle" /\ ~Presses(m)
    BY Names DEF LockInv, OneDelivery, Presses
  <1>3. \A m \in Hints : send[m].pc = "idle"
    BY <1>1 DEF LockInv, OneDelivery
  <1>4. hint.pc \in {"reading", "unsent", "locked"} => hint.text \in Hints /\ hint.text \notin landed
    BY DEF TypeInv, TypeOK, HintTypeOK, FrameInv, FreshIsNew
  <1>5. send \in [Messages -> SendStates] /\ \A m \in Messages : send[m] \in SendStates
    BY DEF TypeInv, TypeOK, FlushTypeOK
  <1> QED BY <1>2, <1>3, <1>4, <1>5, Names

LEMMA PromptFrames ==
  ASSUME TypeInv, LockInv, FrameInv, UNCHANGED hint, FlushStep,
         \A w \in Messages \cup Hosts : ~RearmFence(w) /\ ~RecordSpent(w) /\ ~SendEnter(w)
           /\ ~TakeKeySection(w) /\ ~ReadCandidate(w) /\ ~JoinOccupant(w) /\ ~ReadFinal(w) /\ ~CheckFence(w)
           /\ ~LeaveKeySection(w)
  PROVE  FrameInv'
  <1> USE Names, Bounds
  <1>p. /\ \A m \in Messages : send[m].pc # "unsent" => key[m].pc = "idle" /\ ~Presses(m)
        /\ \A m \in Hints : send[m].pc = "idle" /\ key[m].pc = "idle" /\ ~Presses(m)
        /\ hint.pc \in {"reading", "unsent", "locked"} => hint.text \in Hints /\ hint.text \notin landed
        /\ send \in [Messages -> SendStates]
        /\ \A m \in Messages : send[m] \in SendStates
    BY PlainFrames
  <1>t. WorldTypeOK
    BY DEF TypeInv, TypeOK
  \* Steps that leave the pane and the frames alone.
  <1>1. ASSUME UNCHANGED <<pane, landed, pressed, fence, repeated, lapsed, key>>,
               \A m \in Messages : Fresh(m)' => Fresh(m),
               \A w \in Messages \cup Hosts : Presses(w) /\ lock = w => lock' = w,
               \A w \in Messages \cup Hosts : lock' = w /\ key[w].pc # "idle" => lock = w
        PROVE  FrameInv'
    <2>1. FrameKept({})
      BY <1>1, <1>p DEF FrameKept, Held
    <2> QED BY <2>1, KeptFrames
  <1>2. ASSUME NEW m \in Messages, m \notin Hints,
               send[m].pc \in {"idle", "resolved", "locked", "verified"}
                 \/ send'[m].pc \notin {"idle", "resolved", "locked", "verified"},
               \A n \in Messages : n # m => send'[n] = send[n], landed' = landed
        PROVE  \A n \in Messages : Fresh(n)' => Fresh(n)
    BY <1>2 DEF Fresh
  <1>3. ASSUME NEW m \in Messages, NEW h \in Hosts, ResolveTarget(m, h) PROVE FrameInv'
    <2>1. /\ m \notin Hints /\ send[m].pc = "idle" /\ \A n \in Messages : n # m => send'[n] = send[n]
          /\ UNCHANGED <<pane, landed, pressed, fence, repeated, lapsed, key, lock>>
      BY <1>3, <1>p DEF ResolveTarget, worldVars
    <2> QED BY <2>1, <1>1, <1>2
  <1>4. ASSUME NEW m \in Messages,
               \/ SectionRefused(m) \/ VerifyFreshPromptTarget(m) \/ FreshTargetRefused(m) \/ PromptRejected(m)
               \/ ConsumptionSeen(m)
        PROVE  FrameInv'
    <2>1. /\ \A n \in Messages : n # m => send'[n] = send[n]
          /\ UNCHANGED <<pane, landed, pressed, fence, repeated, lapsed, key, lock>>
      BY <1>4, <1>p DEF SectionRefused, VerifyFreshPromptTarget, FreshTargetRefused, PromptRejected,
                        ConsumptionSeen, StepSend, worldVars
    <2>2. /\ send[m].pc # "idle"
          /\ \/ send[m].pc \in {"idle", "resolved", "locked", "verified"}
             \/ send'[m].pc \notin {"idle", "resolved", "locked", "verified"}
      BY <1>4, <1>p DEF SectionRefused, VerifyFreshPromptTarget, FreshTargetRefused, PromptRejected,
                        ConsumptionSeen, StepSend, SendStates
    <2>3. m \notin Hints
      BY <2>2, <1>p
    <2> QED BY <2>1, <2>2, <2>3, <1>1, <1>2
  <1>5. ASSUME NEW m \in Messages, EnterSection(m) PROVE FrameInv'
    <2>1. /\ \A n \in Messages : n # m => send'[n] = send[n]
          /\ UNCHANGED <<pane, landed, pressed, fence, repeated, lapsed, key>>
          /\ lock = Nothing /\ lock' = m /\ send[m].pc = "resolved"
      BY <1>5, <1>p DEF EnterSection, TakeLock, StepSend
    <2>2. m \notin Hints /\ key[m].pc = "idle"
      BY <2>1, <1>p
    <2> QED BY <2>1, <2>2, <1>1, <1>2
  <1>6. ASSUME NEW m \in Messages, LeaveSection(m) PROVE FrameInv'
    <2>1. /\ \A n \in Messages : n # m => send'[n] = send[n]
          /\ UNCHANGED <<pane, landed, pressed, fence, repeated, lapsed, key>>
          /\ lock' = (IF lock = m THEN Nothing ELSE lock) /\ send[m].pc \in {"written", "acked"}
          /\ send'[m].pc \in {"unsent", "done"}
      BY <1>6, <1>p DEF LeaveSection, DropLock, StepSend, SendStates
    <2>2. m \notin Hints /\ ~Presses(m)
      BY <2>1, <1>p
    <2> QED BY <2>1, <2>2, <1>1, <1>2
  <1>7. ASSUME NEW m \in Messages, RawWrite(m) \/ WritePrompt(m) PROVE FrameInv'
    <2>1. PaneMoves({m}) /\ pressed' \subseteq pressed
      BY <1>7, <1>t, TextMoves DEF RawWrite, WritePrompt
    <2>2. /\ \A n \in Messages : n # m => send'[n] = send[n]
          /\ landed' \in {landed, landed \cup {m}}
          /\ UNCHANGED <<fence, repeated, lapsed, key, lock>>
          /\ send[m].pc \in {"idle", "verified"} /\ send'[m].pc \in {"done", "acked", "written"}
      BY <1>7, <1>p DEF RawWrite, WritePrompt, StepSend, SendStates
    <2>3. m \notin Hints
      BY <1>7, <1>p DEF RawWrite, WritePrompt
    <2>4. Fresh(m) /\ \A n \in Messages : Fresh(n)' => Fresh(n) /\ n \notin {m}
      BY <2>2, <2>3 DEF Fresh
    <2>5. FrameKept({m})
      BY <2>1, <2>2, <2>3, <2>4, <1>p DEF FrameKept, PaneMoves
    <2> QED BY <2>5, KeptFrames
  <1>8. ASSUME NEW h \in Hosts, CycleStarts(h) \/ WaitReturns(h) \/ WaitFails(h) PROVE FrameInv'
    <2>1. UNCHANGED <<pane, landed, pressed, fence, repeated, lapsed, key, lock, send>>
      BY <1>8 DEF CycleStarts, WaitReturns, WaitFails, worldVars
    <2> QED BY <2>1, <1>1 DEF Fresh
  <1>9. ASSUME NEW w \in Messages \cup Hosts, KeySectionRefused(w) PROVE FrameInv'
    <2>1. UNCHANGED <<pane, landed, pressed, fence, repeated, lapsed, key, lock>>
      BY <1>9 DEF KeySectionRefused, worldVars
    <2>2. CASE w \in Hosts
      BY <1>9, <2>1, <2>2, <1>1 DEF KeySectionRefused, Fresh
    <2>3. CASE w \notin Hosts
      <3>1. /\ w \in Messages /\ send[w].pc = "unsent" /\ send'[w].pc = "done"
            /\ \A n \in Messages : n # w => send'[n] = send[n]
        BY <1>9, <2>3, <1>p DEF KeySectionRefused, WantsKey, StepSend, SendStates
      <3>2. w \notin Hints
        BY <3>1, <1>p
      <3> QED BY <2>1, <3>1, <3>2, <1>1, <1>2
    <2> QED BY <2>2, <2>3
  <1>10. ASSUME NEW h \in Hosts, CrashHost(h) PROVE FrameInv'
    <2> DEFINE own == {m \in Messages : send[m].host = h /\ send[m].pc # "done"}
    <2>1. /\ \A m \in Messages : m \notin own => send'[m] = send[m]
          /\ \A m \in Messages : m \in own => send'[m].pc = "done"
          /\ \A w \in Messages \cup Hosts : w \in own \cup {h} => key'[w] = NoKey
          /\ \A w \in Messages \cup Hosts : w \notin own \cup {h} => key'[w] = key[w]
          /\ lock' = IF lock \in own \cup {h} THEN Nothing ELSE lock
          /\ UNCHANGED <<pane, landed, pressed, fence, repeated, lapsed>>
      BY <1>10, <1>p DEF CrashHost, SendStates
    <2>2. \A m \in Hints : m \notin own
      BY DEF LockInv, OneDelivery, NoSend
    <2>3. \A m \in Messages : Fresh(m)' => Fresh(m)
      BY <2>1, <2>2 DEF Fresh
    <2>4. \A w \in Messages \cup Hosts : Presses(w) => key[w] # NoKey
      BY DEF Presses, NoKey
    <2> HIDE DEF own
    <2>5. FrameKept({})
      BY <2>1, <2>3, <2>4, <1>p DEF FrameKept, Held
    <2> QED BY <2>5, KeptFrames
  <1> QED BY <1>3, <1>4, <1>5, <1>6, <1>7, <1>8, <1>9, <1>10 DEF FlushStep

LEMMA FrameStep == TypeInv /\ LaneInv /\ LockInv /\ FrameInv /\ [Next]_vars => FrameInv'
  <1> SUFFICES ASSUME TypeInv, LaneInv, LockInv, FrameInv, [Next]_vars PROVE FrameInv'
    OBVIOUS
  <1> USE Names, Bounds
  <1>t. WorldTypeOK /\ HintTypeOK /\ pane \in PaneStates
    BY DEF TypeInv, TypeOK, WorldTypeOK
  <1>p. /\ \A m \in Messages : send[m].pc # "unsent" => key[m].pc = "idle" /\ ~Presses(m)
        /\ \A m \in Hints : send[m].pc = "idle" /\ key[m].pc = "idle" /\ ~Presses(m)
        /\ hint.pc \in {"reading", "unsent", "locked"} => hint.text \in Hints /\ hint.text \notin landed
    BY PlainFrames
  <1>q. ASSUME Held' = Held, pane'.occ = pane.occ, UNCHANGED <<landed, pressed, fence, repeated, send, key>>,
               ~lapsed' => ~lapsed,
               hint'.pc \in {"reading", "unsent", "locked"} => hint'.text \notin landed,
               \A w \in Messages \cup Hosts : ~lapsed' /\ Presses(w) /\ lock = w => lock' = w,
               \A w \in Messages \cup Hosts : lock' = w /\ key[w].pc # "idle" => lock = w
        PROVE  FrameInv'
    <2>1. FrameKept({})
      BY <1>q DEF FrameKept, Fresh
    <2> QED BY <2>1, KeptFrames
  <1>o. ASSUME PaneOnly({}), UNCHANGED flushVars,
               hint'.pc \in {"reading", "unsent", "locked"} => hint'.text \notin landed
        PROVE FrameInv'
    <2>1. FrameKept({})
      BY <1>o DEF FrameKept, PaneOnly, PaneMoves, Fresh, flushVars
    <2> QED BY <2>1, KeptFrames
  <1>1. ASSUME WorldStep, UNCHANGED <<flushVars, hint>> PROVE FrameInv'
    <2>1. CASE PaneOnly({})
      BY <1>1, <2>1, <1>o, <1>p
    <2>2. CASE ClosedByOther
      <3>1. /\ Held' = Held /\ pane'.occ = pane.occ
            /\ UNCHANGED <<landed, pressed, fence, repeated, send, key, lock, lapsed>>
        BY <1>1, <2>2, <1>t DEF ClosedByOther, PaneStates, Held, flushVars
      <3> QED BY <1>1, <3>1, <1>q, <1>p
    <2>3. CASE UNCHANGED <<pane, turns, landed, lock, fence, pressed, repeated, faults, lapsed>>
      BY <1>1, <2>3, <1>q, <1>p DEF Held, flushVars
    <2> QED BY <1>1, <1>t, <2>1, <2>2, <2>3, WorldEffects
  <1>2. ASSUME FlushStep, UNCHANGED <<retireVars, hint>> PROVE FrameInv'
    <2>1. UNCHANGED <<hint, sweep>>
      BY <1>2 DEF retireVars
    <2>2. CASE \E w \in Messages \cup Hosts :
                 \/ TakeKeySection(w) \/ ReadCandidate(w) \/ JoinOccupant(w) \/ ReadFinal(w) \/ CheckFence(w)
                 \/ LeaveKeySection(w)
      BY <2>1, <2>2, KeyFrames
    <2>3. CASE \E w \in Messages \cup Hosts : RearmFence(w) \/ RecordSpent(w) \/ SendEnter(w)
      BY <2>1, <2>3, FenceFrames, EnterFrames
    <2> QED BY <1>2, <2>1, <2>2, <2>3, PromptFrames
  <1>3. ASSUME RetireStep, hint' = SinkOf(daemon'), UNCHANGED flushVars PROVE FrameInv'
    <2>1. /\ Held' = Held /\ pane'.occ = pane.occ
          /\ UNCHANGED <<landed, pressed, fence, repeated, send, key, lapsed>>
      BY <1>3, <1>t, RetireEffects DEF PaneStates, Held, flushVars
    <2>2. hint'.pc \in {"reading", "unsent", "locked"} => hint' = hint
      BY <1>3 DEF SinkOf, NoHint
    <2>3. lock' \in {lock, Nothing, Retirer} /\ (lock' # lock => lock \in Hints \cup {Retirer, Nothing})
      <3>1. lock' \in {lock, Nothing, Retirer}
        BY <1>3, RetireEffects
      <3>2. CASE TakePaneLock
        BY <3>1, <3>2 DEF TakePaneLock, TakeLock
      <3>3. CASE DropLock(Retirer)
        BY <3>1, <3>3 DEF DropLock
      <3>4. CASE CrashDaemon
        BY <3>1, <3>4 DEF CrashDaemon, DaemonWriters
      <3>5. lock' = lock \/ TakePaneLock \/ DropLock(Retirer) \/ CrashDaemon
        BY <1>3 DEF RetireStep, worldVars, SweepTick, EvaluateIdle, ScreenUnreadable, ObserveClock,
             HeldBack, Eligible, PaneLockUnavailable, TakeRunFlock, RunFlockUnavailable,
             RecheckRecords, RecheckScreen, RecheckLease, RecheckTrace, DispatchClose, ReadbackProves, ReconciledAbsent,
             MutationUncertain, WriteLaneRetired, ConsumeAbsence, EmitPaneClosed, ConfirmedExpires, SettleSupervisor,
             BeginShutdown, DrainSweep, StopSupervisors, CloseAndRelease, RestartDaemon, SweepEnds,
             SweepGoes, Settles, CloseLeaves, DaemonGoes
      <3> QED BY <3>1, <3>2, <3>3, <3>4, <3>5
    <2> QED BY <2>1, <2>2, <2>3, <1>p, <1>q
  <1>4. ASSUME HintAction, UNCHANGED flushVars PROVE FrameInv'
    <2>h. hint \in [pc: {"idle", "reading", "unsent", "locked", "written"},
                  text: Hints \cup {Nothing}, sent: BOOLEAN]
      BY <1>t DEF HintTypeOK
    <2>1. CASE PromptOwner
      <3>1. hint.pc = "locked" /\ hint.text \in Hints /\ hint.text \in Messages /\ hint.text \notin landed
        BY <2>1, <1>p DEF PromptOwner
      <3>2. PaneMoves({hint.text}) /\ pressed' \subseteq pressed
        BY <2>1, <3>1, <1>t, TextMoves DEF PromptOwner
      <3>3. /\ landed' = landed \cup {hint.text} /\ UNCHANGED <<lock, fence, repeated, lapsed, key, send>>
            /\ hint'.pc = "written"
        BY <1>4, <2>1, <2>h DEF PromptOwner, flushVars
      <3>4. Fresh(hint.text) /\ \A n \in Messages : Fresh(n)' => Fresh(n) /\ n # hint.text
        BY <3>1, <3>3 DEF Fresh
      <3> DEFINE x == hint.text
      <3>5. FrameKept({x})
        BY <3>1, <3>2, <3>3, <3>4 DEF FrameKept, PaneMoves
      <3> QED BY <3>5, KeptFrames
    <2>2. CASE EnterHintSection \/ LeaveHintSection
      <3>1. /\ Held' = Held /\ pane'.occ = pane.occ
            /\ UNCHANGED <<landed, pressed, fence, repeated, send, key, lapsed>>
        BY <1>4, <2>2 DEF EnterHintSection, LeaveHintSection, Held, flushVars
      <3>2. hint.text \in Hints /\ key[hint.text].pc = "idle" /\ ~Presses(hint.text)
        BY <2>2, <1>p, <1>t DEF EnterHintSection, LeaveHintSection, HintTypeOK
      <3>3. \/ lock = Nothing /\ lock' = hint.text
            \/ lock' = IF lock = hint.text THEN Nothing ELSE lock
        BY <2>2 DEF EnterHintSection, LeaveHintSection, TakeLock, DropLock
      <3>4. hint'.pc \in {"reading", "unsent", "locked"} => hint'.text \notin landed
        BY <2>2, <2>h, <1>p DEF EnterHintSection, LeaveHintSection, HintDropped
      <3> QED BY <3>1, <3>2, <3>3, <3>4, <1>q
    <2>3. CASE \/ \E m \in Hints : FireHint(m)
               \/ WindowOver \/ ReadOwnerPane \/ OwnerNotIdle \/ HintSectionRefused \/ HintRefused
      <3>1. UNCHANGED worldVars
        BY <2>3 DEF FireHint, WindowOver, ReadOwnerPane, OwnerNotIdle, HintSectionRefused, HintRefused
      <3>2. hint'.pc \in {"reading", "unsent", "locked"} => hint'.text \notin landed
        BY <2>3, <2>h, <1>p DEF FireHint, WindowOver, ReadOwnerPane, OwnerNotIdle, HintSectionRefused,
                               HintRefused, HintDropped
      <3> QED BY <1>4, <3>1, <3>2, <1>t, <1>o, WorldQuiet
    <2> QED BY <1>4, <2>1, <2>2, <2>3 DEF HintAction, EventFires, HintStep
  <1>5. ASSUME ControlStep, UNCHANGED <<flushVars, hint>> PROVE FrameInv'
    BY <1>5, <1>t, <1>o, <1>p, ControlEffects
  <1>6. ASSUME HolderDies PROVE FrameInv'
    <2>1. /\ UNCHANGED <<pane, landed, fence, pressed, repeated, flushVars, hint>> /\ lock' = Nothing
          /\ lapsed' = (lapsed \/ IF lock = Retirer THEN ClosePastItsCheck
                          ELSE PastItsCheck(lock) \/ (lock = hint.text /\ hint.pc = "locked"))
      BY <1>6 DEF HolderDies
    <2>2. \A w \in Messages \cup Hosts : Presses(w) /\ lock = w => lapsed'
      BY <2>1 DEF Presses, PastItsCheck
    <2>3. ~lapsed' => ~lapsed
      BY <2>1
    <2>4. Held' = Held /\ pane'.occ = pane.occ /\ UNCHANGED <<send, key>>
      BY <2>1 DEF Held, flushVars
    <2>5. hint'.pc \in {"reading", "unsent", "locked"} => hint'.text \notin landed
      BY <2>1, <1>p
    <2> QED BY <2>1, <2>2, <2>3, <2>4, <2>5, <1>q
  <1>7. ASSUME UNCHANGED vars PROVE FrameInv'
    <2>1. UNCHANGED worldVars /\ UNCHANGED <<flushVars, hint>>
      BY <1>7 DEF vars
    <2> QED BY <2>1, <1>t, <1>o, <1>p, WorldQuiet
  <1> QED BY <1>1, <1>2, <1>3, <1>4, <1>5, <1>6, <1>7 DEF Next, HintAction

LEMMA InitFrames == Init => FrameInv
  <1> SUFFICES ASSUME Init PROVE FrameInv
    OBVIOUS
  <1>1. pressed = {} /\ Held = {} /\ ~repeated /\ hint.pc = "idle"
    BY DEF Init, WorldInit, HintInit, NoHint, Held
  <1>2. \A w \in Messages \cup Hosts : key[w].pc = "idle" /\ Words(key[w].cand) = {}
    BY DEF Init, FlushInit, NoKey, Words
  <1>3. FreshIsNew /\ FramesAreReal /\ PressedIsSpent /\ OneEnterPerFrame
    BY <1>1 DEF FreshIsNew, FramesAreReal, PressedIsSpent, OneEnterPerFrame
  <1>4. \A w \in Messages \cup Hosts : KeyIsSound(w)
    BY <1>1, <1>2 DEF KeyIsSound, Presses, ProofsStand
  <1> QED BY <1>3, <1>4 DEF FrameInv

LEMMA FramesHold == Spec => []FrameInv
  BY InitFrames, FrameStep, LocksHold, TypesAndLane, PTL DEF Spec

(* No frame is pressed twice while the composer has not been empty, for any   *)
(* hosts, prompts, occupants, fence size and faults, as long as no holder     *)
(* died under a writer that does not look at its lease again.                 *)
THEOREM EntersAreNotRepeated == Spec => []OneEnterPerFrame
  <1>1. FrameInv => OneEnterPerFrame
    BY DEF FrameInv
  <1> QED BY <1>1, FramesHold, PTL

=============================================================================
