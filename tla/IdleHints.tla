------------------------------- MODULE IdleHints -------------------------------
(***************************************************************************)
(* The daemon's idle hints (src/src/daemon/hints.ts) to the pane of a run's *)
(* owner, here the lane's own child, which manages runs of its own.  An    *)
(* event that was persisted fires the sink; one hint is in flight for a    *)
(* manager, and after a send none starts until the window is over.  The    *)
(* owner is read once, before the pane's lock, and the text goes to        *)
(* whatever agent the pane holds by then.                                  *)
(***************************************************************************)
EXTENDS PaneWorld

VARIABLE hint       \* the hint in flight; whether one was sent within the window

NoHint == [pc |-> "idle", text |-> Nothing, sent |-> FALSE]

HintTypeOK ==
    /\ hint \in [pc: {"idle", "reading", "unsent", "locked", "written"},
                 text: Hints \cup {Nothing}, sent: BOOLEAN]
    /\ hint.pc = "idle" <=> hint.text = Nothing

HintInit == hint = NoHint

HintDropped == hint' = [hint EXCEPT !.pc = "idle", !.text = Nothing]

(* The sink: a burst is covered by the hint in flight or the window. *)
FireHint(m) ==
    /\ m \in cast /\ m \notin landed
    /\ hint.pc = "idle" /\ ~hint.sent
    /\ hint' = [hint EXCEPT !.pc = "reading", !.text = m]
    /\ UNCHANGED worldVars

(* IDLE_HINT_COALESCE_MS *)
WindowOver ==
    /\ hint.sent
    /\ hint' = [hint EXCEPT !.sent = FALSE]
    /\ UNCHANGED worldVars

(* deliver: the pane holds the owner's session, idle, with mail unread. *)
ReadOwnerPane ==
    /\ hint.pc = "reading"
    /\ Joins(1) /\ pane.status = "idle"
    /\ hint' = [hint EXCEPT !.pc = "unsent", !.sent = TRUE]
    /\ UNCHANGED worldVars

(* The owner is busy or gone, or the read failed. *)
OwnerNotIdle == hint.pc = "reading" /\ HintDropped /\ UNCHANGED worldVars

EnterHintSection ==
    /\ hint.pc = "unsent"
    /\ TakeLock(hint.text)
    /\ hint' = [hint EXCEPT !.pc = "locked"]
    /\ UNCHANGED <<pane, turns, landed, lane, fence, pressed, repeated, faults, lapsed>>

HintSectionRefused ==
    /\ hint.pc = "unsent" /\ lock # Nothing
    /\ HintDropped /\ UNCHANGED worldVars

PromptOwner ==
    /\ hint.pc = "locked" /\ Joins(pane.occ)
    /\ TextLands(hint.text)
    /\ landed' = landed \cup {hint.text}
    /\ hint' = [hint EXCEPT !.pc = "written"]
    /\ UNCHANGED <<lane, lock, fence, repeated, faults, lapsed>>

HintRefused ==
    /\ hint.pc = "locked"
    /\ hint' = [hint EXCEPT !.pc = "written"]
    /\ UNCHANGED worldVars

LeaveHintSection ==
    /\ hint.pc = "written"
    /\ DropLock(hint.text)
    /\ HintDropped
    /\ UNCHANGED <<pane, turns, landed, lane, fence, pressed, repeated, faults, lapsed>>

HintStep ==
    \/ WindowOver \/ ReadOwnerPane \/ OwnerNotIdle
    \/ EnterHintSection \/ HintSectionRefused \/ PromptOwner \/ HintRefused \/ LeaveHintSection

=============================================================================
