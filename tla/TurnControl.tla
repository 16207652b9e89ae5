------------------------------ MODULE TurnControl ------------------------------
(***************************************************************************)
(* cancel and interrupt of herdr_communicate                               *)
(* (src/src/tools/turn-control.ts): one Escape or one Ctrl-C for a working *)
(* agent, proven before the key and confirmed after it, without the pane's *)
(* write lock.  The call reports a stop only when a last snapshot shows    *)
(* the same agent in a terminal state with a later counter, and an exit    *)
(* only when it shows the pane without an agent and the session nowhere    *)
(* else.                                                                   *)
(***************************************************************************)
EXTENDS PaneWorld

VARIABLE ctl        \* the one turn-control call

Operations == {"cancel", "interrupt"}
NoCtl == [pc |-> "idle", op |-> "cancel", occ |-> 0, seq |-> 0, acked |-> FALSE, outcome |-> "none"]

ControlTypeOK ==
    ctl \in [pc: {"idle", "snapshot", "identified", "dispatched", "waited", "over"}, op: Operations,
             occ: 0..MaxOccupants, seq: 0..MaxSeq, acked: BOOLEAN,
             outcome: {"none", "stopped", "exited", "unconfirmed"}]

ControlInit == ctl = NoCtl

Ends(outcome) ==
    /\ ctl' = [ctl EXCEPT !.pc = "over", !.outcome = outcome]
    /\ UNCHANGED worldVars

(* snapshot and pre_state: the joined records of a working target. *)
PreState ==
    /\ Controller \in cast /\ ctl.pc = "idle"
    /\ Joins(pane.occ) /\ pane.status = "working"
    /\ \E op \in Operations :
         ctl' = [NoCtl EXCEPT !.pc = "snapshot", !.op = op, !.occ = pane.occ, !.seq = pane.seq]
    /\ UNCHANGED worldVars

(* identity: the fresh agent record joins with the snapshot's and still works; *)
(* its counter, never behind the snapshot's, is the baseline.                  *)
FreshIdentity ==
    /\ ctl.pc = "snapshot"
    /\ Joins(ctl.occ) /\ pane.status = "working" /\ pane.seq >= ctl.seq
    /\ ctl' = [ctl EXCEPT !.pc = "identified", !.seq = pane.seq]
    /\ UNCHANGED worldVars

IdentityRefused ==
    /\ ctl.pc = "snapshot"
    /\ ~(Joins(ctl.occ) /\ pane.status = "working")
    /\ Ends("none")

(* dispatch: the key reaches whatever is in the pane by then.  It may end a   *)
(* turn, make the agent exit, do nothing, and its answer may be lost.         *)
DispatchKey ==
    /\ ctl.pc = "identified"
    /\ \E acked \in BOOLEAN : ctl' = [ctl EXCEPT !.pc = "dispatched", !.acked = acked]
    /\ \/ UNCHANGED <<pane, pressed>>
       \/ /\ Joins(pane.occ) /\ pane.status = "working" /\ pane.seq < MaxSeq
          /\ PaneBecomes([pane EXCEPT !.status = "idle", !.seq = @ + 1])
       \/ /\ Joins(pane.occ) /\ ctl.op = "interrupt"
          /\ PaneBecomes(AgentLeaves(FALSE))
    /\ UNCHANGED <<turns, landed, lane, lock, fence, repeated, faults, lapsed>>

(* agent wait for any state but working, bounded; its failure is only noted. *)
WaitWindow ==
    /\ ctl.pc = "dispatched"
    /\ ctl' = [ctl EXCEPT !.pc = "waited"]
    /\ UNCHANGED worldVars

(* finalRecord, isAgentFreeUnknown, hasCapturedSessionElsewhere *)
AgentExited == pane.open /\ pane.status = "gone" /\ ~pane.elsewhere

(* sameIdentity, isTerminalState and a counter past the baseline. *)
SameAgentStopped == Joins(ctl.occ) /\ pane.status = "idle" /\ pane.seq > ctl.seq

(* The last snapshot decides; a snapshot that fails confirms nothing. *)
ConfirmExit == ctl.pc = "waited" /\ ctl.op = "interrupt" /\ ctl.acked /\ AgentExited /\ Ends("exited")
ConfirmStop == ctl.pc = "waited" /\ SameAgentStopped /\ Ends("stopped")
Unconfirmed == ctl.pc = "waited" /\ Ends("unconfirmed")

ControlStep ==
    \/ PreState \/ FreshIdentity \/ IdentityRefused \/ DispatchKey \/ WaitWindow
    \/ ConfirmExit \/ ConfirmStop \/ Unconfirmed

=============================================================================
