----------------------------- MODULE LaunchStart -----------------------------
(***************************************************************************)
(* Placement and the fallback chain (src/src/tools/launch.ts,              *)
(* executeChild): a pane in a workload tab, its shell, and an agent from   *)
(* the first operating point of the chain that starts.                     *)
(***************************************************************************)
EXTENDS LaunchRequest

CONSTANT TabMaxPanes    \* WORKLOAD_TAB_MAX_PANES

PanesIn(t, among) == {p \in among : pane[p].tab = t}

(* selectWorkloadTab: the lowest tab of the baseline with room, or the next. *)
ReusableTabs(l) == {t \in {pane[p].tab : p \in L[l].seen} \ {NoTab} :
                      Cardinality(PanesIn(t, L[l].seen)) < TabMaxPanes}
SelectWorkloadTab(l) ==
    IF ReusableTabs(l) # {} THEN Min(ReusableTabs(l))
    ELSE Max({pane[p].tab : p \in L[l].seen} \union {0}) + 1
Anchor(l) == Max(PanesIn(SelectWorkloadTab(l), L[l].seen))

OpenRequest(l) == [op |-> "open", by |-> l, pane |-> NoPane, tab |-> SelectWorkloadTab(l), point |-> NoPoint]

(* The references of a created pane; a tab's answer may come without one. *)
PlacedRefs(l) == [pane |-> Len(pane) + 1, tab |-> SelectWorkloadTab(l)]
TabRef(l) == [tab |-> SelectWorkloadTab(l)]

(* A split needs its anchor, a tab its label only.  A client that gives up    *)
(* does not know whether the server acts; a created tab may be known without  *)
(* its pane.                                                                  *)
Place(l) ==
    /\ At(l, "place")
    /\ \/ L[l].aborted /\ Calm /\ Fails(l) /\ UNCHANGED hostVars
       \/ /\ ~L[l].aborted /\ ReusableTabs(l) # {} /\ Anchor(l) \notin OpenPanes /\ Calm
          /\ Failing(l, [dispatched |-> TRUE]) /\ UNCHANGED hostVars
       \/ /\ ~L[l].aborted /\ (ReusableTabs(l) # {} => Anchor(l) \in OpenPanes) /\ Len(pane) < MaxPanes
          /\ \/ /\ Calm /\ pane' = OpenedPane(SelectWorkloadTab(l), l) /\ UNCHANGED <<agent, late>>
                /\ Put(l, With(PlacedRefs(l), [pc |-> "shell", dispatched |-> TRUE]))
             \/ /\ Trouble("faults") /\ pane' = OpenedPane(SelectWorkloadTab(l), l) /\ UNCHANGED <<agent, late>>
                /\ \/ Failing(l, [dispatched |-> TRUE])
                   \/ ReusableTabs(l) = {} /\ Failing(l, With(TabRef(l), [dispatched |-> TRUE]))
             \/ /\ Trouble("faults") /\ Failing(l, [dispatched |-> TRUE]) /\ UNCHANGED <<pane, agent>>
                /\ late' \in {late, late \union {OpenRequest(l)}}
    /\ Rest /\ UNCHANGED <<cool, run, rec>>

(* The rename and the shell's answer to the readiness marker. *)
ShellReady(l) ==
    /\ At(l, "shell")
    /\ LET fails == L[l].aborted \/ L[l].pane \notin OpenPanes
       IN  \/ fails /\ Calm /\ Fails(l)
           \/ ~fails /\ Trouble("faults") /\ Fails(l)
           \/ ~fails /\ Calm /\ Put(l, [pc |-> "attempt"])
    /\ LaunchOnly

-----------------------------------------------------------------------------
(* The fallback chain. *)

(* Each attempt passes the gate and a fresh probe; an unavailable point, or   *)
(* one whose prompt source cannot be written, is skipped.                     *)
Attempt(l) ==
    /\ At(l, "attempt")
    /\ \/ (L[l].todo = <<>> \/ ~GateOpen) /\ Calm /\ Fails(l)
       \/ /\ L[l].todo # <<>> /\ GateOpen
          /\ LET p == Head(L[l].todo)
                 skip == [todo |-> Tail(L[l].todo)]
             IN  \/ Status(p) \in Unavailable /\ Calm /\ Put(l, skip)
                 \/ Status(p) \notin Unavailable /\ Trouble("faults") /\ Put(l, skip)
                 \/ /\ Status(p) \notin Unavailable /\ Calm
                    /\ Put(l, With(skip, [pc |-> "start", cur |-> p]))
    /\ LaunchOnly

StartRequest(l) == [op |-> "start", by |-> l, pane |-> L[l].pane, tab |-> NoTab, point |-> L[l].cur]

(* A proven exit before the agent was interactive, a quota refusal, or a      *)
(* client killed at its deadline leaves the chain open; nothing else does.    *)
StartFailureEvidence(code) ==
    code \in {"agent_start_failed", "CLI_TIMEOUT"} \/ ClassifyLaunchFailure(code) = "quota"

(* A failed start is recorded in the cooldown log before anything else; the   *)
(* log's failure is the launch's.                                             *)
StartFails(l, code, answered) ==
    LET left == [dispatched |-> TRUE, started |-> answered]
    IN  \/ /\ cool' = Recorded(L[l].cur, code)
           /\ Put(l, With(left, [pc |-> IF StartFailureEvidence(code) THEN "start_failed" ELSE "failing"]))
        \/ "faults" \in cast /\ UNCHANGED cool /\ Failing(l, left)

Spawned(l) == Started(L[l].pane, l, L[l].cur, "boot")
Held(l) == {e \in late : ~(e.op = "start" /\ e.pane = L[l].pane)}

(* The answer names the agent; agent_not_ready leaves it alive without a      *)
(* record to compare later ones with.                                         *)
StartAnswered(l) ==
    /\ agent' = Spawned(l) /\ late' = Held(l) /\ UNCHANGED cool
    /\ LET selected == [pc |-> "select", dispatched |-> TRUE, started |-> TRUE]
       IN  \/ Calm /\ Put(l, With(selected, [startRec |-> Len(agent) + 1]))
           \/ Trouble("starts") /\ Put(l, With(selected, [startRec |-> NoAgent]))

StartRefused(l) ==
    /\ UNCHANGED agent /\ late' = Held(l)
    /\ \E code \in {"agent_start_failed", "rate_limit"} : StartFails(l, code, FALSE)

(* The client is killed at its deadline: the server acted, acts later or not. *)
StartTimesOut(l) ==
    /\ StartFails(l, "CLI_TIMEOUT", FALSE)
    /\ \/ agent' = Spawned(l) /\ late' = Held(l)
       \/ UNCHANGED agent /\ late' \in {Held(l), Held(l) \union {StartRequest(l)}}

(* An answer that proves nothing, or whose record names another agent. *)
StartUnproven(l) ==
    /\ late' = Held(l)
    /\ \/ StartFails(l, "CLI_PROTOCOL_ERROR", FALSE) /\ agent' \in {Spawned(l), agent}
       \/ StartFails(l, "TARGET_IDENTITY_UNAVAILABLE", TRUE) /\ agent' = Spawned(l)

(* A busy pane is asked again until the settle deadline. *)
Start(l) ==
    /\ At(l, "start")
    /\ LET p == L[l].pane
       IN  \/ L[l].aborted /\ Calm /\ StartFails(l, "ABORTED", FALSE) /\ UNCHANGED hostVars
           \/ /\ ~L[l].aborted /\ p \notin OpenPanes /\ Calm
              /\ StartFails(l, "CLI_PROTOCOL_ERROR", FALSE) /\ UNCHANGED hostVars
           \/ /\ ~L[l].aborted /\ p \in OpenPanes /\ Occupant(p) # NoAgent /\ Calm
              /\ StartFails(l, "agent_pane_busy", FALSE) /\ late' = Held(l) /\ UNCHANGED <<pane, agent>>
           \/ /\ ~L[l].aborted /\ p \in OpenPanes /\ Occupant(p) = NoAgent /\ Len(agent) < MaxAgents
              /\ UNCHANGED pane
              /\ \/ StartAnswered(l)
                 \/ Trouble("starts") /\ (StartRefused(l) \/ StartTimesOut(l) \/ StartUnproven(l))
    /\ Rest /\ UNCHANGED <<run, rec>>

(* The next candidate is tried only in a pane that was read and has no agent. *)
FallbackAllowed(l) == ~L[l].aborted /\ L[l].pane \in OpenPanes /\ Occupant(L[l].pane) = NoAgent

StartFailed(l) ==
    /\ At(l, "start_failed")
    /\ \/ FallbackAllowed(l) /\ Calm /\ Put(l, [pc |-> "attempt"])
       \/ ~FallbackAllowed(l) /\ Calm /\ Fails(l)
       \/ Trouble("faults") /\ Fails(l)
    /\ LaunchOnly

(* The record's route follows the point that really started. *)
SelectCandidate(r, p) == [r EXCEPT !.point = p]

Select(l) ==
    /\ At(l, "select")
    /\ \/ Calm /\ run' = [run EXCEPT ![l] = SelectCandidate(@, L[l].cur)] /\ Put(l, [pc |-> "ready"])
       \/ Trouble("faults") /\ Fails(l) /\ UNCHANGED run
    /\ Rest /\ UNCHANGED <<hostVars, cool, rec>>
=============================================================================
