------------------------------ MODULE HerdrHost ------------------------------
(***************************************************************************)
(* Herdr as the launch pipeline uses it, with the people and the agents    *)
(* around it: panes and the tabs that hold them, the agent in a pane, and  *)
(* requests whose effect lands after the client stopped waiting.  It is    *)
(* external to the repository; the code's argument lists, the answers it   *)
(* accepts and the errors it distinguishes say what is assumed here.       *)
(*                                                                         *)
(* Requests for one pane are served one at a time: an agent start that     *)
(* still waits when the next one is served never runs.                     *)
(***************************************************************************)
EXTENDS Cooldowns, FiniteSets, FiniteSetsExt

CONSTANTS
    Launches,      \* 1..n, the launch requests
    MaxPanes,      \* bound on the panes ever opened
    MaxAgents,     \* bound on the agents ever started
    MaxTurns       \* bound on an agent's turns

ASSUME HostAssumption ==
    /\ Launches \subseteq Nat \ {0} /\ {1, 2} \subseteq Launches
    /\ {MaxPanes, MaxAgents, MaxTurns} \subseteq Nat

VARIABLES
    pane,          \* the panes ever opened, in order
    agent,         \* the agents ever started, in order
    late           \* requests the server still holds

Stranger == 0
NoAgent == 0
NoPane == 0
NoTab == 0
Callers == Launches \union {Stranger}

Kinds == {"claude", "devin", "agy"}
HasLimitReader(p) == Kind[p] \in {"claude", "devin"}

HostInit == pane = <<>> /\ agent = <<>> /\ late = {}

OpenPanes == {p \in DOMAIN pane : pane[p].open}
Live == {a \in DOMAIN agent : agent[a].st # "dead"}
Occupant(p) == LET here == {a \in Live : agent[a].pane = p}
               IN  IF here = {} THEN NoAgent ELSE CHOOSE a \in here : TRUE

OpenedPane(tab, by) == Append(pane, [tab |-> tab, open |-> TRUE, by |-> by])

(* A started agent boots; its composer is empty and it heard no assignment. *)
Started(p, by, point, st) ==
    Append(agent, [pane |-> p, by |-> by, point |-> point, st |-> st, seq |-> 0, turns |-> 0,
                   native |-> FALSE, text |-> "none", heard |-> [c \in Launches |-> 0],
                   limit |-> "no"])

(* Only an interactive agent takes a prompt.  Devin may keep the paste in its *)
(* composer, unsent.                                                          *)
Prompted(a, by, text) ==
    [agent EXCEPT ![a].heard[by] = @ + 1, ![a].text = text]
TextsOf(a) == IF Kind[agent[a].point] = "devin" THEN {"sent", "unsent"} ELSE {"sent"}
TakesPrompt(a) == a # NoAgent /\ agent[a].st # "boot" /\ agent[a].text = "none"

(* Closing a pane ends its agent and whatever still waits for it. *)
ClosePane(p) ==
    /\ pane' = [pane EXCEPT ![p].open = FALSE]
    /\ agent' = [a \in DOMAIN agent |->
                   IF agent[a].pane = p THEN [agent[a] EXCEPT !.st = "dead"] ELSE agent[a]]
    /\ late' = {e \in late : e.pane # p}

-----------------------------------------------------------------------------
(* What agents do by themselves. *)

AgentBoots(a) ==
    /\ agent[a].st = "boot"
    /\ agent' = [agent EXCEPT ![a].st = "idle", ![a].seq = @ + 1,
                              ![a].native = Kind[agent[a].point] # "agy"]
    /\ UNCHANGED <<pane, late>>

(* A submitted prompt starts a turn; AGY names its native session then. *)
AgentWorks(a) ==
    /\ agent[a].st = "idle" /\ agent[a].text = "sent" /\ agent[a].turns < MaxTurns
    /\ agent' = [agent EXCEPT ![a].st = "working", ![a].seq = @ + 1, ![a].turns = @ + 1,
                              ![a].native = TRUE, ![a].text = "none"]
    /\ UNCHANGED <<pane, late>>

AgentRests(a) ==
    /\ agent[a].st = "working"
    /\ agent' = [agent EXCEPT ![a].st = "idle", ![a].seq = @ + 1]
    /\ UNCHANGED <<pane, late>>

(* The provider stops a turn, before or after it made progress. *)
AgentLimited(a) ==
    /\ agent[a].st = "working" /\ HasLimitReader(agent[a].point)
    /\ \E limit \in {"zero", "progress"} :
         agent' = [agent EXCEPT ![a].st = "idle", ![a].seq = @ + 1, ![a].limit = limit]
    /\ UNCHANGED <<pane, late>>

AgentExits(a) ==
    /\ agent[a].st # "dead"
    /\ agent' = [agent EXCEPT ![a].st = "dead"]
    /\ UNCHANGED <<pane, late>>

-----------------------------------------------------------------------------
(* What others do, and what the server does late. *)

StrangerOpensPane ==
    /\ Len(pane) < MaxPanes
    /\ pane' = OpenedPane(NoTab, Stranger)
    /\ UNCHANGED <<agent, late>>

StrangerStartsAgent(p, point) ==
    /\ p \in OpenPanes /\ Occupant(p) = NoAgent /\ Len(agent) < MaxAgents
    /\ agent' = Started(p, Stranger, point, "idle")
    /\ UNCHANGED <<pane, late>>

SomeoneCloses(p) == p \in OpenPanes /\ ClosePane(p)

(* A held request is served, or finds that it no longer can be. *)
Serve(e) ==
    /\ late' = late \ {e}
    /\ CASE e.op = "open" /\ Len(pane) < MaxPanes ->
              pane' = OpenedPane(e.tab, e.by) /\ UNCHANGED agent
         [] e.op = "start" /\ Occupant(e.pane) = NoAgent /\ Len(agent) < MaxAgents ->
              agent' = Started(e.pane, e.by, e.point, "boot") /\ UNCHANGED pane
         [] e.op = "prompt" /\ TakesPrompt(Occupant(e.pane)) ->
              /\ \E text \in TextsOf(Occupant(e.pane)) :
                   agent' = Prompted(Occupant(e.pane), e.by, text)
              /\ UNCHANGED pane
         [] OTHER -> UNCHANGED <<pane, agent>>
ServeLate ==
    \/ \E e \in late : e.op # "close" /\ Serve(e)
    \/ \E e \in late : e.op = "close" /\ ClosePane(e.pane)

HostTypeOK ==
    /\ pane \in Seq([tab : Nat, open : BOOLEAN, by : Callers])
    /\ agent \in Seq([pane : 1..MaxPanes, by : Callers, point : Points,
                      st : {"boot", "idle", "working", "dead"}, seq : Nat, turns : 0..MaxTurns,
                      native : BOOLEAN, text : {"none", "unsent", "sent"},
                      heard : [Launches -> Nat], limit : {"no", "zero", "progress"}])
    /\ \A e \in late : e.op \in {"open", "start", "prompt", "close"} /\ e.by \in Launches
=============================================================================
