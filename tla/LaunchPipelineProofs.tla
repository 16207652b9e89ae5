------------------------ MODULE LaunchPipelineProofs ------------------------
(***************************************************************************)
(* What holds of launches for any catalog, number of launches, bounds and  *)
(* casts: the types, that a launched child is the one that was started and *)
(* told, that a failure is reported truly, and that a recovery follows the *)
(* end of the run it recovers.                                             *)
(***************************************************************************)
EXTENDS LaunchPipeline, FiniteSetTheorems, WellFoundedInduction, TLAPS

-----------------------------------------------------------------------------
(* The types. *)
Codes == {"none", "refused", "route", "probe", "boundary", "log", "abstained", "not_started",
          "child", "prepare", "place", "shell", "attempt", "start", "start_failed", "select",
          "ready", "judge", "bind", "prompt", "confirm", "strengthen", "launched",
          "failing", "reading", "release", "failed"}

RunStates == Terminal \union {"none", "awaiting_handoff"}
IsRun(r) ==
    /\ DOMAIN r = DOMAIN NoRun
    /\ r.point \in Points \union {NoPoint} /\ r.tier \in 0..MaxTier /\ r.limited \in BOOLEAN
    /\ r.st \in RunStates
    /\ r.st # "none" => r.point # NoPoint

PaneRec == [tab : Nat, open : BOOLEAN, by : Callers]
AgentRec == [pane : 1..MaxPanes, by : Callers, point : Points,
             st : {"boot", "idle", "working", "dead"}, seq : Nat, turns : 0..MaxTurns,
             native : BOOLEAN, text : {"none", "unsent", "sent"},
             heard : [Launches -> Nat], limit : {"no", "zero", "progress"}]
LateRec == [op : {"open", "start", "prompt", "close"}, by : Launches, pane : 0..MaxPanes,
            tab : Nat, point : Points \union {NoPoint}]

HostTypes ==
    /\ pane \in Seq(PaneRec) /\ Len(pane) <= MaxPanes
    /\ agent \in Seq(AgentRec) /\ Len(agent) <= MaxAgents
    /\ late \subseteq LateRec
    /\ \A e \in late : e.op = "start" => e.point \in Points

Routes(r) ==
    /\ DOMAIN r = DOMAIN NoRoute /\ r.todo \in Seq(Points) /\ r.chain \in Seq(Points)

LaunchTypes(l) ==
    LET x == L[l]
    IN  /\ DOMAIN x = DOMAIN Fresh
        /\ x.pc \in Codes /\ x.of \in Launches \union {0} /\ IsRun(x.prior)
        /\ x.exact \in Points \union {NoPoint} /\ x.asked \in 0..MaxTier /\ x.tier \in 0..MaxTier
        /\ Routes(x.r) /\ x.todo \in Seq(Points) /\ x.cur \in Points \union {NoPoint}
        /\ x.seen \subseteq DOMAIN pane /\ x.pane \in 0..MaxPanes /\ x.tab \in Nat
        /\ x.dispatched \in BOOLEAN /\ x.started \in BOOLEAN
        /\ {x.startRec, x.sample, x.ident, x.ack} \subseteq 0..Len(agent) /\ x.base \in Nat
        /\ DOMAIN x.look = DOMAIN NoLook /\ x.look.cand \in 0..MaxPanes /\ x.look.made \in BOOLEAN
        /\ x.look.snapshot \in {"present", "absent", "failed"}
        /\ x.res \in {"none", "reserved", "released", "provisional", "bound", "settled"}
        /\ x.prov \in [seq : Nat, native : 0..Len(agent), rejected : BOOLEAN]
        /\ x.cert \in {"none", "absent", "partial", "unknown"}
        /\ IsRun(run[l])
        /\ x.pc \in {"child", "prepare"} => x.todo # <<>>

SharedTypes ==
    /\ DOMAIN L = Launches /\ DOMAIN run = Launches
    /\ cool \subseteq Records
    /\ rec \in {"none", "close", "readback", "mark", "relaunch", "relaunched", "failed"}
    /\ trouble \in 0..MaxTrouble /\ cast \in Casts

TypeInv == HostTypes /\ SharedTypes /\ \A l \in Launches : LaunchTypes(l)

-----------------------------------------------------------------------------
(* The host: an agent that lives has an open pane to itself, and what the  *)
(* server still holds for a pane is held for an open one.                  *)
HostInv ==
    /\ \A a \in Live : agent[a].pane \in OpenPanes
    /\ \A a, b \in Live : agent[a].pane = agent[b].pane => a = b
    /\ \A e \in late : e.op # "open" => e.pane \in OpenPanes

(* The progress of a launch, by what it may have made. *)
Early == {"none", "refused", "route", "probe", "boundary", "log", "abstained", "not_started",
          "child", "prepare", "place"}
Placed == {"shell", "attempt", "start", "start_failed", "select", "ready", "judge", "bind",
           "prompt", "confirm", "strengthen", "launched"}
Begun == {"select", "ready", "judge", "bind", "prompt", "confirm", "strengthen", "launched"}
Identified == {"bind", "prompt", "confirm", "strengthen", "launched"}
Supervised == {"prompt", "confirm", "strengthen", "launched"}

(* What a launch made: nothing before a request was dispatched, then one   *)
(* pane, and agents in no other.                                           *)
Untouched(l) ==
    /\ \A p \in DOMAIN pane : pane[p].by # l
    /\ \A a \in DOMAIN agent : agent[a].by # l
    /\ \A e \in late : e.by # l

OwnInv(l) ==
    LET x == L[l]
    IN  /\ x.pc = "none" => x = Fresh
        /\ ~x.dispatched => x.pane = NoPane /\ Untouched(l)
        /\ x.pc \in Early => ~x.dispatched
        /\ x.pc \in Placed => x.pane # NoPane
        /\ x.pane # NoPane =>
             /\ x.pane \in DOMAIN pane
             /\ pane[x.pane].by = l
             /\ \A p \in DOMAIN pane : pane[p].by = l => p = x.pane
             /\ \A e \in late : e.by = l => e.op # "open"
        /\ \A a \in DOMAIN agent : agent[a].by = l => x.pane # NoPane /\ agent[a].pane = x.pane
        /\ \A e \in late : e.by = l /\ e.op # "open" => x.pane # NoPane /\ e.pane = x.pane

(* The child: once an agent has answered the start no other of the launch  *)
(* can come, and the one that was identified stays the only one.           *)
ChildInv(l) ==
    LET x == L[l]
    IN  /\ x.pc \in Begun =>
             /\ x.cur \in Points
             /\ \A e \in late : e.by = l => e.op # "start"
             /\ \A a \in Live : agent[a].by = l => agent[a].point = x.cur
        /\ x.pc \in Begun \ {"select"} => run[l].point = x.cur
        /\ x.pc = "start" => x.cur \in Points
        /\ x.pc \in Identified => x.ident # NoAgent
        /\ x.pc \in Early \union (Placed \ Identified) => x.ident = NoAgent
        /\ x.ident # NoAgent =>
             /\ agent[x.ident].by = l /\ agent[x.ident].point = x.cur
             /\ x.cur \in Points /\ run[l].point = x.cur
             /\ \A e \in late : e.by = l => e.op # "start"
             /\ \A a \in Live : agent[a].by = l => a = x.ident

(* The prompt: it is out only under supervision, and after it was answered *)
(* the child alone has heard it, once.                                     *)
Bound == {"provisional", "bound", "settled"}
Unheard(l) ==
    /\ \A a \in DOMAIN agent : agent[a].heard[l] = 0
    /\ \A e \in late : e.by = l => e.op # "prompt"

PromptInv(l) ==
    LET x == L[l]
    IN  /\ x.pc \in Early \union (Placed \ Supervised) => x.res \in {"none", "reserved"}
        /\ x.pc \in Supervised => x.res \in Bound
        /\ x.pc \in {"prompt", "confirm"} /\ Kind[x.cur] # "agy" => x.res \in {"bound", "settled"}
        /\ x.pc = "launched" => x.res \in {"bound", "settled"}
        /\ x.res \in Bound => x.ident # NoAgent
        /\ x.res \notin Bound \/ x.pc = "prompt" => Unheard(l)
        /\ x.pc \in {"confirm", "strengthen", "launched"} =>
             /\ \A a \in DOMAIN agent : agent[a].heard[l] = IF a = x.ident THEN 1 ELSE 0
             /\ \A e \in late : e.by = l => e.op # "prompt"

(* The report: absence rests on the launch's own pane being gone. *)
Gone(l) ==
    /\ \A p \in OpenPanes : pane[p].by # l
    /\ \A a \in Live : agent[a].by # l
    /\ \A e \in late : e.by # l

ReportInv(l) ==
    LET x == L[l]
    IN  /\ x.cert # "none" => x.pc \in {"refused", "release", "failed"}
        /\ x.cert = "absent" => Gone(l)
        /\ x.pc = "reading" /\ x.look.snapshot = "absent" /\ ~x.look.made =>
             /\ x.look.cand \in {NoPane, x.pane}
             /\ x.look.cand # NoPane => x.look.cand \notin OpenPanes

(* The recovery: a run that failed or was cancelled has no child left; and *)
(* what recovers it keeps off the provider of its point.                   *)
RunInv(l) ==
    run[l].st \in {"failed", "cancelled"} => L[l].ident # NoAgent /\ L[l].ident \notin Live

RecoveryInv ==
    /\ rec # "none" => L[1].ident # NoAgent
    /\ rec \in {"close", "readback", "mark", "relaunch"} => L[2].pc = "none" /\ "auto" \in cast
    /\ rec = "mark" => L[1].pane \notin OpenPanes

Elsewhere(l, p) == Provider[p] # Provider[L[l].prior.point]

RouteInv(l) ==
    LET x == L[l]
    IN  /\ x.prior.st \in {"failed", "cancelled"} =>
             /\ x.of \in Launches /\ L[x.of].ident # NoAgent /\ L[x.of].ident \notin Live
             /\ x.prior.point = L[x.of].cur
        /\ x.prior.point # NoPoint =>
             /\ \A i \in DOMAIN x.r.chain : Elsewhere(l, x.r.chain[i])
             /\ \A i \in DOMAIN x.todo : Elsewhere(l, x.todo[i])
             /\ x.cur # NoPoint => Elsewhere(l, x.cur)
             /\ \A a \in DOMAIN agent : agent[a].by = l => Elsewhere(l, agent[a].point)
             /\ \A e \in late : e.by = l /\ e.op = "start" => Elsewhere(l, e.point)

OwnsInv == \A l \in Launches : OwnInv(l)
ChildrenInv == \A l \in Launches : ChildInv(l)
PromptsInv == \A l \in Launches : PromptInv(l)
ReportsInv == \A l \in Launches : ReportInv(l)
RunsInv == \A l \in Launches : RunInv(l)
RoutesInv == \A l \in Launches : RouteInv(l)
-----------------------------------------------------------------------------
(* Steps of one launch, by the fields they may change. *)
Fields == DOMAIN Fresh

Changes(l, fields) ==
    /\ DOMAIN L' = Launches /\ DOMAIN L'[l] = Fields
    /\ \A m \in Launches \ {l} : L'[m] = L[m]
    /\ \A x \in Fields \ fields : L'[l][x] = L[l][x]

LEMMA FieldNames ==
    Fields = {"pc", "of", "internal", "prior", "exact", "asked", "tier", "r", "todo", "cur", "seen",
              "pane", "tab", "dispatched", "started", "startRec", "sample", "ident", "base", "look",
              "hook", "submitted", "ack", "resent", "limited", "res", "prov", "aborted", "cert"}
  BY DEF Fields, Fresh

(* Put replaces the fields it is given and keeps the others. *)
LEMMA PutChanges ==
    ASSUME TypeInv, NEW l \in Launches, NEW f, DOMAIN f \subseteq Fields, Put(l, f)
    PROVE  /\ Changes(l, DOMAIN f)
           /\ \A x \in DOMAIN f : L'[l][x] = f[x]
  <1>1. DOMAIN L = Launches /\ DOMAIN L[l] = Fields
    BY DEF TypeInv, SharedTypes, LaunchTypes, Fields
  <1>2. L' = [L EXCEPT ![l] = With(L[l], f)]
    BY DEF Put
  <1>3. L'[l] = With(L[l], f) /\ DOMAIN L' = Launches
    BY <1>1, <1>2
  <1>4. DOMAIN With(L[l], f) = Fields
    BY <1>1 DEF With
  <1>5. \A x \in Fields : With(L[l], f)[x] = IF x \in DOMAIN f THEN f[x] ELSE L[l][x]
    BY <1>1 DEF With
  <1> QED
    BY <1>1, <1>2, <1>3, <1>4, <1>5 DEF Changes

-----------------------------------------------------------------------------
(* The host: panes and agents are only added, and end once. *)
Grows ==
    /\ Len(pane) <= Len(pane') /\ Len(agent) <= Len(agent')
    /\ \A p \in DOMAIN pane : pane'[p].by = pane[p].by /\ (pane'[p].open => pane[p].open)
    /\ \A a \in DOMAIN agent :
         /\ agent'[a].by = agent[a].by /\ agent'[a].pane = agent[a].pane /\ agent'[a].point = agent[a].point
         /\ agent[a].st = "dead" => agent'[a].st = "dead"

(* What is new on the host is another's. *)
NoPaneOf(m) == \A p \in DOMAIN pane' : p > Len(pane) => pane'[p].by # m
NoAgentOf(m) == \A a \in DOMAIN agent' : a > Len(agent) => agent'[a].by # m
NoLateOf(m) == \A e \in late' : e.by = m => e \in late
Unchanged(m) ==
    /\ \A a \in DOMAIN agent : agent'[a].heard[m] = agent[a].heard[m]
    /\ \A a \in DOMAIN agent' : a > Len(agent) => agent'[a].heard[m] = 0
Spares(m) == NoPaneOf(m) /\ NoAgentOf(m) /\ NoLateOf(m) /\ Unchanged(m)

LEMMA HostShape ==
    ASSUME HostTypes
    PROVE  /\ DOMAIN pane = 1..Len(pane) /\ Len(pane) \in Nat /\ Len(pane) <= MaxPanes
           /\ DOMAIN agent = 1..Len(agent) /\ Len(agent) \in Nat /\ Len(agent) <= MaxAgents
           /\ \A p \in DOMAIN pane : pane[p] \in PaneRec
           /\ \A a \in DOMAIN agent : agent[a] \in AgentRec
           /\ OpenPanes \subseteq DOMAIN pane /\ Live \subseteq DOMAIN agent
           /\ \A e \in late : e \in LateRec
           /\ MaxPanes \in Nat /\ MaxAgents \in Nat /\ MaxTurns \in Nat
           /\ NoAgent \notin DOMAIN agent /\ NoPane \notin DOMAIN pane
  <1>1. MaxPanes \in Nat /\ MaxAgents \in Nat /\ MaxTurns \in Nat
    BY HostAssumption
  <1>2. DOMAIN pane = 1..Len(pane) /\ Len(pane) \in Nat /\ \A p \in DOMAIN pane : pane[p] \in PaneRec
    BY DEF HostTypes
  <1>3. DOMAIN agent = 1..Len(agent) /\ Len(agent) \in Nat /\ \A a \in DOMAIN agent : agent[a] \in AgentRec
    BY DEF HostTypes
  <1>4. OpenPanes \subseteq DOMAIN pane /\ Live \subseteq DOMAIN agent
    BY DEF OpenPanes, Live
  <1> QED
    BY <1>1, <1>2, <1>3, <1>4 DEF HostTypes, NoAgent, NoPane

(* Who is in a pane. *)
LEMMA OccupantIs ==
    ASSUME HostTypes, HostInv, NEW p
    PROVE  /\ Occupant(p) # NoAgent => Occupant(p) \in Live /\ agent[Occupant(p)].pane = p
           /\ \A a \in Live : agent[a].pane = p => Occupant(p) = a
  <1> DEFINE here == {a \in Live : agent[a].pane = p}
  <1>1. here = {} => Occupant(p) = NoAgent
    BY DEF Occupant
  <1>2. here # {} => Occupant(p) \in here
    BY DEF Occupant
  <1>3. \A a, b \in here : a = b
    BY DEF HostInv
  <1> QED
    BY <1>1, <1>2, <1>3

(* A pane is opened. *)
LEMMA OpensPane ==
    ASSUME HostTypes, HostInv, NEW tab \in Nat, NEW by \in Callers, Len(pane) < MaxPanes,
           pane' = OpenedPane(tab, by), agent' = agent, late' \subseteq late
    PROVE  /\ HostTypes' /\ HostInv' /\ Grows
           /\ Len(pane') = Len(pane) + 1 /\ pane'[Len(pane) + 1].by = by
           /\ OpenPanes' = OpenPanes \union {Len(pane) + 1} /\ Live' = Live
  <1>1. [tab |-> tab, open |-> TRUE, by |-> by] \in PaneRec
    BY DEF PaneRec
  <1>2. pane' \in Seq(PaneRec) /\ Len(pane') = Len(pane) + 1
    BY <1>1 DEF HostTypes, OpenedPane
  <1>3. \A p \in DOMAIN pane : pane'[p] = pane[p]
    BY <1>1 DEF HostTypes, OpenedPane
  <1>4. pane'[Len(pane) + 1] = [tab |-> tab, open |-> TRUE, by |-> by]
    BY <1>1 DEF HostTypes, OpenedPane
  <1>5. HostTypes'
    BY <1>2, HostShape DEF HostTypes
  <1>6. DOMAIN pane' = DOMAIN pane \union {Len(pane) + 1}
    BY <1>2, HostShape
  <1>7. OpenPanes' = OpenPanes \union {Len(pane) + 1} /\ Live' = Live
    BY <1>3, <1>4, <1>6, HostShape DEF OpenPanes, Live
  <1>8. HostInv'
    BY <1>7 DEF HostInv
  <1>9. Grows
    BY <1>2, <1>3, HostShape DEF Grows
  <1> QED
    BY <1>2, <1>4, <1>5, <1>7, <1>8, <1>9

(* An agent is started in an open pane that has none. *)
LEMMA StartsAgent ==
    ASSUME HostTypes, HostInv, NEW p \in OpenPanes, NEW by \in Callers, NEW point \in Points,
           NEW st \in {"boot", "idle"}, Occupant(p) = NoAgent, Len(agent) < MaxAgents,
           agent' = Started(p, by, point, st), pane' = pane, late' \subseteq late
    PROVE  /\ HostTypes' /\ HostInv' /\ Grows
           /\ Len(agent') = Len(agent) + 1
           /\ agent'[Len(agent) + 1].by = by /\ agent'[Len(agent) + 1].point = point
           /\ agent'[Len(agent) + 1].pane = p
           /\ \A l \in Launches : agent'[Len(agent) + 1].heard[l] = 0
           /\ \A a \in DOMAIN agent : agent'[a] = agent[a]
           /\ OpenPanes' = OpenPanes /\ Live' = Live \union {Len(agent) + 1}
  <1> DEFINE new == [pane |-> p, by |-> by, point |-> point, st |-> st, seq |-> 0, turns |-> 0,
                     native |-> FALSE, text |-> "none", heard |-> [c \in Launches |-> 0], limit |-> "no"]
  <1>1. new \in AgentRec
    BY HostShape DEF AgentRec
  <1>2. new.by = by /\ new.point = point /\ new.pane = p /\ new.st # "dead" /\ new.st = st
        /\ \A l \in Launches : new.heard[l] = 0
    OBVIOUS
  <1>3. agent' = Append(agent, new)
    BY DEF Started
  <1> HIDE DEF new
  <1>4. agent' \in Seq(AgentRec) /\ Len(agent') = Len(agent) + 1
    BY <1>1, <1>3 DEF HostTypes
  <1>5. \A a \in DOMAIN agent : agent'[a] = agent[a]
    BY <1>1, <1>3 DEF HostTypes
  <1>6. agent'[Len(agent) + 1] = new
    BY <1>1, <1>3 DEF HostTypes
  <1>7. HostTypes'
    BY <1>4, HostShape DEF HostTypes
  <1>8. DOMAIN agent' = DOMAIN agent \union {Len(agent) + 1}
    BY <1>4, HostShape
  <1>9. OpenPanes' = OpenPanes /\ Live' = Live \union {Len(agent) + 1}
    BY <1>2, <1>5, <1>6, <1>8, HostShape DEF OpenPanes, Live
  <1>10. \A a \in Live : agent[a].pane # p
    BY OccupantIs, HostShape
  <1>11. HostInv'
    BY <1>2, <1>5, <1>6, <1>8, <1>9, <1>10, HostShape DEF HostInv
  <1>12. Grows
    BY <1>4, <1>5, HostShape DEF Grows
  <1> QED
    BY <1>2, <1>4, <1>5, <1>6, <1>7, <1>9, <1>11, <1>12

(* A request is held by the server. *)
LEMMA HoldsRequest ==
    ASSUME HostTypes, HostInv, NEW e \in LateRec, late' \subseteq late \union {e},
           e.op # "open" => e.pane \in OpenPanes, e.op = "start" => e.point \in Points,
           UNCHANGED <<pane, agent>>
    PROVE  HostTypes' /\ HostInv' /\ Grows /\ OpenPanes' = OpenPanes /\ Live' = Live
  BY HostShape DEF HostTypes, HostInv, OpenPanes, Live, Grows

(* An agent acts, or hears a prompt. *)
Acts(a) ==
    /\ agent' \in Seq(AgentRec) /\ Len(agent') = Len(agent)
    /\ \A b \in DOMAIN agent \ {a} : agent'[b] = agent[b]
    /\ agent'[a].by = agent[a].by /\ agent'[a].pane = agent[a].pane /\ agent'[a].point = agent[a].point
    /\ agent[a].st = "dead" => agent'[a].st = "dead"

LEMMA AgentActs ==
    ASSUME HostTypes, HostInv, NEW a \in DOMAIN agent, Acts(a), pane' = pane, late' \subseteq late
    PROVE  HostTypes' /\ HostInv' /\ Grows /\ OpenPanes' = OpenPanes /\ Live' \subseteq Live
  <1>1. DOMAIN agent' = DOMAIN agent
    BY HostShape DEF Acts
  <1>2. OpenPanes' = OpenPanes /\ Live' \subseteq Live
    BY <1>1 DEF OpenPanes, Live, Acts
  <1>3. HostTypes'
    BY HostShape DEF Acts, HostTypes
  <1>4. HostInv'
    BY <1>2, HostShape DEF HostInv, Acts
  <1>5. Grows
    BY HostShape DEF Grows, Acts
  <1> QED
    BY <1>2, <1>3, <1>4, <1>5

(* A pane is closed, with its agent and what is held for it. *)
LEMMA ClosesPane ==
    ASSUME HostTypes, HostInv, NEW p \in OpenPanes, ClosePane(p)
    PROVE  /\ HostTypes' /\ HostInv' /\ Grows
           /\ Len(pane') = Len(pane) /\ Len(agent') = Len(agent) /\ late' \subseteq late
           /\ OpenPanes' = OpenPanes \ {p} /\ Live' = {a \in Live : agent[a].pane # p}
           /\ \A a \in DOMAIN agent : agent'[a].heard = agent[a].heard
  <1>1. p \in DOMAIN pane /\ DOMAIN pane = 1..Len(pane)
    BY HostShape
  <1>2. pane' \in Seq(PaneRec) /\ Len(pane') = Len(pane)
    <2>1. [pane[p] EXCEPT !.open = FALSE] \in PaneRec
      BY <1>1, HostShape DEF PaneRec
    <2>2. pane' = [pane EXCEPT ![p] = [pane[p] EXCEPT !.open = FALSE]]
      BY DEF ClosePane
    <2> QED
      BY <1>1, <2>1, <2>2 DEF HostTypes
  <1>3. \A q \in DOMAIN pane : q # p => pane'[q] = pane[q]
    BY DEF ClosePane
  <1>4. pane'[p].by = pane[p].by /\ ~pane'[p].open
    BY <1>1, HostShape DEF ClosePane, PaneRec
  <1>5. agent' \in Seq(AgentRec) /\ Len(agent') = Len(agent)
    <2>1. \A a \in 1..Len(agent) :
            (IF agent[a].pane = p THEN [agent[a] EXCEPT !.st = "dead"] ELSE agent[a]) \in AgentRec
      <3> TAKE a \in 1..Len(agent)
      <3>1. agent[a] \in AgentRec
        BY HostShape
      <3> QED
        BY <3>1 DEF AgentRec
    <2>2. agent' = [a \in 1..Len(agent) |->
                      IF agent[a].pane = p THEN [agent[a] EXCEPT !.st = "dead"] ELSE agent[a]]
      BY HostShape DEF ClosePane
    <2> QED
      BY <2>1, <2>2, HostShape
  <1>6. \A a \in DOMAIN agent :
          /\ agent'[a].by = agent[a].by /\ agent'[a].pane = agent[a].pane /\ agent'[a].point = agent[a].point
          /\ agent'[a].heard = agent[a].heard
          /\ agent'[a].st = IF agent[a].pane = p THEN "dead" ELSE agent[a].st
    <2> TAKE a \in DOMAIN agent
    <2>1. agent[a] \in AgentRec
      BY HostShape
    <2>2. agent'[a] = IF agent[a].pane = p THEN [agent[a] EXCEPT !.st = "dead"] ELSE agent[a]
      BY DEF ClosePane
    <2> QED
      BY <2>1, <2>2 DEF AgentRec
  <1>7. late' \subseteq late /\ \A e \in late' : e.pane # p
    BY DEF ClosePane
  <1>8. DOMAIN pane' = DOMAIN pane /\ DOMAIN agent' = DOMAIN agent
    BY <1>2, <1>5, HostShape
  <1>9. OpenPanes' = OpenPanes \ {p}
    BY <1>3, <1>4, <1>8 DEF OpenPanes
  <1>10. Live' = {a \in Live : agent[a].pane # p}
    BY <1>6, <1>8 DEF Live
  <1>11. HostTypes'
    BY <1>2, <1>5, <1>7, HostShape DEF HostTypes
  <1>12. HostInv'
    BY <1>6, <1>7, <1>9, <1>10, HostShape DEF HostInv
  <1>13. Grows
    BY <1>1, <1>2, <1>3, <1>4, <1>5, <1>6, HostShape DEF Grows
  <1> QED
    BY <1>2, <1>5, <1>6, <1>7, <1>9, <1>10, <1>11, <1>12, <1>13

-----------------------------------------------------------------------------
(* Numbers: a set that is not empty has a first one, and a last one when   *)
(* it is finite.                                                           *)
LEMMA FirstNumber ==
    ASSUME NEW S \in SUBSET Nat, S # {}
    PROVE  Min(S) \in S /\ \A y \in S : Min(S) <= y
  <1> DEFINE R == OpToRel(<, Nat)
  <1>1. \A x, y \in Nat : y < x => <<y, x>> \in R
    BY DEF OpToRel
  <1>2. IsWellFoundedOn(R, Nat)
    BY NatLessThanWellFounded
  <1> HIDE DEF R
  <1>3. PICK x \in S : \A y \in S : ~(<<y, x>> \in R)
    BY <1>2, WFMin
  <1>4. ASSUME NEW y \in S PROVE x <= y
    <2>1. x \in Nat /\ y \in Nat
      OBVIOUS
    <2>2. ~(y < x)
      BY <1>1, <1>3, <2>1, Zenon
    <2> QED
      BY <2>1, <2>2
  <1> QED
    BY <1>4 DEF Min

HasLast(S) == \E x \in S : \A y \in S : x >= y

LEMMA LastNumber ==
    ASSUME NEW S \in SUBSET Nat, IsFiniteSet(S), S # {}
    PROVE  Max(S) \in S
  <1> DEFINE Bad == {n \in Nat : \E T \in SUBSET Nat :
                        IsFiniteSet(T) /\ T # {} /\ Cardinality(T) = n /\ ~HasLast(T)}
  <1>1. ASSUME Bad # {} PROVE FALSE
    <2>1. PICK n \in Bad : \A y \in Bad : n <= y
      <3>1. Bad \in SUBSET Nat
        OBVIOUS
      <3> HIDE DEF Bad
      <3> QED
        BY <1>1, <3>1, FirstNumber
    <2>2. PICK T \in SUBSET Nat : IsFiniteSet(T) /\ T # {} /\ Cardinality(T) = n /\ ~HasLast(T)
      BY <2>1
    <2>3. PICK x \in T : TRUE
      BY <2>2
    <2>4. IsFiniteSet(T \ {x}) /\ Cardinality(T \ {x}) = Cardinality(T) - 1
      BY <2>2, <2>3, FS_RemoveElement
    <2>5. Cardinality(T \ {x}) \in Nat /\ Cardinality(T) \in Nat
      BY <2>2, <2>4, FS_CardinalityType
    <2>6. T \ {x} # {}
      <3>1. ASSUME T = {x} PROVE FALSE
        <4>1. x \in Nat
          BY <2>3
        <4> QED
          BY <2>2, <3>1, <4>1 DEF HasLast
      <3> QED
        BY <2>3, <3>1
    <2>7. Cardinality(T \ {x}) \notin Bad
      <3>1. Cardinality(T \ {x}) < n
        BY <2>2, <2>4, <2>5
      <3>2. n \in Nat
        BY <2>1
      <3> HIDE DEF Bad
      <3> QED
        BY <2>1, <2>5, <3>1, <3>2
    <2>8. HasLast(T \ {x})
      BY <2>4, <2>5, <2>6, <2>7
    <2>9. PICK m \in T \ {x} : \A y \in T \ {x} : m >= y
      BY <2>8 DEF HasLast
    <2>10. x \in Nat /\ m \in Nat /\ \A y \in T : y \in Nat
      BY <2>3, <2>9
    <2>11. HasLast(T)
      <3>1. CASE x >= m
        BY <2>3, <2>9, <2>10, <3>1 DEF HasLast
      <3>2. CASE ~(x >= m)
        BY <2>3, <2>9, <2>10, <3>2 DEF HasLast
      <3> QED
        BY <3>1, <3>2
    <2> QED
      BY <2>2, <2>11
  <1>2. HasLast(S)
    <2>1. Cardinality(S) \in Nat
      BY FS_CardinalityType
    <2> QED
      BY <1>1, <2>1
  <1> QED
    BY <1>2 DEF Max, HasLast

-----------------------------------------------------------------------------
(* The chains of the routing policy are sequences of points. *)
ChainsUpTo(f, n) ==
    f = [t \in (MaxTier + 1 - n)..(MaxTier + 1) |-> IF t > MaxTier THEN <<>> ELSE TierChain[t] \o f[t + 1]]

LEMMA ChainsExist == \A n \in 0..MaxTier : \E f : ChainsUpTo(f, n)
  <1> DEFINE Bad == {n \in 0..MaxTier : ~ \E f : ChainsUpTo(f, n)}
  <1>1. ASSUME Bad # {} PROVE FALSE
    <2>1. MaxTier \in Nat
      BY RoutingAssumption
    <2>2. PICK n \in Bad : \A y \in Bad : n <= y
      <3>1. Bad \in SUBSET Nat
        BY <2>1
      <3> HIDE DEF Bad
      <3> QED
        BY <1>1, <3>1, FirstNumber
    <2>3. n \in 0..MaxTier /\ ~ \E f : ChainsUpTo(f, n)
      BY <2>2
    <2>4. CASE n = 0
      <3> DEFINE f == [t \in (MaxTier + 1 - 0)..(MaxTier + 1) |-> <<>>]
      <3>1. \A t \in (MaxTier + 1 - 0)..(MaxTier + 1) : t > MaxTier /\ f[t] = <<>>
        BY <2>1
      <3>2. f = [t \in (MaxTier + 1 - 0)..(MaxTier + 1) |-> f[t]]
        OBVIOUS
      <3>3. ChainsUpTo(f, 0)
        <4> HIDE DEF f
        <4> QED
          BY <3>1, <3>2 DEF ChainsUpTo
      <3> QED
        BY <2>3, <2>4, <3>3
    <2>5. CASE n > 0
      <3>1. n - 1 \in 0..MaxTier /\ n - 1 \notin Bad
        <4>1. n - 1 \in 0..MaxTier /\ n - 1 < n /\ n \in Nat
          BY <2>1, <2>3, <2>5
        <4> HIDE DEF Bad
        <4> QED
          BY <2>1, <2>2, <4>1
      <3>2. PICK g : ChainsUpTo(g, n - 1)
        BY <3>1
      <3> DEFINE m == MaxTier + 1 - n
                 f == [t \in m..(MaxTier + 1) |-> IF t = m THEN TierChain[t] \o g[t + 1] ELSE g[t]]
      <3>3. m \in 1..MaxTier
        BY <2>1, <2>3, <2>5
      <3>4. MaxTier + 1 - (n - 1) = m + 1
        BY <2>1, <2>3
      <3> HIDE DEF m
      <3>5. g = [t \in (m + 1)..(MaxTier + 1) |-> IF t > MaxTier THEN <<>> ELSE TierChain[t] \o g[t + 1]]
        BY <3>2, <3>4 DEF ChainsUpTo
      <3>6. \A t \in (m + 1)..(MaxTier + 1) : f[t] = g[t]
        BY <2>1, <3>3
      <3>7. \A t \in m..(MaxTier + 1) : f[t] = IF t > MaxTier THEN <<>> ELSE TierChain[t] \o f[t + 1]
        <4> TAKE t \in m..(MaxTier + 1)
        <4>1. CASE t = m
          <5>1. ~(t > MaxTier) /\ t + 1 \in (m + 1)..(MaxTier + 1)
            BY <2>1, <3>3, <4>1
          <5>2. f[t] = TierChain[t] \o g[t + 1]
            BY <4>1
          <5>3. f[t + 1] = g[t + 1]
            BY <3>6, <5>1
          <5> HIDE DEF f
          <5> QED
            BY <5>1, <5>2, <5>3
        <4>2. CASE t # m
          <5>1. t \in (m + 1)..(MaxTier + 1)
            BY <2>1, <3>3, <4>2
          <5>2. g[t] = IF t > MaxTier THEN <<>> ELSE TierChain[t] \o g[t + 1]
            BY <3>5, <5>1
          <5>3. t <= MaxTier => t + 1 \in (m + 1)..(MaxTier + 1)
            BY <2>1, <3>3, <5>1
          <5>4. ~(t > MaxTier) => t <= MaxTier
            BY <2>1, <3>3, <5>1
          <5> HIDE DEF f
          <5> QED
            BY <3>6, <5>1, <5>2, <5>3, <5>4
        <4> QED
          BY <4>1, <4>2
      <3>8. f = [t \in m..(MaxTier + 1) |-> f[t]]
        OBVIOUS
      <3>9. f = [t \in m..(MaxTier + 1) |-> IF t > MaxTier THEN <<>> ELSE TierChain[t] \o f[t + 1]]
        <4> HIDE DEF f
        <4> QED
          BY <3>7, <3>8
      <3>10. ChainsUpTo(f, n)
        <4> HIDE DEF f
        <4> QED
          BY <3>9 DEF ChainsUpTo, m
      <3> QED
        BY <2>3, <3>10
    <2> QED
      BY <2>3, <2>4, <2>5
  <1> QED
    BY <1>1

LEMMA ChainsAreOfPoints == \A t \in Tiers : ChainIds[t] \in Seq(Points)
  <1>1. MaxTier \in Nat
    BY RoutingAssumption
  <1>2. \E f : f = [t \in 1..(MaxTier + 1) |-> IF t > MaxTier THEN <<>> ELSE TierChain[t] \o f[t + 1]]
    <2>1. MaxTier \in 0..MaxTier /\ MaxTier + 1 - MaxTier = 1
      BY <1>1
    <2>2. \E f : ChainsUpTo(f, MaxTier)
      BY <2>1, ChainsExist
    <2> QED
      BY <2>1, <2>2 DEF ChainsUpTo
  <1>3. ChainIds = [t \in 1..(MaxTier + 1) |-> IF t > MaxTier THEN <<>> ELSE TierChain[t] \o ChainIds[t + 1]]
    BY <1>2 DEF ChainIds
  <1> DEFINE Bad == {n \in 0..MaxTier : ChainIds[MaxTier + 1 - n] \notin Seq(Points)}
  <1>4. ASSUME Bad # {} PROVE FALSE
    <2>1. PICK n \in Bad : \A y \in Bad : n <= y
      <3>1. Bad \in SUBSET Nat
        BY <1>1
      <3> HIDE DEF Bad
      <3> QED
        BY <1>4, <3>1, FirstNumber
    <2>2. n \in 0..MaxTier /\ ChainIds[MaxTier + 1 - n] \notin Seq(Points)
      BY <2>1
    <2>3. ASSUME n = 0 PROVE FALSE
      <3>1. MaxTier + 1 - n \in 1..(MaxTier + 1) /\ MaxTier + 1 - n > MaxTier
        BY <1>1, <2>3
      <3>2. ChainIds[MaxTier + 1 - n] = <<>>
        <4> DEFINE k == MaxTier + 1 - n
        <4>1. k \in 1..(MaxTier + 1) /\ k > MaxTier
          BY <3>1
        <4> HIDE DEF k
        <4>2. ChainIds[k] = <<>>
          BY <1>3, <4>1
        <4> QED
          BY <4>2 DEF k
      <3>3. <<>> \in Seq(Points)
        OBVIOUS
      <3> QED
        BY <2>2, <3>2, <3>3
    <2>4. n - 1 \in 0..MaxTier /\ n - 1 \notin Bad
      <3>1. n - 1 \in 0..MaxTier /\ n - 1 < n
        BY <1>1, <2>2, <2>3
      <3>2. n \in Nat
        BY <2>2
      <3> HIDE DEF Bad
      <3> QED
        BY <1>1, <2>1, <3>1, <3>2
    <2> DEFINE m == MaxTier + 1 - n
    <2>5. m \in 1..MaxTier /\ MaxTier + 1 - (n - 1) = m + 1
      BY <1>1, <2>2, <2>3
    <2>6. ChainIds[m + 1] \in Seq(Points)
      BY <2>4, <2>5
    <2>7. TierChain[m] \in Seq(Points)
      BY <2>5, RoutingAssumption
    <2>8. ChainIds[m] = TierChain[m] \o ChainIds[m + 1]
      <3>1. m \in 1..(MaxTier + 1) /\ ~(m > MaxTier)
        BY <1>1, <2>5
      <3> HIDE DEF m
      <3> QED
        BY <1>3, <3>1
    <2>9. ChainIds[m] \in Seq(Points)
      BY <2>6, <2>7, <2>8
    <2> QED
      BY <2>2, <2>9
  <1>5. \A n \in 0..MaxTier : ChainIds[MaxTier + 1 - n] \in Seq(Points)
    BY <1>4
  <1> QED
    <2> TAKE t \in Tiers
    <2>1. MaxTier + 1 - t \in 0..MaxTier /\ MaxTier + 1 - (MaxTier + 1 - t) = t
      BY <1>1 DEF Tiers
    <2> QED
      BY <1>5, <2>1

-----------------------------------------------------------------------------
(* Steps that leave the host as it is, but for a text that is submitted:    *)
(* what they may do to a launch, for each part of the invariant.            *)
Quiet ==
    /\ pane' = pane /\ late' = late
    /\ agent' \in Seq(AgentRec) /\ Len(agent') = Len(agent)
    /\ \A a \in DOMAIN agent :
         /\ agent'[a].by = agent[a].by /\ agent'[a].pane = agent[a].pane /\ agent'[a].point = agent[a].point
         /\ agent'[a].st = agent[a].st /\ agent'[a].heard = agent[a].heard

Alone(l) ==
    /\ DOMAIN L' = Launches /\ DOMAIN run' = Launches
    /\ \A m \in Launches \ {l} : L'[m] = L[m] /\ run'[m] = run[m]

OwnSoft(l) ==
    LET x == L[l]
        y == L'[l]
    IN  /\ y.pc # "none"
        /\ y.dispatched = x.dispatched /\ y.pane = x.pane
        /\ y.pc \in Early => x.pc \in Early
        /\ y.pc \in Placed => x.pc \in Placed

ChildSoft(l) ==
    LET x == L[l]
        y == L'[l]
    IN  /\ y.pc \in Begun => x.pc \in Begun
        /\ y.pc \in Begun \ {"select"} => x.pc \in Begun \ {"select"} \/ run'[l].point = x.cur
        /\ y.cur # x.cur => x.pc = "attempt" /\ y.pc = "start"
        /\ y.pc = "start" => y.cur \in Points
        /\ y.pc \in Identified => x.pc \in Identified \/ y.ident # NoAgent
        /\ y.pc \in Early \union (Placed \ Identified) => x.pc \in Early \union (Placed \ Identified)
        /\ y.ident # x.ident =>
             /\ x.pc \in {"judge", "confirm"} /\ y.pc \in Identified
             /\ y.ident = Occupant(x.pane) /\ y.ident # NoAgent /\ agent[y.ident].by = l
        /\ run'[l].point # run[l].point => x.pc \in {"prepare", "select"}

PromptSoft(l) ==
    LET x == L[l]
        y == L'[l]
    IN  /\ y.pc \in Early \union (Placed \ Supervised) =>
             /\ x.pc \in Early \union (Placed \ Supervised)
             /\ y.res \in {"none", "reserved"} \/ y.res = x.res \/ x.res = "bound"
        /\ y.pc \in Supervised => x.pc \in Supervised \/ (x.pc = "bind" /\ y.pc = "prompt" /\ y.res \in Bound)
        /\ y.pc = "prompt" => x.pc = "prompt" \/ (x.pc = "bind" /\ (Kind[x.cur] # "agy" => y.res = "bound"))
        /\ y.pc = "confirm" => x.pc = "confirm"
        /\ y.pc = "strengthen" => x.pc \in {"confirm", "strengthen"}
        /\ y.pc = "launched" => \/ x.pc \in {"launched", "strengthen"} /\ (x.pc = "strengthen" => y.res = "bound")
                                \/ x.pc = "confirm" /\ Kind[x.cur] # "agy" /\ y.res = x.res
        /\ x.res \in Bound => y.res = x.res \/ y.res = "bound" \/ (x.res = "bound" /\ y.res = "settled")
        /\ y.res \in Bound => x.res \in Bound \/ y.pc \in Supervised

Told == {"refused", "release", "failed"}
ReportSoft(l) ==
    LET x == L[l]
        y == L'[l]
    IN  /\ y.pc \in Told \/ (y.cert = x.cert /\ x.pc \notin Told)
        /\ y.cert = "absent" =>
             \/ x.cert = "absent"
             \/ x.pc \in Early
             \/ ~x.dispatched
             \/ x.pc = "reading" /\ x.look.snapshot = "absent" /\ ~x.look.made /\ x.look.cand # NoPane
        /\ y.pc = "reading" /\ y.look.snapshot = "absent" /\ ~y.look.made =>
             \/ x.pc = "reading" /\ y.look = x.look
             \/ y.look.cand \in {NoPane, x.pane} /\ (y.look.cand # NoPane => y.look.cand \notin OpenPanes)

Among(p, s) == \E i \in DOMAIN s : s[i] = p
RouteSoft(l) ==
    LET x == L[l]
        y == L'[l]
    IN  \/ /\ y.of = x.of /\ y.prior = x.prior
           /\ x.prior.point # NoPoint =>
                /\ \A i \in DOMAIN y.r.chain : Among(y.r.chain[i], x.r.chain) \/ Elsewhere(l, y.r.chain[i])
                /\ \A i \in DOMAIN y.todo : Among(y.todo[i], x.todo) \/ Among(y.todo[i], x.r.chain)
                /\ y.cur # x.cur => Among(y.cur, x.todo)
        \/ /\ x.pc = "none" /\ y.r = x.r /\ y.todo = x.todo /\ y.cur = x.cur
           /\ y.prior.st \in {"failed", "cancelled"} =>
                y.of \in Launches \ {l} /\ run[y.of].st \in {"failed", "cancelled"} /\ y.prior = run[y.of]

RunSoft(l) ==
    run'[l].st \in {"failed", "cancelled"} =>
        \/ run[l].st \in {"failed", "cancelled"}
        \/ L[l].res = "bound" /\ Occupant(L[l].pane) # L[l].ident
        \/ rec = "mark" /\ l = 1

(* The first disjunct of the second launch's wait is the recovery's. *)
WaitSoft(l) == L[l].pc = "none" /\ l # 1 => "auto" \notin cast \/ rec' = "relaunched"

Soft(l) ==
    /\ Quiet /\ Alone(l)
    /\ OwnSoft(l) /\ ChildSoft(l) /\ PromptSoft(l) /\ ReportSoft(l) /\ RouteSoft(l)
    /\ RunSoft(l) /\ WaitSoft(l)

(* A step that leaves a launch where it is. *)
LEMMA StaysIsSoft ==
    ASSUME NEW l \in Launches, ChildInv(l), L[l].pc # "none", L'[l].pc = L[l].pc,
           L'[l].of = L[l].of, L'[l].prior = L[l].prior, L'[l].r = L[l].r, L'[l].todo = L[l].todo,
           L'[l].cur = L[l].cur, L'[l].pane = L[l].pane, L'[l].dispatched = L[l].dispatched,
           L'[l].ident = L[l].ident, L'[l].look = L[l].look, L'[l].cert = L[l].cert,
           L'[l].res = L[l].res \/ (L[l].res = "bound" /\ L'[l].res = "settled"),
           run'[l].point = run[l].point
    PROVE  OwnSoft(l) /\ ChildSoft(l) /\ PromptSoft(l) /\ ReportSoft(l) /\ RouteSoft(l) /\ WaitSoft(l)
  <1>1. OwnSoft(l)
    BY DEF OwnSoft
  <1>2. ChildSoft(l)
    BY DEF ChildSoft, ChildInv
  <1>3. PromptSoft(l)
    <2>1. L'[l].res \in Bound <=> L[l].res \in Bound
      BY DEF Bound
    <2> HIDE DEF Bound
    <2> QED
      BY <2>1 DEF PromptSoft
  <1>4. ReportSoft(l)
    BY DEF ReportSoft
  <1>5. RouteSoft(l)
    BY DEF RouteSoft, Among
  <1>6. WaitSoft(l)
    BY DEF WaitSoft
  <1> QED
    BY <1>1, <1>2, <1>3, <1>4, <1>5, <1>6

LEMMA FoldProvisionalIsSoft ==
    ASSUME TypeInv, HostInv, NEW l \in Launches, OwnInv(l), ChildInv(l), FoldProvisional(l)
    PROVE  Soft(l)
  <1>1. DOMAIN L = Launches /\ DOMAIN L[l] = Fields /\ DOMAIN run = Launches
    BY DEF TypeInv, SharedTypes, LaunchTypes, Fields
  <1>2. Quiet /\ Alone(l)
    BY <1>1 DEF FoldProvisional, Watching, MarkProvisionalFailure, LaunchOnly, Rest, hostVars, Quiet, Alone, TypeInv, HostTypes, Put, With
  <1>3. L[l].pc # "none"
    BY DEF OwnInv, Fresh, FoldProvisional, Watching, MarkProvisionalFailure
  <1>4. /\ L'[l].pc = L[l].pc /\ L'[l].of = L[l].of /\ L'[l].prior = L[l].prior
        /\ L'[l].r = L[l].r /\ L'[l].todo = L[l].todo /\ L'[l].cur = L[l].cur
        /\ L'[l].pane = L[l].pane /\ L'[l].dispatched = L[l].dispatched /\ L'[l].ident = L[l].ident
        /\ L'[l].look = L[l].look /\ L'[l].res = L[l].res /\ L'[l].cert = L[l].cert
        /\ run'[l].point = run[l].point
    BY <1>1, FieldNames DEF FoldProvisional, Watching, MarkProvisionalFailure, LaunchOnly, Put, With
  <1>5. RunSoft(l)
    BY <1>1 DEF FoldProvisional, Watching, MarkProvisionalFailure, LaunchOnly, RunSoft
  <1> QED
    BY <1>2, <1>3, <1>4, <1>5, StaysIsSoft DEF Soft

LEMMA ApplyProvisionalSnapshotIsSoft ==
    ASSUME TypeInv, HostInv, NEW l \in Launches, OwnInv(l), ChildInv(l), ApplyProvisionalSnapshot(l)
    PROVE  Soft(l)
  <1>1. DOMAIN L = Launches /\ DOMAIN L[l] = Fields /\ DOMAIN run = Launches
    BY DEF TypeInv, SharedTypes, LaunchTypes, Fields
  <1>2. Quiet /\ Alone(l)
    BY <1>1 DEF ApplyProvisionalSnapshot, Watching, MarkProvisionalFailure, LaunchOnly, Rest, hostVars, Quiet, Alone, TypeInv, HostTypes, Put, With
  <1>3. L[l].pc # "none"
    BY DEF OwnInv, Fresh, ApplyProvisionalSnapshot, Watching, MarkProvisionalFailure
  <1>4. /\ L'[l].pc = L[l].pc /\ L'[l].of = L[l].of /\ L'[l].prior = L[l].prior
        /\ L'[l].r = L[l].r /\ L'[l].todo = L[l].todo /\ L'[l].cur = L[l].cur
        /\ L'[l].pane = L[l].pane /\ L'[l].dispatched = L[l].dispatched /\ L'[l].ident = L[l].ident
        /\ L'[l].look = L[l].look /\ L'[l].res = L[l].res /\ L'[l].cert = L[l].cert
        /\ run'[l].point = run[l].point
    BY <1>1, FieldNames DEF ApplyProvisionalSnapshot, Watching, MarkProvisionalFailure, LaunchOnly, Put, With
  <1>5. RunSoft(l)
    BY <1>1 DEF ApplyProvisionalSnapshot, Watching, MarkProvisionalFailure, LaunchOnly, RunSoft
  <1> QED
    BY <1>2, <1>3, <1>4, <1>5, StaysIsSoft DEF Soft

LEMMA ReconciliationFailsIsSoft ==
    ASSUME TypeInv, HostInv, NEW l \in Launches, OwnInv(l), ChildInv(l), ReconciliationFails(l)
    PROVE  Soft(l)
  <1>1. DOMAIN L = Launches /\ DOMAIN L[l] = Fields /\ DOMAIN run = Launches
    BY DEF TypeInv, SharedTypes, LaunchTypes, Fields
  <1>2. Quiet /\ Alone(l)
    BY <1>1 DEF ReconciliationFails, Watching, MarkProvisionalFailure, LaunchOnly, Rest, hostVars, Quiet, Alone, TypeInv, HostTypes, Put, With
  <1>3. L[l].pc # "none"
    BY DEF OwnInv, Fresh, ReconciliationFails, Watching, MarkProvisionalFailure
  <1>4. /\ L'[l].pc = L[l].pc /\ L'[l].of = L[l].of /\ L'[l].prior = L[l].prior
        /\ L'[l].r = L[l].r /\ L'[l].todo = L[l].todo /\ L'[l].cur = L[l].cur
        /\ L'[l].pane = L[l].pane /\ L'[l].dispatched = L[l].dispatched /\ L'[l].ident = L[l].ident
        /\ L'[l].look = L[l].look /\ L'[l].res = L[l].res /\ L'[l].cert = L[l].cert
        /\ run'[l].point = run[l].point
    BY <1>1, FieldNames DEF ReconciliationFails, Watching, MarkProvisionalFailure, LaunchOnly, Put, With
  <1>5. RunSoft(l)
    BY <1>1 DEF ReconciliationFails, Watching, MarkProvisionalFailure, LaunchOnly, RunSoft
  <1> QED
    BY <1>2, <1>3, <1>4, <1>5, StaysIsSoft DEF Soft

LEMMA CompletionSignalIsSoft ==
    ASSUME TypeInv, HostInv, NEW l \in Launches, OwnInv(l), ChildInv(l), CompletionSignal(l)
    PROVE  Soft(l)
  <1>1. DOMAIN L = Launches /\ DOMAIN L[l] = Fields /\ DOMAIN run = Launches
    BY DEF TypeInv, SharedTypes, LaunchTypes, Fields
  <1>2. Quiet /\ Alone(l)
    BY <1>1 DEF CompletionSignal, Rest, LaunchOnly, Rest, hostVars, Quiet, Alone, TypeInv, HostTypes, Put, With
  <1>3. L[l].pc # "none"
    BY DEF OwnInv, Fresh, CompletionSignal, Rest
  <1>4. /\ L'[l].pc = L[l].pc /\ L'[l].of = L[l].of /\ L'[l].prior = L[l].prior
        /\ L'[l].r = L[l].r /\ L'[l].todo = L[l].todo /\ L'[l].cur = L[l].cur
        /\ L'[l].pane = L[l].pane /\ L'[l].dispatched = L[l].dispatched /\ L'[l].ident = L[l].ident
        /\ L'[l].look = L[l].look /\ L'[l].res = L[l].res /\ L'[l].cert = L[l].cert
        /\ run'[l].point = run[l].point
    BY <1>1, FieldNames DEF CompletionSignal, Rest, LaunchOnly, Put, With
  <1>5. RunSoft(l)
    BY <1>1 DEF CompletionSignal, Rest, LaunchOnly, RunSoft
  <1> QED
    BY <1>2, <1>3, <1>4, <1>5, StaysIsSoft DEF Soft

LEMMA SettleIsSoft ==
    ASSUME TypeInv, HostInv, NEW l \in Launches, OwnInv(l), ChildInv(l), Settle(l)
    PROVE  Soft(l)
  <1>1. DOMAIN L = Launches /\ DOMAIN L[l] = Fields /\ DOMAIN run = Launches
    BY DEF TypeInv, SharedTypes, LaunchTypes, Fields
  <1>2. Quiet /\ Alone(l)
    BY <1>1 DEF Settle, Rest, LaunchOnly, Rest, hostVars, Quiet, Alone, TypeInv, HostTypes, Put, With
  <1>3. L[l].pc # "none"
    BY DEF OwnInv, Fresh, Settle, Rest
  <1>4. /\ L'[l].pc = L[l].pc /\ L'[l].of = L[l].of /\ L'[l].prior = L[l].prior
        /\ L'[l].r = L[l].r /\ L'[l].todo = L[l].todo /\ L'[l].cur = L[l].cur
        /\ L'[l].pane = L[l].pane /\ L'[l].dispatched = L[l].dispatched /\ L'[l].ident = L[l].ident
        /\ L'[l].look = L[l].look /\ L'[l].cert = L[l].cert
        /\ L[l].res = "bound" /\ L'[l].res = "settled"
    BY <1>1, FieldNames DEF Settle, Rest, LaunchOnly, Put, With
  <1>5. RunSoft(l)
    BY <1>1 DEF Settle, Rest, LaunchOnly, RunSoft
  <1>6. run'[l].point = run[l].point
    <2>1. DOMAIN run[l] = {"point", "tier", "limited", "st"}
      BY DEF TypeInv, LaunchTypes, IsRun, NoRun, NoPrior
    <2> QED
      BY <1>1, <2>1 DEF Settle
  <1> QED
    BY <1>2, <1>3, <1>4, <1>5, <1>6, StaysIsSoft DEF Soft

LEMMA LogDecisionIsSoft ==
    ASSUME TypeInv, HostInv, NEW l \in Launches, LogDecision(l)
    PROVE  Soft(l)
  <1>1. DOMAIN L = Launches /\ DOMAIN L[l] = Fields /\ DOMAIN run = Launches
    BY DEF TypeInv, SharedTypes, LaunchTypes, Fields
  <1>2. Quiet /\ Alone(l)
    BY <1>1 DEF LogDecision, Verdict, LaunchOnly, Rest, hostVars, Quiet, Alone, TypeInv, HostTypes, Put, With
  <1>3. OwnSoft(l) /\ ChildSoft(l) /\ PromptSoft(l) /\ ReportSoft(l) /\ RouteSoft(l) /\ RunSoft(l) /\ WaitSoft(l)
    BY <1>1, FieldNames
       DEF LogDecision, Verdict, LaunchOnly, Put, With, At, OwnSoft, ChildSoft, PromptSoft, ReportSoft, RouteSoft, RunSoft, WaitSoft,
          Early, Placed, Begun, Identified, Supervised, Bound, Told, Among, NoAgent
  <1> QED
    BY <1>2, <1>3 DEF Soft

LEMMA BoundaryIsSoft ==
    ASSUME TypeInv, HostInv, NEW l \in Launches, Boundary(l)
    PROVE  Soft(l)
  <1>1. DOMAIN L = Launches /\ DOMAIN L[l] = Fields /\ DOMAIN run = Launches
    BY DEF TypeInv, SharedTypes, LaunchTypes, Fields
  <1>2. Quiet /\ Alone(l)
    BY <1>1 DEF Boundary, Fails, LaunchOnly, Rest, hostVars, Quiet, Alone, TypeInv, HostTypes, Put, With
  <1>3. OwnSoft(l) /\ ChildSoft(l) /\ PromptSoft(l) /\ ReportSoft(l) /\ RouteSoft(l) /\ RunSoft(l) /\ WaitSoft(l)
    BY <1>1, FieldNames
       DEF Boundary, Fails, LaunchOnly, Put, With, At, OwnSoft, ChildSoft, PromptSoft, ReportSoft, RouteSoft, RunSoft, WaitSoft,
          Early, Placed, Begun, Identified, Supervised, Bound, Told, Among, NoAgent
  <1> QED
    BY <1>2, <1>3 DEF Soft

LEMMA ShellReadyIsSoft ==
    ASSUME TypeInv, HostInv, NEW l \in Launches, ShellReady(l)
    PROVE  Soft(l)
  <1>1. DOMAIN L = Launches /\ DOMAIN L[l] = Fields /\ DOMAIN run = Launches
    BY DEF TypeInv, SharedTypes, LaunchTypes, Fields
  <1>2. Quiet /\ Alone(l)
    BY <1>1 DEF ShellReady, Fails, LaunchOnly, Rest, hostVars, Quiet, Alone, TypeInv, HostTypes, Put, With
  <1>3. OwnSoft(l) /\ ChildSoft(l) /\ PromptSoft(l) /\ ReportSoft(l) /\ RouteSoft(l) /\ RunSoft(l) /\ WaitSoft(l)
    BY <1>1, FieldNames
       DEF ShellReady, Fails, LaunchOnly, Put, With, At, OwnSoft, ChildSoft, PromptSoft, ReportSoft, RouteSoft, RunSoft, WaitSoft,
          Early, Placed, Begun, Identified, Supervised, Bound, Told, Among, NoAgent
  <1> QED
    BY <1>2, <1>3 DEF Soft

LEMMA StartFailedIsSoft ==
    ASSUME TypeInv, HostInv, NEW l \in Launches, StartFailed(l)
    PROVE  Soft(l)
  <1>1. DOMAIN L = Launches /\ DOMAIN L[l] = Fields /\ DOMAIN run = Launches
    BY DEF TypeInv, SharedTypes, LaunchTypes, Fields
  <1>2. Quiet /\ Alone(l)
    BY <1>1 DEF StartFailed, Fails, LaunchOnly, Rest, hostVars, Quiet, Alone, TypeInv, HostTypes, Put, With
  <1>3. OwnSoft(l) /\ ChildSoft(l) /\ PromptSoft(l) /\ ReportSoft(l) /\ RouteSoft(l) /\ RunSoft(l) /\ WaitSoft(l)
    BY <1>1, FieldNames
       DEF StartFailed, Fails, LaunchOnly, Put, With, At, OwnSoft, ChildSoft, PromptSoft, ReportSoft, RouteSoft, RunSoft, WaitSoft,
          Early, Placed, Begun, Identified, Supervised, Bound, Told, Among, NoAgent
  <1> QED
    BY <1>2, <1>3 DEF Soft

LEMMA SampleIsSoft ==
    ASSUME TypeInv, HostInv, NEW l \in Launches, Sample(l)
    PROVE  Soft(l)
  <1>1. DOMAIN L = Launches /\ DOMAIN L[l] = Fields /\ DOMAIN run = Launches
    BY DEF TypeInv, SharedTypes, LaunchTypes, Fields
  <1>2. Quiet /\ Alone(l)
    BY <1>1 DEF Sample, Fails, LaunchOnly, Rest, hostVars, Quiet, Alone, TypeInv, HostTypes, Put, With
  <1>3. OwnSoft(l) /\ ChildSoft(l) /\ PromptSoft(l) /\ ReportSoft(l) /\ RouteSoft(l) /\ RunSoft(l) /\ WaitSoft(l)
    BY <1>1, FieldNames
       DEF Sample, Fails, LaunchOnly, Put, With, At, OwnSoft, ChildSoft, PromptSoft, ReportSoft, RouteSoft, RunSoft, WaitSoft,
          Early, Placed, Begun, Identified, Supervised, Bound, Told, Among, NoAgent
  <1> QED
    BY <1>2, <1>3 DEF Soft

LEMMA BindExactIsSoft ==
    ASSUME TypeInv, HostInv, NEW l \in Launches, BindExact(l)
    PROVE  Soft(l)
  <1>1. DOMAIN L = Launches /\ DOMAIN L[l] = Fields /\ DOMAIN run = Launches
    BY DEF TypeInv, SharedTypes, LaunchTypes, Fields
  <1>2. Quiet /\ Alone(l)
    BY <1>1 DEF BindExact, Fails, IsAgy, LaunchOnly, Rest, hostVars, Quiet, Alone, TypeInv, HostTypes, Put, With
  <1>3. OwnSoft(l) /\ ChildSoft(l) /\ PromptSoft(l) /\ ReportSoft(l) /\ RouteSoft(l) /\ RunSoft(l) /\ WaitSoft(l)
    BY <1>1, FieldNames
       DEF BindExact, Fails, IsAgy, LaunchOnly, Put, With, At, OwnSoft, ChildSoft, PromptSoft, ReportSoft, RouteSoft, RunSoft, WaitSoft,
          Early, Placed, Begun, Identified, Supervised, Bound, Told, Among, NoAgent
  <1> QED
    BY <1>2, <1>3 DEF Soft

LEMMA CommitStrengtheningIsSoft ==
    ASSUME TypeInv, HostInv, NEW l \in Launches, OwnInv(l), CommitStrengthening(l)
    PROVE  Soft(l)
  <1>1. DOMAIN L = Launches /\ DOMAIN L[l] = Fields /\ DOMAIN run = Launches
    BY DEF TypeInv, SharedTypes, LaunchTypes, Fields
  <1>2. Quiet /\ Alone(l)
    BY <1>1 DEF CommitStrengthening, Watching, LaunchOnly, Rest, hostVars, Quiet, Alone, TypeInv, HostTypes, Put, With
  <1>3. OwnSoft(l)
    BY <1>1, FieldNames DEF CommitStrengthening, Watching, LaunchOnly, Put, With, At, OwnSoft, Early, Placed
  <1>4. ChildSoft(l)
    BY <1>1, FieldNames DEF CommitStrengthening, Watching, LaunchOnly, Put, With, At, ChildSoft, Early, Placed, Begun, Identified, NoAgent
  <1>5. PromptSoft(l)
    BY <1>1, FieldNames DEF CommitStrengthening, Watching, LaunchOnly, Put, With, At, PromptSoft, Early, Placed, Supervised, Bound
  <1>6. ReportSoft(l)
    BY <1>1, FieldNames DEF CommitStrengthening, Watching, LaunchOnly, Put, With, At, ReportSoft, Early, Told
  <1>7. RouteSoft(l)
    BY <1>1, FieldNames DEF CommitStrengthening, Watching, LaunchOnly, Put, With, At, RouteSoft, Among
  <1>8. RunSoft(l)
    BY <1>1, FieldNames DEF CommitStrengthening, Watching, LaunchOnly, Put, With, At, RunSoft
  <1>9. WaitSoft(l)
    BY <1>1, FieldNames DEF CommitStrengthening, Watching, LaunchOnly, Put, With, At, WaitSoft
  <1> QED
    BY <1>2, <1>3, <1>4, <1>5, <1>6, <1>7, <1>8, <1>9 DEF Soft

LEMMA ReleaseIsSoft ==
    ASSUME TypeInv, HostInv, NEW l \in Launches, OwnInv(l), Release(l)
    PROVE  Soft(l)
  <1>1. DOMAIN L = Launches /\ DOMAIN L[l] = Fields /\ DOMAIN run = Launches
    BY DEF TypeInv, SharedTypes, LaunchTypes, Fields
  <1>2. Quiet /\ Alone(l)
    BY <1>1 DEF Release, Fails, LaunchOnly, Rest, hostVars, Quiet, Alone, TypeInv, HostTypes, Put, With
  <1>3. OwnSoft(l)
    BY <1>1, FieldNames DEF Release, Fails, LaunchOnly, Put, With, At, OwnSoft, Early, Placed
  <1>4. ChildSoft(l)
    BY <1>1, FieldNames DEF Release, Fails, LaunchOnly, Put, With, At, ChildSoft, Early, Placed, Begun, Identified, NoAgent
  <1>5. PromptSoft(l)
    BY <1>1, FieldNames DEF Release, Fails, LaunchOnly, Put, With, At, PromptSoft, Early, Placed, Supervised, Bound
  <1>6. ReportSoft(l)
    BY <1>1, FieldNames DEF Release, Fails, LaunchOnly, Put, With, At, ReportSoft, Early, Told
  <1>7. RouteSoft(l)
    BY <1>1, FieldNames DEF Release, Fails, LaunchOnly, Put, With, At, RouteSoft, Among
  <1>8. RunSoft(l)
    BY <1>1, FieldNames DEF Release, Fails, LaunchOnly, Put, With, At, RunSoft
  <1>9. WaitSoft(l)
    BY <1>1, FieldNames DEF Release, Fails, LaunchOnly, Put, With, At, WaitSoft
  <1> QED
    BY <1>2, <1>3, <1>4, <1>5, <1>6, <1>7, <1>8, <1>9 DEF Soft

LEMMA RouteIsSoft ==
    ASSUME TypeInv, HostInv, NEW l \in Launches, OwnInv(l), Route(l)
    PROVE  Soft(l)
  <1>1. DOMAIN L = Launches /\ DOMAIN L[l] = Fields /\ DOMAIN run = Launches
    BY DEF TypeInv, SharedTypes, LaunchTypes, Fields
  <1>2. Quiet /\ Alone(l)
    BY <1>1 DEF Route, Judged, LaunchOnly, Rest, hostVars, Quiet, Alone, TypeInv, HostTypes, Put, With
  <1>3. PICK t, r0 : /\ r0.chain = <<>>
                    /\ \/ Put(l, [pc |-> "probe", tier |-> t, r |-> r0])
                       \/ Put(l, [pc |-> "boundary", r |-> r0])
    BY DEF Route, Judged, Routing, NoRoute
  <1>4. OwnSoft(l) /\ ChildSoft(l) /\ PromptSoft(l) /\ ReportSoft(l) /\ RouteSoft(l) /\ RunSoft(l) /\ WaitSoft(l)
    BY <1>1, <1>3, FieldNames
       DEF Route, LaunchOnly, Put, With, At, OwnSoft, ChildSoft, PromptSoft, ReportSoft, RouteSoft, RunSoft, WaitSoft,
          Early, Placed, Begun, Identified, Supervised, Bound, Told, Among
  <1> QED
    BY <1>2, <1>4 DEF Soft

LEMMA SelectIsSoft ==
    ASSUME TypeInv, HostInv, NEW l \in Launches, OwnInv(l), Select(l)
    PROVE  Soft(l)
  <1>1. DOMAIN L = Launches /\ DOMAIN L[l] = Fields /\ DOMAIN run = Launches
    BY DEF TypeInv, SharedTypes, LaunchTypes, Fields
  <1>2. Quiet /\ Alone(l)
    BY <1>1 DEF Select, Fails, LaunchOnly, Rest, hostVars, Quiet, Alone, TypeInv, HostTypes, Put, With
  <1>3. run'[l].st = run[l].st /\ (run'[l].point = L[l].cur \/ L'[l].pc = "failing")
    <2>1. DOMAIN run[l] = {"point", "tier", "limited", "st"}
      BY DEF TypeInv, LaunchTypes, IsRun, NoRun, NoPrior
    <2> QED
      BY <1>1, <2>1, FieldNames DEF Select, SelectCandidate, Fails, Put, With
  <1>4. OwnSoft(l) /\ ChildSoft(l) /\ PromptSoft(l) /\ ReportSoft(l) /\ RouteSoft(l) /\ RunSoft(l) /\ WaitSoft(l)
    BY <1>1, <1>3, FieldNames
       DEF Select, Fails, Put, With, At, Rest, OwnSoft, ChildSoft, PromptSoft, ReportSoft, RouteSoft, RunSoft, WaitSoft,
          Early, Placed, Begun, Identified, Supervised, Bound, Told, Among
  <1> QED
    BY <1>2, <1>4 DEF Soft

LEMMA BindProvisionalIsSoft ==
    ASSUME TypeInv, HostInv, NEW l \in Launches, OwnInv(l), PromptInv(l), BindProvisional(l)
    PROVE  Soft(l)
  <1>1. DOMAIN L = Launches /\ DOMAIN L[l] = Fields /\ DOMAIN run = Launches
    BY DEF TypeInv, SharedTypes, LaunchTypes, Fields
  <1>2. Quiet /\ Alone(l)
    BY <1>1 DEF BindProvisional, Fails, IsAgy, CommitProvisional, LaunchOnly, Rest, hostVars, Quiet, Alone, TypeInv, HostTypes, Put, With
  <1>3. OwnSoft(l)
    BY <1>1, FieldNames DEF BindProvisional, Fails, IsAgy, CommitProvisional, LaunchOnly, Put, With, At, OwnSoft, Early, Placed
  <1>4. ChildSoft(l)
    BY <1>1, FieldNames DEF BindProvisional, Fails, IsAgy, CommitProvisional, LaunchOnly, Put, With, At, ChildSoft, Early, Placed, Begun, Identified, NoAgent
  <1>5. PromptSoft(l)
    <2>1. L[l].pc = "bind" /\ Kind[L[l].cur] = "agy"
      BY DEF BindProvisional, At, IsAgy
    <2>2. \/ L'[l].pc = "prompt" /\ L'[l].res = "provisional"
          \/ L'[l].pc = "failing" /\ L'[l].res = L[l].res
      BY <1>1, FieldNames DEF BindProvisional, Fails, CommitProvisional, Put, With
    <2>3. L[l].res \notin Bound
      BY <2>1 DEF PromptInv, Placed, Supervised, Bound
    <2> QED
      BY <2>1, <2>2, <2>3 DEF PromptSoft, Early, Placed, Supervised, Bound
  <1>6. ReportSoft(l)
    BY <1>1, FieldNames DEF BindProvisional, Fails, IsAgy, CommitProvisional, LaunchOnly, Put, With, At, ReportSoft, Early, Told
  <1>7. RouteSoft(l)
    BY <1>1, FieldNames DEF BindProvisional, Fails, IsAgy, CommitProvisional, LaunchOnly, Put, With, At, RouteSoft, Among
  <1>8. RunSoft(l)
    BY <1>1, FieldNames DEF BindProvisional, Fails, IsAgy, CommitProvisional, LaunchOnly, Put, With, At, RunSoft
  <1>9. WaitSoft(l)
    BY <1>1, FieldNames DEF BindProvisional, Fails, IsAgy, CommitProvisional, LaunchOnly, Put, With, At, WaitSoft
  <1> QED
    BY <1>2, <1>3, <1>4, <1>5, <1>6, <1>7, <1>8, <1>9 DEF Soft

LEMMA ReconcileIsSoft ==
    ASSUME TypeInv, HostInv, NEW l \in Launches, OwnInv(l), Reconcile(l)
    PROVE  Soft(l)
  <1>1. DOMAIN L = Launches /\ DOMAIN L[l] = Fields /\ DOMAIN run = Launches
    BY DEF TypeInv, SharedTypes, LaunchTypes, Fields
  <1>2. Quiet /\ Alone(l)
    BY <1>1 DEF Reconcile, NoLook, LaunchOnly, Rest, hostVars, Quiet, Alone, TypeInv, HostTypes, Put, With
  <1>3. OwnSoft(l)
    BY <1>1, FieldNames DEF Reconcile, NoLook, LaunchOnly, Put, With, At, OwnSoft, Early, Placed
  <1>4. ChildSoft(l)
    BY <1>1, FieldNames DEF Reconcile, NoLook, LaunchOnly, Put, With, At, ChildSoft, Early, Placed, Begun, Identified, NoAgent
  <1>5. PromptSoft(l)
    BY <1>1, FieldNames DEF Reconcile, NoLook, LaunchOnly, Put, With, At, PromptSoft, Early, Placed, Supervised, Bound
  <1>6. ReportSoft(l)
    <2> DEFINE new == OpenPanes \ L[l].seen
               cand == IF L[l].pane # NoPane THEN L[l].pane ELSE IF new = {} THEN NoPane ELSE Min(new)
    <2>1. cand \in {NoPane, L[l].pane} \/ cand \in new
      <3>1. new \in SUBSET Nat
        BY HostShape DEF TypeInv
      <3> QED
        BY <3>1, FirstNumber
    <2>2. L[l].pc = "failing"
      BY DEF Reconcile, At
    <2>3. \/ ~L[l].dispatched /\ L'[l].pc = "release"
          \/ /\ L'[l].pc = "reading" /\ L'[l].cert = L[l].cert /\ L'[l].look.cand = cand
             /\ L'[l].look.made = (cand \in new \/ (TabIsNew(l, L[l].tab) /\ PanesIn(L[l].tab, OpenPanes) # {}))
             /\ L'[l].look.snapshot = IF cand \in OpenPanes THEN "present" ELSE "absent"
          \/ L'[l].pc = "reading" /\ L'[l].cert = L[l].cert /\ L'[l].look.snapshot = "failed"
      BY <1>1, FieldNames DEF Reconcile, NoLook, Put, With
    <2> HIDE DEF new, cand
    <2> QED
      BY <2>1, <2>2, <2>3 DEF ReportSoft, Told
  <1>7. RouteSoft(l)
    BY <1>1, FieldNames DEF Reconcile, NoLook, LaunchOnly, Put, With, At, RouteSoft, Among
  <1>8. RunSoft(l)
    BY <1>1, FieldNames DEF Reconcile, NoLook, LaunchOnly, Put, With, At, RunSoft
  <1>9. WaitSoft(l)
    BY <1>1, FieldNames DEF Reconcile, NoLook, LaunchOnly, Put, With, At, WaitSoft
  <1> QED
    BY <1>2, <1>3, <1>4, <1>5, <1>6, <1>7, <1>8, <1>9 DEF Soft

LEMMA PrepareIsSoft ==
    ASSUME TypeInv, HostInv, NEW l \in Launches, OwnInv(l), PromptInv(l), Prepare(l)
    PROVE  Soft(l)
  <1>1. DOMAIN L = Launches /\ DOMAIN L[l] = Fields /\ DOMAIN run = Launches
    BY DEF TypeInv, SharedTypes, LaunchTypes, Fields
  <1>2. Quiet /\ Alone(l)
    BY <1>1 DEF Prepare, EarlyFailure, LaunchOnly, Rest, hostVars, Quiet, Alone, TypeInv, HostTypes, Put, With
  <1>3. OwnSoft(l)
    BY <1>1, FieldNames DEF Prepare, EarlyFailure, LaunchOnly, Put, With, At, OwnSoft, Early, Placed
  <1>4. ChildSoft(l)
    BY <1>1, FieldNames DEF Prepare, EarlyFailure, LaunchOnly, Put, With, At, ChildSoft, Early, Placed, Begun, Identified, NoAgent
  <1>5. PromptSoft(l)
    <2>1. L[l].pc = "prepare"
      BY DEF Prepare, At
    <2>2. (L'[l].pc = "place" /\ L'[l].res = "reserved") \/ (L'[l].pc = "failed" /\ L'[l].res = "released")
      BY <1>1, FieldNames DEF Prepare, EarlyFailure, Put, With
    <2>3. L[l].res \notin Bound
      BY <2>1 DEF PromptInv, Early, Bound
    <2> QED
      BY <2>1, <2>2, <2>3 DEF PromptSoft, Early, Placed, Supervised, Bound
  <1>6. ReportSoft(l)
    BY <1>1, FieldNames DEF Prepare, EarlyFailure, LaunchOnly, Put, With, At, ReportSoft, Early, Told
  <1>7. RouteSoft(l)
    BY <1>1, FieldNames DEF Prepare, EarlyFailure, LaunchOnly, Put, With, At, RouteSoft, Among
  <1>8. RunSoft(l)
    BY <1>1, FieldNames DEF Prepare, EarlyFailure, LaunchOnly, Put, With, At, RunSoft
  <1>9. WaitSoft(l)
    BY <1>1, FieldNames DEF Prepare, EarlyFailure, LaunchOnly, Put, With, At, WaitSoft
  <1> QED
    BY <1>2, <1>3, <1>4, <1>5, <1>6, <1>7, <1>8, <1>9 DEF Soft

(* A request is resolved: it is refused, or its route is sought. *)
LEMMA ResolvesIsSoft ==
    ASSUME TypeInv, NEW l \in Launches, OwnInv(l), L[l].pc = "none",
           NEW of \in {0} \union (Launches \ {l}), NEW asked, NEW exact, NEW internal,
           Resolves(l, [of |-> of, asked |-> asked, exact |-> exact, internal |-> internal]),
           UNCHANGED <<hostVars, run>>, l # 1 => "auto" \notin cast \/ rec' = "relaunched"
    PROVE  Soft(l)
  <1>1. DOMAIN L = Launches /\ DOMAIN L[l] = Fields /\ DOMAIN run = Launches
    BY DEF TypeInv, SharedTypes, LaunchTypes, Fields
  <1>2. Quiet /\ Alone(l)
    BY <1>1 DEF Resolves, Unusable, hostVars, Quiet, Alone, TypeInv, HostTypes, Put, With
  <1>3. /\ L'[l].dispatched = L[l].dispatched /\ L'[l].pane = L[l].pane /\ L'[l].cur = L[l].cur
        /\ L'[l].ident = L[l].ident /\ L'[l].r = L[l].r /\ L'[l].todo = L[l].todo
        /\ L'[l].res = L[l].res /\ L'[l].look = L[l].look /\ L'[l].of = of
    BY <1>1, FieldNames DEF Resolves, Unusable, Put, With
  <1>4. \/ L'[l].pc = "refused" /\ L'[l].prior = L[l].prior
        \/ L'[l].pc = "route" /\ L'[l].cert = L[l].cert /\ L'[l].prior = PriorOf(of) /\ Recoverable(of)
    BY <1>1, FieldNames DEF Resolves, Unusable, Put, With
  <1>5. L[l].prior = NoPrior
    BY DEF OwnInv, Fresh
  <1>6. L'[l].prior.st \in {"failed", "cancelled"} =>
          of \in Launches \ {l} /\ run[of].st \in {"failed", "cancelled"} /\ L'[l].prior = run[of]
    BY <1>4, <1>5 DEF NoPrior, PriorOf, Recoverable
  <1>7. OwnSoft(l) /\ PromptSoft(l) /\ ReportSoft(l) /\ WaitSoft(l)
    BY <1>3, <1>4 DEF OwnSoft, PromptSoft, ReportSoft, WaitSoft, Early, Placed, Supervised, Bound, Told
  <1>8. ChildSoft(l) /\ RunSoft(l)
    BY <1>3, <1>4 DEF ChildSoft, RunSoft, Early, Placed, Begun, Identified
  <1>9. RouteSoft(l)
    BY <1>3, <1>6 DEF RouteSoft
  <1> QED
    BY <1>2, <1>7, <1>8, <1>9 DEF Soft

LEMMA RequestIsSoft ==
    ASSUME TypeInv, NEW l \in Launches, OwnInv(l), Request(l)
    PROVE  Soft(l)
  <1>1. PICK asked, exact :
          \E of \in (IF l = 1 \/ "two" \in cast THEN {0} ELSE IF "manual" \in cast THEN {1} ELSE {}) :
            Resolves(l, [of |-> of, asked |-> asked, exact |-> exact, internal |-> FALSE])
    BY DEF Request
  <1>2. PICK of \in (IF l = 1 \/ "two" \in cast THEN {0} ELSE IF "manual" \in cast THEN {1} ELSE {}) :
            Resolves(l, [of |-> of, asked |-> asked, exact |-> exact, internal |-> FALSE])
    BY <1>1
  <1>3. of \in {0} \union (Launches \ {l})
    BY <1>2, HostAssumption
  <1>4. l # 1 => "auto" \notin cast
    BY <1>2, CastAssumption DEF TypeInv, SharedTypes
  <1>5. L[l].pc = "none" /\ UNCHANGED <<hostVars, run>>
    BY DEF Request, At, LaunchOnly
  <1> QED
    BY <1>2, <1>3, <1>4, <1>5, ResolvesIsSoft

LEMMA RecoveryRelaunchesIsSoft ==
    ASSUME TypeInv, RecoveryInv, OwnInv(2), RecoveryRelaunches
    PROVE  Soft(2)
  <1>1. 2 \in Launches /\ 1 \in Launches \ {2}
    BY HostAssumption
  <1>2. L[2].pc = "none"
    BY DEF RecoveryInv, RecoveryRelaunches
  <1>3. /\ UNCHANGED <<hostVars, run>> /\ rec' = "relaunched"
        /\ Resolves(2, [of |-> 1, asked |-> L[1].asked, exact |-> NoPoint, internal |-> TRUE])
    BY DEF RecoveryRelaunches
  <1> QED
    BY <1>1, <1>2, <1>3, ResolvesIsSoft

(* An abort is heard at the next check. *)
LEMMA AbortIsSoft ==
    ASSUME TypeInv, HostInv, NEW l \in Launches, ChildInv(l), Rest, UNCHANGED <<hostVars, cool, run, rec>>,
           L[l].pc # "none", Put(l, [aborted |-> TRUE])
    PROVE  Soft(l)
  <1>1. DOMAIN L = Launches /\ DOMAIN L[l] = Fields /\ DOMAIN run = Launches
    BY DEF TypeInv, SharedTypes, LaunchTypes, Fields
  <1>2. Quiet /\ Alone(l)
    BY <1>1 DEF hostVars, Quiet, Alone, TypeInv, HostTypes, Put, With
  <1>4. /\ L'[l].pc = L[l].pc /\ L'[l].of = L[l].of /\ L'[l].prior = L[l].prior
        /\ L'[l].r = L[l].r /\ L'[l].todo = L[l].todo /\ L'[l].cur = L[l].cur
        /\ L'[l].pane = L[l].pane /\ L'[l].dispatched = L[l].dispatched /\ L'[l].ident = L[l].ident
        /\ L'[l].look = L[l].look /\ L'[l].res = L[l].res /\ L'[l].cert = L[l].cert
        /\ run'[l].point = run[l].point
    BY <1>1, FieldNames DEF Put, With
  <1>5. RunSoft(l)
    BY <1>1 DEF RunSoft
  <1> QED
    BY <1>2, <1>4, <1>5, StaysIsSoft DEF Soft

LEMMA ProbeIsSoft ==
    ASSUME TypeInv, HostInv, NEW l \in Launches, OwnInv(l), Probe(l)
    PROVE  Soft(l)
  <1>1. DOMAIN L = Launches /\ DOMAIN L[l] = Fields /\ DOMAIN run = Launches
    BY DEF TypeInv, SharedTypes, LaunchTypes, Fields
  <1>2. Quiet /\ Alone(l)
    BY <1>1 DEF Probe, Skipped, NoRoute, LaunchOnly, Rest, hostVars, Quiet, Alone, TypeInv, HostTypes, Put, With
  <1>3. OwnSoft(l)
    BY <1>1, FieldNames DEF Probe, Skipped, NoRoute, LaunchOnly, Put, With, At, OwnSoft, Early, Placed
  <1>4. ChildSoft(l)
    BY <1>1, FieldNames DEF Probe, Skipped, NoRoute, LaunchOnly, Put, With, At, ChildSoft, Early, Placed, Begun, Identified, NoAgent
  <1>5. PromptSoft(l)
    BY <1>1, FieldNames DEF Probe, Skipped, NoRoute, LaunchOnly, Put, With, At, PromptSoft, Early, Placed, Supervised, Bound
  <1>6. ReportSoft(l)
    BY <1>1, FieldNames DEF Probe, Skipped, NoRoute, LaunchOnly, Put, With, At, ReportSoft, Early, Told
  <1>7. RouteSoft(l)
    <2> DEFINE r == L[l].r
               p == Head(r.todo)
    <2>1. r.chain \in Seq(Points) /\ r.todo \in Seq(Points) /\ r.todo # <<>> /\ DOMAIN r = DOMAIN NoRoute
      BY DEF TypeInv, LaunchTypes, Routes, Probe
    <2>2. p \in Points
      BY <2>1
    <2>3. L'[l].of = L[l].of /\ L'[l].prior = L[l].prior /\ L'[l].todo = L[l].todo /\ L'[l].cur = L[l].cur
      BY <1>1, FieldNames DEF Probe, Put, With
    <2>4. \/ L'[l].r = Skipped(r)
          \/ ~LeftOut(L[l].prior, p) /\ L'[l].r = Probed(r, p, Status(p))
          \/ L'[l].r = NoRoute
      BY <1>1, FieldNames DEF Probe, Put, With
    <2> HIDE DEF r, p
    <2>5. L'[l].r.chain = r.chain \/ (L'[l].r.chain = Append(r.chain, p) /\ ~LeftOut(L[l].prior, p)) \/ L'[l].r.chain = <<>>
      BY <2>1, <2>4 DEF Skipped, Probed, NoRoute
    <2>6. \A i \in DOMAIN Append(r.chain, p) : Among(Append(r.chain, p)[i], r.chain) \/ Append(r.chain, p)[i] = p
      BY <2>1, <2>2 DEF Among
    <2>7. \A i \in DOMAIN r.chain : Among(r.chain[i], r.chain)
      BY DEF Among
    <2>8. L[l].prior.point # NoPoint /\ ~LeftOut(L[l].prior, p) => Elsewhere(l, p)
      BY DEF LeftOut, Elsewhere
    <2>9. L[l].prior.point # NoPoint =>
            \A i \in DOMAIN L'[l].r.chain : Among(L'[l].r.chain[i], r.chain) \/ Elsewhere(l, L'[l].r.chain[i])
      BY <2>5, <2>6, <2>7, <2>8
    <2> QED
      BY <2>3, <2>9 DEF RouteSoft, Among, r
  <1>8. RunSoft(l)
    BY <1>1, FieldNames DEF Probe, Skipped, NoRoute, LaunchOnly, Put, With, At, RunSoft
  <1>9. WaitSoft(l)
    BY <1>1, FieldNames DEF Probe, Skipped, NoRoute, LaunchOnly, Put, With, At, WaitSoft
  <1> QED
    BY <1>2, <1>3, <1>4, <1>5, <1>6, <1>7, <1>8, <1>9 DEF Soft

LEMMA RoutedIsSoft ==
    ASSUME TypeInv, HostInv, NEW l \in Launches, OwnInv(l), Routed(l)
    PROVE  Soft(l)
  <1>1. DOMAIN L = Launches /\ DOMAIN L[l] = Fields /\ DOMAIN run = Launches
    BY DEF TypeInv, SharedTypes, LaunchTypes, Fields
  <1>2. Quiet /\ Alone(l)
    BY <1>1 DEF Routed, Fails, LaunchOnly, Rest, hostVars, Quiet, Alone, TypeInv, HostTypes, Put, With
  <1>3. OwnSoft(l)
    BY <1>1, FieldNames DEF Routed, Fails, LaunchOnly, Put, With, At, OwnSoft, Early, Placed
  <1>4. ChildSoft(l)
    BY <1>1, FieldNames DEF Routed, Fails, LaunchOnly, Put, With, At, ChildSoft, Early, Placed, Begun, Identified, NoAgent
  <1>5. PromptSoft(l)
    BY <1>1, FieldNames DEF Routed, Fails, LaunchOnly, Put, With, At, PromptSoft, Early, Placed, Supervised, Bound
  <1>6. ReportSoft(l)
    BY <1>1, FieldNames DEF Routed, Fails, LaunchOnly, Put, With, At, ReportSoft, Early, Told
  <1>7. RouteSoft(l)
    <2>1. L'[l].of = L[l].of /\ L'[l].prior = L[l].prior /\ L'[l].r = L[l].r /\ L'[l].cur = L[l].cur
      BY <1>1, FieldNames DEF Routed, Put, With
    <2>2. L'[l].todo = L[l].todo \/ L'[l].todo = ChainOf(L[l].r, L[l].exact)
      BY <1>1, FieldNames DEF Routed, Put, With
    <2>3. L[l].r.chain \in Seq(Points)
      BY DEF TypeInv, LaunchTypes, Routes
    <2>4. \A i \in DOMAIN ChainOf(L[l].r, L[l].exact) : Among(ChainOf(L[l].r, L[l].exact)[i], L[l].r.chain)
      BY <2>3 DEF ChainOf, Contains, Among
    <2> QED
      BY <2>1, <2>2, <2>4 DEF RouteSoft, Among
  <1>8. RunSoft(l)
    BY <1>1, FieldNames DEF Routed, Fails, LaunchOnly, Put, With, At, RunSoft
  <1>9. WaitSoft(l)
    BY <1>1, FieldNames DEF Routed, Fails, LaunchOnly, Put, With, At, WaitSoft
  <1> QED
    BY <1>2, <1>3, <1>4, <1>5, <1>6, <1>7, <1>8, <1>9 DEF Soft

LEMMA JudgeIsSoft ==
    ASSUME TypeInv, HostInv, NEW l \in Launches, OwnInv(l), Judge(l)
    PROVE  Soft(l)
  <1>1. DOMAIN L = Launches /\ DOMAIN L[l] = Fields /\ DOMAIN run = Launches
    BY DEF TypeInv, SharedTypes, LaunchTypes, Fields
  <1>2. Quiet /\ Alone(l)
    BY <1>1 DEF Judge, Fails, WindowCloses, LaunchOnly, Rest, hostVars, Quiet, Alone, TypeInv, HostTypes, Put, With
  <1>3. OwnSoft(l)
    BY <1>1, FieldNames DEF Judge, Fails, WindowCloses, LaunchOnly, Put, With, At, OwnSoft, Early, Placed
  <1>4. ChildSoft(l)
    <2> DEFINE o == Occupant(L[l].pane)
    <2>1. ~Contradictory(l) /\ Ready(l, o) => o # NoAgent /\ agent[o].by = l
      BY DEF Contradictory, Ready, CompleteIdentity, SampleRecords, ReplacedIdentity
    <2>2. L[l].pc = "judge" /\ L'[l].cur = L[l].cur /\ run' = run
      BY <1>1, FieldNames DEF Judge, At, Fails, WindowCloses, LaunchOnly, Put, With
    <2>3. \/ L'[l].pc \in {"failing", "ready"} /\ L'[l].ident = L[l].ident
          \/ L'[l].pc = "bind" /\ L'[l].ident = o /\ ~Contradictory(l) /\ Ready(l, o)
      BY <1>1, FieldNames DEF Judge, Fails, WindowCloses, Put, With
    <2> HIDE DEF o
    <2> QED
      BY <2>1, <2>2, <2>3 DEF ChildSoft, Early, Placed, Begun, Identified, o
  <1>5. PromptSoft(l)
    BY <1>1, FieldNames DEF Judge, Fails, WindowCloses, LaunchOnly, Put, With, At, PromptSoft, Early, Placed, Supervised, Bound
  <1>6. ReportSoft(l)
    BY <1>1, FieldNames DEF Judge, Fails, WindowCloses, LaunchOnly, Put, With, At, ReportSoft, Early, Told
  <1>7. RouteSoft(l)
    BY <1>1, FieldNames DEF Judge, Fails, WindowCloses, LaunchOnly, Put, With, At, RouteSoft, Among
  <1>8. RunSoft(l)
    BY <1>1, FieldNames DEF Judge, Fails, WindowCloses, LaunchOnly, Put, With, At, RunSoft
  <1>9. WaitSoft(l)
    BY <1>1, FieldNames DEF Judge, Fails, WindowCloses, LaunchOnly, Put, With, At, WaitSoft
  <1> QED
    BY <1>2, <1>3, <1>4, <1>5, <1>6, <1>7, <1>8, <1>9 DEF Soft

(* Dropping a point of a chain, but never its first. *)
LEMMA Dropping ==
    ASSUME NEW s \in Seq(Points), NEW k \in 2..Len(s)
    PROVE  /\ RemoveAt(s, k) \in Seq(Points) /\ RemoveAt(s, k) # <<>>
           /\ \A i \in DOMAIN RemoveAt(s, k) : Among(RemoveAt(s, k)[i], s)
  <1> DEFINE a == SubSeq(s, 1, k - 1)
             b == SubSeq(s, k + 1, Len(s))
  <1>1. a \in Seq(Points) /\ Len(a) = k - 1 /\ \A i \in 1..(k - 1) : a[i] = s[i]
    OBVIOUS
  <1>2. b \in Seq(Points) /\ Len(b) = Len(s) - k /\ \A i \in 1..(Len(s) - k) : b[i] = s[i + k]
    OBVIOUS
  <1> HIDE DEF a, b
  <1>3. a \o b \in Seq(Points) /\ Len(a \o b) = Len(s) - 1
    <2>1. a \in Seq(Points) /\ b \in Seq(Points) /\ Len(a) = k - 1 /\ Len(b) = Len(s) - k
      BY <1>1, <1>2
    <2>2. a \o b \in Seq(Points) /\ Len(a \o b) = Len(a) + Len(b)
      BY <2>1
    <2>3. (k - 1) + (Len(s) - k) = Len(s) - 1
      OBVIOUS
    <2> QED
      BY <2>1, <2>2, <2>3
  <1>4. ASSUME NEW i \in 1..(Len(s) - 1) PROVE Among((a \o b)[i], s)
    <2>1. CASE i <= k - 1
      <3>1. i \in 1..(k - 1) /\ i \in DOMAIN s
        BY <2>1
      <3>2. (a \o b)[i] = a[i]
        BY <1>1, <1>2, <3>1
      <3> QED
        BY <1>1, <3>1, <3>2 DEF Among
    <2>2. CASE ~(i <= k - 1)
      <3>1. i - (k - 1) \in 1..(Len(s) - k) /\ i - (k - 1) + k \in DOMAIN s
        BY <2>2
      <3>2. (a \o b)[i] = b[i - (k - 1)]
        BY <1>1, <1>2, <2>2
      <3> QED
        BY <1>2, <3>1, <3>2 DEF Among
    <2> QED
      BY <2>1, <2>2
  <1>5. RemoveAt(s, k) = a \o b
    BY DEF RemoveAt, a, b
  <1>6. DOMAIN (a \o b) = 1..(Len(s) - 1) /\ Len(s) - 1 > 0
    BY <1>3
  <1>7. a \o b # <<>>
    BY <1>3, <1>6
  <1> QED
    BY <1>3, <1>4, <1>5, <1>6, <1>7

LEMMA ChildIsSoft ==
    ASSUME TypeInv, HostInv, NEW l \in Launches, OwnInv(l), PromptInv(l), Child(l)
    PROVE  Soft(l)
  <1>1. DOMAIN L = Launches /\ DOMAIN L[l] = Fields /\ DOMAIN run = Launches
    BY DEF TypeInv, SharedTypes, LaunchTypes, Fields
  <1>2. PICK s : /\ s = L[l].todo \/ \E dropped \in 2..Len(L[l].todo) : s = RemoveAt(L[l].todo, dropped)
                 /\ \/ Put(l, [pc |-> "failed"])
                    \/ EarlyFailure(l)
                    \/ Put(l, [pc |-> "prepare", seen |-> OpenPanes])
                    \/ Put(l, [pc |-> "prepare", seen |-> OpenPanes, todo |-> s])
    BY DEF Child
  <1>3. /\ L[l].pc = "child" /\ L[l].res \notin Bound
        /\ UNCHANGED <<pane, agent, late, run>>
    BY DEF Child, At, PromptInv, Early, Bound, LaunchOnly, hostVars
  <1>4. Quiet /\ Alone(l)
    BY <1>1, <1>2, <1>3 DEF EarlyFailure, Quiet, Alone, TypeInv, HostTypes, Put, With
  <1>5. OwnSoft(l) /\ ChildSoft(l) /\ PromptSoft(l) /\ ReportSoft(l) /\ RunSoft(l) /\ WaitSoft(l)
    BY <1>1, <1>2, <1>3, FieldNames
       DEF EarlyFailure, Put, With, OwnSoft, ChildSoft, PromptSoft, ReportSoft, RunSoft, WaitSoft,
          Early, Placed, Begun, Identified, Supervised, Bound, Told, Among
  <1>6. RouteSoft(l)
    <2>1. L'[l].of = L[l].of /\ L'[l].prior = L[l].prior /\ L'[l].r = L[l].r /\ L'[l].cur = L[l].cur
      BY <1>1, <1>2, FieldNames DEF EarlyFailure, Put, With
    <2>2. L'[l].todo \in {L[l].todo, s}
      BY <1>1, <1>2, FieldNames DEF EarlyFailure, Put, With
    <2>3. L[l].todo \in Seq(Points)
      BY DEF TypeInv, LaunchTypes
    <2>4. \A i \in DOMAIN L[l].todo : Among(L[l].todo[i], L[l].todo)
      BY DEF Among
    <2>5. \A i \in DOMAIN s : Among(s[i], L[l].todo)
      BY <1>2, <2>3, <2>4, Dropping
    <2>6. \A i \in DOMAIN L[l].r.chain : Among(L[l].r.chain[i], L[l].r.chain)
      BY DEF Among
    <2> QED
      BY <2>1, <2>2, <2>4, <2>5, <2>6 DEF RouteSoft
  <1> QED
    BY <1>4, <1>5, <1>6 DEF Soft

LEMMA AttemptIsSoft ==
    ASSUME TypeInv, HostInv, NEW l \in Launches, OwnInv(l), Attempt(l)
    PROVE  Soft(l)
  <1>1. DOMAIN L = Launches /\ DOMAIN L[l] = Fields /\ DOMAIN run = Launches
    BY DEF TypeInv, SharedTypes, LaunchTypes, Fields
  <1>2. Quiet /\ Alone(l)
    BY <1>1 DEF Attempt, Fails, LaunchOnly, Rest, hostVars, Quiet, Alone, TypeInv, HostTypes, Put, With
  <1>3. OwnSoft(l)
    BY <1>1, FieldNames DEF Attempt, Fails, LaunchOnly, Put, With, At, OwnSoft, Early, Placed
  <1>4. ChildSoft(l)
    <2>1. L[l].pc = "attempt"
      BY DEF Attempt, At
    <2>2. /\ L'[l].ident = L[l].ident /\ run' = run /\ L'[l].pc \in {"failing", "attempt", "start"}
          /\ L'[l].pc = "start" => L[l].todo # <<>> /\ L'[l].cur = Head(L[l].todo)
          /\ L'[l].pc # "start" => L'[l].cur = L[l].cur
      BY <1>1, <2>1, FieldNames DEF Attempt, Fails, LaunchOnly, Put, With
    <2>3. L[l].todo # <<>> => Head(L[l].todo) \in Points
      BY DEF TypeInv, LaunchTypes
    <2> QED
      BY <2>1, <2>2, <2>3 DEF ChildSoft, Early, Placed, Begun, Identified
  <1>5. PromptSoft(l)
    BY <1>1, FieldNames DEF Attempt, Fails, LaunchOnly, Put, With, At, PromptSoft, Early, Placed, Supervised, Bound
  <1>6. ReportSoft(l)
    BY <1>1, FieldNames DEF Attempt, Fails, LaunchOnly, Put, With, At, ReportSoft, Early, Told
  <1>7. RouteSoft(l)
    <2>1. L'[l].of = L[l].of /\ L'[l].prior = L[l].prior /\ L'[l].r = L[l].r
      BY <1>1, FieldNames DEF Attempt, Fails, Put, With
    <2>2. \/ L'[l].todo = L[l].todo /\ L'[l].cur = L[l].cur
          \/ /\ L[l].todo # <<>> /\ L'[l].todo = Tail(L[l].todo)
             /\ L'[l].cur \in {L[l].cur, Head(L[l].todo)}
      <3>1. \/ Fails(l)
            \/ /\ L[l].todo # <<>>
               /\ \/ Put(l, [todo |-> Tail(L[l].todo)])
                  \/ Put(l, With([todo |-> Tail(L[l].todo)], [pc |-> "start", cur |-> Head(L[l].todo)]))
        BY DEF Attempt
      <3>2. CASE Fails(l)
        BY <1>1, <3>2, FieldNames DEF Fails, Put, With
      <3>3. CASE L[l].todo # <<>> /\ Put(l, [todo |-> Tail(L[l].todo)])
        BY <1>1, <3>3, FieldNames DEF Put, With
      <3>4. CASE /\ L[l].todo # <<>>
                 /\ Put(l, With([todo |-> Tail(L[l].todo)], [pc |-> "start", cur |-> Head(L[l].todo)]))
        BY <1>1, <3>4, FieldNames DEF Put, With
      <3> QED
        BY <3>1, <3>2, <3>3, <3>4
    <2>3. L[l].todo \in Seq(Points)
      BY DEF TypeInv, LaunchTypes
    <2>4. L[l].todo # <<>> =>
            /\ \A i \in DOMAIN Tail(L[l].todo) : Among(Tail(L[l].todo)[i], L[l].todo)
            /\ Among(Head(L[l].todo), L[l].todo)
      BY <2>3 DEF Among
    <2> QED
      BY <2>1, <2>2, <2>4 DEF RouteSoft, Among
  <1>8. RunSoft(l)
    BY <1>1, FieldNames DEF Attempt, Fails, LaunchOnly, Put, With, At, RunSoft
  <1>9. WaitSoft(l)
    BY <1>1, FieldNames DEF Attempt, Fails, LaunchOnly, Put, With, At, WaitSoft
  <1> QED
    BY <1>2, <1>3, <1>4, <1>5, <1>6, <1>7, <1>8, <1>9 DEF Soft

LEMMA ReadbackIsSoft ==
    ASSUME TypeInv, HostInv, NEW l \in Launches, OwnInv(l), Readback(l)
    PROVE  Soft(l)
  <1>1. DOMAIN L = Launches /\ DOMAIN L[l] = Fields /\ DOMAIN run = Launches
    BY DEF TypeInv, SharedTypes, LaunchTypes, Fields
  <1>2. Quiet /\ Alone(l)
    BY <1>1 DEF Readback, Rest, LaunchOnly, Rest, hostVars, Quiet, Alone, TypeInv, HostTypes, Put, With
  <1>3. OwnSoft(l)
    BY <1>1, FieldNames DEF Readback, Rest, LaunchOnly, Put, With, At, OwnSoft, Early, Placed
  <1>4. ChildSoft(l)
    BY <1>1, FieldNames DEF Readback, Rest, LaunchOnly, Put, With, At, ChildSoft, Early, Placed, Begun, Identified, NoAgent
  <1>5. PromptSoft(l)
    BY <1>1, FieldNames DEF Readback, Rest, LaunchOnly, Put, With, At, PromptSoft, Early, Placed, Supervised, Bound
  <1>6. ReportSoft(l)
    <2>1. L[l].pc = "reading" /\ L'[l].pc = "release"
      BY <1>1, FieldNames DEF Readback, At, Put, With
    <2>2. \E found \in BOOLEAN, unread \in BOOLEAN : L'[l].cert = LaunchEffectCertainty(L[l], found, unread)
      <3>1. \E found \in BOOLEAN, unread \in BOOLEAN :
              Put(l, [pc |-> "release", cert |-> LaunchEffectCertainty(L[l], found, unread)])
        BY DEF Readback
      <3> QED
        BY <1>1, <3>1, FieldNames DEF Put, With
    <2>3. L'[l].cert = "absent" =>
            L[l].look.snapshot = "absent" /\ ~L[l].look.made /\ L[l].look.cand # NoPane
      BY <2>2 DEF LaunchEffectCertainty
    <2> QED
      BY <2>1, <2>3 DEF ReportSoft, Told
  <1>7. RouteSoft(l)
    BY <1>1, FieldNames DEF Readback, Rest, LaunchOnly, Put, With, At, RouteSoft, Among
  <1>8. RunSoft(l)
    BY <1>1, FieldNames DEF Readback, Rest, LaunchOnly, Put, With, At, RunSoft
  <1>9. WaitSoft(l)
    BY <1>1, FieldNames DEF Readback, Rest, LaunchOnly, Put, With, At, WaitSoft
  <1> QED
    BY <1>2, <1>3, <1>4, <1>5, <1>6, <1>7, <1>8, <1>9 DEF Soft

LEMMA ConfirmAgyNativeSessionIsSoft ==
    ASSUME TypeInv, HostInv, NEW l \in Launches, OwnInv(l), ConfirmAgyNativeSession(l)
    PROVE  Soft(l)
  <1>1. DOMAIN L = Launches /\ DOMAIN L[l] = Fields /\ DOMAIN run = Launches
    BY DEF TypeInv, SharedTypes, LaunchTypes, Fields
  <1>2. Quiet /\ Alone(l)
    BY <1>1 DEF ConfirmAgyNativeSession, Fails, WindowCloses, LaunchOnly, Rest, hostVars, Quiet, Alone, TypeInv, HostTypes, Put, With
  <1>3. OwnSoft(l)
    BY <1>1, FieldNames DEF ConfirmAgyNativeSession, Fails, WindowCloses, LaunchOnly, Put, With, At, OwnSoft, Early, Placed
  <1>4. ChildSoft(l)
    <2> DEFINE o == Occupant(L[l].pane)
    <2>1. L[l].pc = "confirm" /\ L'[l].cur = L[l].cur /\ run' = run
      BY <1>1, FieldNames DEF ConfirmAgyNativeSession, At, Fails, WindowCloses, LaunchOnly, Put, With
    <2>2. \/ L'[l].pc = "failing" /\ L'[l].ident = L[l].ident
          \/ L'[l].pc = "strengthen" /\ L'[l].ident = o /\ ProvisionalContinuity(l, o)
      BY <1>1, FieldNames DEF ConfirmAgyNativeSession, Fails, WindowCloses, Put, With
    <2> HIDE DEF o
    <2> QED
      BY <2>1, <2>2 DEF ProvisionalContinuity, ChildSoft, Early, Placed, Begun, Identified, o
  <1>5. PromptSoft(l)
    BY <1>1, FieldNames DEF ConfirmAgyNativeSession, Fails, WindowCloses, LaunchOnly, Put, With, At, PromptSoft, Early, Placed, Supervised, Bound
  <1>6. ReportSoft(l)
    BY <1>1, FieldNames DEF ConfirmAgyNativeSession, Fails, WindowCloses, LaunchOnly, Put, With, At, ReportSoft, Early, Told
  <1>7. RouteSoft(l)
    BY <1>1, FieldNames DEF ConfirmAgyNativeSession, Fails, WindowCloses, LaunchOnly, Put, With, At, RouteSoft, Among
  <1>8. RunSoft(l)
    BY <1>1, FieldNames DEF ConfirmAgyNativeSession, Fails, WindowCloses, LaunchOnly, Put, With, At, RunSoft
  <1>9. WaitSoft(l)
    BY <1>1, FieldNames DEF ConfirmAgyNativeSession, Fails, WindowCloses, LaunchOnly, Put, With, At, WaitSoft
  <1> QED
    BY <1>2, <1>3, <1>4, <1>5, <1>6, <1>7, <1>8, <1>9 DEF Soft

LEMMA ConfirmPromptConsumptionIsSoft ==
    ASSUME TypeInv, HostInv, NEW l \in Launches, OwnInv(l), ConfirmPromptConsumption(l)
    PROVE  Soft(l)
  <1>1. DOMAIN L = Launches /\ DOMAIN L[l] = Fields /\ DOMAIN run = Launches
    BY DEF TypeInv, SharedTypes, LaunchTypes, Fields
  <1>2. Quiet /\ Alone(l)
    <2>1. Alone(l)
      BY <1>1 DEF ConfirmPromptConsumption, Alone, Fails, WindowCloses, Put
    <2> DEFINE o == Occupant(L[l].pane)
    <2>2. pane' = pane /\ late' = late /\ (agent' = agent \/ (o # NoAgent /\ SubmitIfUnsent(o)))
      BY DEF ConfirmPromptConsumption, HostUnchanged, hostVars, WindowCloses
    <2>3. CASE agent' = agent
      <3>1. agent \in Seq(AgentRec)
        BY DEF TypeInv, HostTypes
      <3> HIDE DEF o
      <3> QED
        BY <2>1, <2>2, <2>3, <3>1 DEF Quiet
    <2>4. CASE o # NoAgent /\ agent' = [agent EXCEPT ![o].text = "sent"]
      <3>1. o \in DOMAIN agent /\ agent[o] \in AgentRec
        BY <2>4, OccupantIs, HostShape DEF TypeInv
      <3> HIDE DEF o
      <3>2. [agent[o] EXCEPT !.text = "sent"] \in AgentRec
        BY <3>1 DEF AgentRec
      <3>3. agent' = [agent EXCEPT ![o] = [agent[o] EXCEPT !.text = "sent"]]
        BY <2>4
      <3>4. agent' \in Seq(AgentRec) /\ Len(agent') = Len(agent)
        BY <3>1, <3>2, <3>3 DEF TypeInv, HostTypes
      <3>5. \A a \in DOMAIN agent :
              /\ agent'[a].by = agent[a].by /\ agent'[a].pane = agent[a].pane
              /\ agent'[a].point = agent[a].point /\ agent'[a].st = agent[a].st
              /\ agent'[a].heard = agent[a].heard
        BY <3>1, <3>3 DEF AgentRec
      <3> QED
        BY <2>1, <2>2, <3>4, <3>5 DEF Quiet
    <2>5. agent' = agent \/ (o # NoAgent /\ agent' = [agent EXCEPT ![o].text = "sent"])
      BY <2>2 DEF SubmitIfUnsent
    <2> QED
      BY <2>1, <2>3, <2>4, <2>5
  <1>3. OwnSoft(l)
    BY <1>1, FieldNames DEF ConfirmPromptConsumption, Fails, WindowCloses, Put, With, At, OwnSoft, Early, Placed
  <1>4. ChildSoft(l)
    BY <1>1, FieldNames DEF ConfirmPromptConsumption, Fails, WindowCloses, Put, With, At, ChildSoft, Early, Placed, Begun, Identified, NoAgent
  <1>5. PromptSoft(l)
    <2>1. L[l].pc = "confirm" /\ Kind[L[l].cur] # "agy"
      BY DEF ConfirmPromptConsumption, At, IsAgy
    <2>2. L'[l].pc \in {"launched", "failing", "confirm"} /\ L'[l].res = L[l].res
      BY <1>1, <2>1, FieldNames DEF ConfirmPromptConsumption, Fails, WindowCloses, Put, With
    <2> QED
      BY <2>1, <2>2 DEF PromptSoft, Early, Placed, Supervised, Bound
  <1>6. ReportSoft(l)
    BY <1>1, FieldNames DEF ConfirmPromptConsumption, Fails, WindowCloses, Put, With, At, ReportSoft, Early, Told
  <1>7. RouteSoft(l)
    BY <1>1, FieldNames DEF ConfirmPromptConsumption, Fails, WindowCloses, Put, With, At, RouteSoft, Among
  <1>8. RunSoft(l)
    BY <1>1, FieldNames DEF ConfirmPromptConsumption, Fails, WindowCloses, Put, With, At, RunSoft
  <1>9. WaitSoft(l)
    BY <1>1, FieldNames DEF ConfirmPromptConsumption, Fails, WindowCloses, Put, With, At, WaitSoft
  <1> QED
    BY <1>2, <1>3, <1>4, <1>5, <1>6, <1>7, <1>8, <1>9 DEF Soft

(* The run alone changes: it is concluded, or marked by the recovery. *)
LEMMA ConcludeIsSoft ==
    ASSUME TypeInv, HostInv, NEW l \in Launches, OwnInv(l), ChildInv(l), Conclude(l)
    PROVE  Soft(l)
  <1>1. DOMAIN run = Launches /\ DOMAIN run[l] = {"point", "tier", "limited", "st"} /\ DOMAIN L = Launches
    BY DEF TypeInv, SharedTypes, LaunchTypes, IsRun, NoRun, NoPrior
  <1>2. PICK st \in {"handed_off", "recovery_pending"} : run' = [run EXCEPT ![l].st = st]
    BY DEF Conclude
  <1>3. pane' = pane /\ agent' = agent /\ late' = late /\ L' = L
    BY DEF Conclude, hostVars
  <1>4. run'[l].point = run[l].point /\ run'[l].st = st
    BY <1>1, <1>2
  <1>5. Quiet /\ Alone(l)
    BY <1>1, <1>2, <1>3 DEF Quiet, Alone, TypeInv, HostTypes
  <1>6. L[l].pc # "none"
    BY DEF OwnInv, Fresh, Conclude
  <1>7. RunSoft(l)
    BY <1>4 DEF RunSoft
  <1> QED
    BY <1>3, <1>4, <1>5, <1>6, <1>7, StaysIsSoft DEF Soft

LEMMA RecoveryMarksIsSoft ==
    ASSUME TypeInv, HostInv, RecoveryInv, ChildInv(1), RecoveryMarks
    PROVE  Soft(1)
  <1>1. 1 \in Launches
    BY HostAssumption
  <1>2. DOMAIN run = Launches /\ DOMAIN run[1] = {"point", "tier", "limited", "st"} /\ DOMAIN L = Launches
    BY <1>1 DEF TypeInv, SharedTypes, LaunchTypes, IsRun, NoRun, NoPrior
  <1>3. pane' = pane /\ agent' = agent /\ late' = late /\ L' = L /\ rec = "mark"
    BY DEF RecoveryMarks, hostVars
  <1>4. \/ run' = run
        \/ run' = [run EXCEPT ![1].st = "failed", ![1].limited = TRUE]
    BY DEF RecoveryMarks
  <1>5. Quiet /\ Alone(1) /\ run'[1].point = run[1].point
    BY <1>1, <1>2, <1>3, <1>4 DEF Quiet, Alone, TypeInv, HostTypes
  <1>6. L[1].pc # "none"
    BY <1>3 DEF RecoveryInv, ChildInv, Early
  <1>7. RunSoft(1)
    BY <1>3 DEF RunSoft
  <1> QED
    BY <1>1, <1>3, <1>5, <1>6, <1>7, StaysIsSoft DEF Soft

-----------------------------------------------------------------------------
(* The host after such a step, and what a launch at the side of a step keeps. *)
LEMMA QuietHost ==
    ASSUME HostTypes, HostInv, Quiet
    PROVE  /\ HostTypes' /\ HostInv' /\ Grows /\ OpenPanes' = OpenPanes /\ Live' = Live
           /\ \A m \in Launches : Spares(m)
  <1>1. DOMAIN agent' = DOMAIN agent
    BY HostShape DEF Quiet
  <1>2. OpenPanes' = OpenPanes /\ Live' = Live
    BY <1>1 DEF OpenPanes, Live, Quiet
  <1>3. HostTypes'
    BY HostShape DEF Quiet, HostTypes
  <1>4. HostInv'
    BY <1>2, HostShape DEF HostInv, Quiet
  <1>5. Grows
    BY HostShape DEF Grows, Quiet
  <1>6. \A m \in Launches : Spares(m)
    BY <1>1, HostShape DEF Spares, NoPaneOf, NoAgentOf, NoLateOf, Unchanged, Quiet
  <1> QED
    BY <1>2, <1>3, <1>4, <1>5, <1>6

Aside(m) ==
    /\ HostTypes' /\ HostInv' /\ Grows /\ Spares(m)
    /\ L'[m] = L[m] /\ run'[m] = run[m]

(* What a launch has been seen with lasts. *)
Stable(m) ==
    L[m].ident # NoAgent => L'[m].ident = L[m].ident /\ L'[m].cur = L[m].cur /\ L'[m].pane = L[m].pane

(* Nothing of a launch comes from the steps of others. *)
LEMMA AsideShape ==
    ASSUME TypeInv, HostTypes', Grows, NEW m \in Launches, Spares(m)
    PROVE  /\ DOMAIN pane \subseteq DOMAIN pane' /\ DOMAIN agent \subseteq DOMAIN agent'
           /\ \A p \in DOMAIN pane' : pane'[p].by = m => p \in DOMAIN pane /\ pane[p].by = m
           /\ \A a \in DOMAIN agent' : agent'[a].by = m => a \in DOMAIN agent /\ agent[a].by = m
           /\ \A a \in Live' : a \in DOMAIN agent => a \in Live
           /\ \A p \in OpenPanes' : p \in DOMAIN pane => p \in OpenPanes
           /\ \A e \in late' : e.by = m => e \in late
  <1>1. DOMAIN pane = 1..Len(pane) /\ Len(pane) \in Nat /\ DOMAIN agent = 1..Len(agent) /\ Len(agent) \in Nat
    BY HostShape DEF TypeInv
  <1>2. DOMAIN pane' = 1..Len(pane') /\ Len(pane') \in Nat /\ DOMAIN agent' = 1..Len(agent') /\ Len(agent') \in Nat
    BY DEF HostTypes
  <1>3. DOMAIN pane \subseteq DOMAIN pane' /\ DOMAIN agent \subseteq DOMAIN agent'
    BY <1>1, <1>2 DEF Grows
  <1>4. \A p \in DOMAIN pane' : p \in DOMAIN pane \/ p > Len(pane)
    BY <1>1, <1>2
  <1>5. \A a \in DOMAIN agent' : a \in DOMAIN agent \/ a > Len(agent)
    BY <1>1, <1>2
  <1>6. \A p \in DOMAIN pane' : pane'[p].by = m => p \in DOMAIN pane /\ pane[p].by = m
    BY <1>4 DEF Grows, Spares, NoPaneOf
  <1>7. \A a \in DOMAIN agent' : agent'[a].by = m => a \in DOMAIN agent /\ agent[a].by = m
    BY <1>5 DEF Grows, Spares, NoAgentOf
  <1>8. \A a \in Live' : a \in DOMAIN agent => a \in Live
    BY DEF Live, Grows
  <1>9. \A p \in OpenPanes' : p \in DOMAIN pane => p \in OpenPanes
    BY DEF OpenPanes, Grows
  <1> QED
    BY <1>3, <1>6, <1>7, <1>8, <1>9 DEF Spares, NoLateOf

-----------------------------------------------------------------------------
(* What each launch made. *)
LEMMA OwnAside ==
    ASSUME TypeInv, NEW m \in Launches, Aside(m), OwnInv(m)
    PROVE  OwnInv(m)'
  <1>1. DOMAIN pane \subseteq DOMAIN pane' /\ \A p \in DOMAIN pane : pane'[p].by = pane[p].by
    BY AsideShape DEF Aside, Grows
  <1>2. /\ \A p \in DOMAIN pane' : pane'[p].by = m => p \in DOMAIN pane /\ pane[p].by = m
        /\ \A a \in DOMAIN agent' : agent'[a].by = m => a \in DOMAIN agent /\ agent[a].by = m
        /\ \A e \in late' : e.by = m => e \in late
    BY AsideShape DEF Aside
  <1>3. \A a \in DOMAIN agent : agent'[a].pane = agent[a].pane
    BY DEF Aside, Grows
  <1>4. Untouched(m) => Untouched(m)'
    BY <1>2 DEF Untouched
  <1> QED
    BY <1>1, <1>2, <1>3, <1>4 DEF OwnInv, Aside

LEMMA OwnSoftStep ==
    ASSUME TypeInv, NEW l \in Launches, Quiet, OwnSoft(l), OwnInv(l)
    PROVE  OwnInv(l)'
  <1>1. DOMAIN pane' = DOMAIN pane /\ DOMAIN agent' = DOMAIN agent
    BY HostShape DEF Quiet, TypeInv
  <1>2. Untouched(l) => Untouched(l)'
    BY <1>1 DEF Untouched, Quiet
  <1> QED
    BY <1>1, <1>2 DEF OwnInv, OwnSoft, Quiet

-----------------------------------------------------------------------------
(* The child of each launch. *)
LEMMA ChildAside ==
    ASSUME TypeInv, NEW m \in Launches, Aside(m), ChildInv(m)
    PROVE  ChildInv(m)'
  <1>1. /\ \A a \in DOMAIN agent' : agent'[a].by = m => a \in DOMAIN agent /\ agent[a].by = m
        /\ \A a \in Live' : a \in DOMAIN agent => a \in Live
        /\ \A e \in late' : e.by = m => e \in late
    BY AsideShape DEF Aside
  <1>2. \A a \in Live' : agent'[a].by = m => a \in Live /\ agent[a].by = m
    BY <1>1 DEF Live
  <1>3. \A a \in DOMAIN agent : agent'[a].by = agent[a].by /\ agent'[a].point = agent[a].point
    BY DEF Aside, Grows
  <1>4. L[m].ident # NoAgent => L[m].ident \in DOMAIN agent
    BY HostShape DEF TypeInv, LaunchTypes, NoAgent
  <1>5. Live \subseteq DOMAIN agent
    BY DEF Live
  <1> QED
    BY <1>1, <1>2, <1>3, <1>4, <1>5 DEF ChildInv, Aside

LEMMA ChildSoftStep ==
    ASSUME TypeInv, HostInv, NEW l \in Launches, Quiet, OwnInv(l), OwnSoft(l), ChildSoft(l), ChildInv(l)
    PROVE  ChildInv(l)' /\ Stable(l)
  <1> DEFINE x == L[l]
             y == L'[l]
  <1>1. DOMAIN agent' = DOMAIN agent /\ Live' = Live /\ late' = late
    BY QuietHost, HostShape DEF Quiet, TypeInv
  <1>2. \A a \in DOMAIN agent : agent'[a].by = agent[a].by /\ agent'[a].point = agent[a].point
    BY DEF Quiet
  <1>3. Live \subseteq DOMAIN agent
    BY DEF Live
  <1>4. ASSUME y.ident # x.ident
        PROVE  /\ y.cur = x.cur /\ x.cur \in Points /\ run'[l].point = x.cur
               /\ y.ident \in Live /\ agent[y.ident].by = l /\ agent[y.ident].point = x.cur
               /\ \A e \in late : e.by = l => e.op # "start"
               /\ \A a \in Live : agent[a].by = l => a = y.ident
               /\ x.ident = NoAgent
    <2>1. x.pc \in {"judge", "confirm"} /\ y.ident = Occupant(x.pane) /\ y.ident # NoAgent /\ agent[y.ident].by = l
      BY <1>4 DEF ChildSoft
    <2>2. y.ident \in Live /\ \A a \in Live : agent[a].pane = x.pane => a = y.ident
      BY <2>1, OccupantIs DEF TypeInv
    <2>3. \A a \in Live : agent[a].by = l => agent[a].pane = x.pane
      BY <1>3 DEF OwnInv
    <2>4. /\ x.cur \in Points /\ run[l].point = x.cur
          /\ \A e \in late : e.by = l => e.op # "start"
          /\ \A a \in Live : agent[a].by = l => agent[a].point = x.cur
      BY <2>1 DEF ChildInv, Begun
    <2>5. y.cur = x.cur /\ run'[l].point = run[l].point
      BY <2>1 DEF ChildSoft
    <2>6. CASE x.pc = "judge"
      BY <2>1, <2>2, <2>3, <2>4, <2>5, <2>6 DEF ChildInv, Placed, Identified
    <2>7. CASE x.pc = "confirm"
      <3>1. x.ident # NoAgent /\ \A a \in Live : agent[a].by = l => a = x.ident
        BY <2>7 DEF ChildInv, Identified
      <3> QED
        BY <1>4, <2>1, <2>2, <3>1
    <2> QED
      BY <2>1, <2>6, <2>7
  <1>5. ASSUME y.ident = x.ident, x.ident # NoAgent
        PROVE  y.cur = x.cur /\ run'[l].point = run[l].point
    BY <1>5 DEF ChildSoft, ChildInv, Early, Placed, Identified
  <1>6. Stable(l)
    BY <1>4, <1>5 DEF Stable, OwnSoft
  <1>7. y.pc \in Begun =>
             /\ y.cur \in Points
             /\ \A e \in late' : e.by = l => e.op # "start"
             /\ \A a \in Live' : agent'[a].by = l => agent'[a].point = y.cur
    BY <1>1, <1>2, <1>3 DEF ChildInv, ChildSoft, Begun
  <1>8. y.pc \in Begun \ {"select"} => run'[l].point = y.cur
    BY DEF ChildInv, ChildSoft, Begun
  <1>9. y.pc = "start" => y.cur \in Points
    BY DEF ChildSoft
  <1>10. y.pc \in Identified => y.ident # NoAgent
    BY <1>4 DEF ChildInv, ChildSoft
  <1>11. y.pc \in Early \union (Placed \ Identified) => y.ident = NoAgent
    BY DEF ChildInv, ChildSoft, Early, Placed, Identified
  <1>12. y.ident # NoAgent =>
             /\ agent'[y.ident].by = l /\ agent'[y.ident].point = y.cur
             /\ y.cur \in Points /\ run'[l].point = y.cur
             /\ \A e \in late' : e.by = l => e.op # "start"
             /\ \A a \in Live' : agent'[a].by = l => a = y.ident
    <2>1. CASE y.ident # x.ident
      BY <1>1, <1>2, <1>3, <1>4, <2>1
    <2>2. CASE y.ident = x.ident
      <3>1. x.ident # NoAgent => x.ident \in DOMAIN agent
        BY HostShape DEF TypeInv, LaunchTypes, NoAgent
      <3> QED
        BY <1>1, <1>2, <1>3, <1>5, <2>2, <3>1 DEF ChildInv
    <2> QED
      BY <2>1, <2>2
  <1> QED
    BY <1>6, <1>7, <1>8, <1>9, <1>10, <1>11, <1>12 DEF ChildInv

-----------------------------------------------------------------------------
(* The prompt of each launch. *)
LEMMA PromptAside ==
    ASSUME TypeInv, NEW m \in Launches, Aside(m), PromptInv(m)
    PROVE  PromptInv(m)'
  <1>1. DOMAIN agent = 1..Len(agent) /\ Len(agent) \in Nat /\ DOMAIN agent' = 1..Len(agent') /\ Len(agent') \in Nat
    BY HostShape DEF TypeInv, Aside, HostTypes
  <1>2. \A a \in DOMAIN agent' : agent'[a].heard[m] = IF a \in DOMAIN agent THEN agent[a].heard[m] ELSE 0
    <2>1. \A a \in DOMAIN agent' : a \in DOMAIN agent \/ a > Len(agent)
      BY <1>1
    <2>2. \A a \in DOMAIN agent' : a > Len(agent) => a \notin DOMAIN agent
      BY <1>1
    <2> QED
      BY <2>1, <2>2 DEF Aside, Spares, Unchanged
  <1>3. \A e \in late' : e.by = m => e \in late
    BY DEF Aside, Spares, NoLateOf
  <1>4. L[m].ident # NoAgent => L[m].ident \in DOMAIN agent
    BY HostShape DEF TypeInv, LaunchTypes, NoAgent
  <1>5. Unheard(m) => Unheard(m)'
    BY <1>2, <1>3 DEF Unheard
  <1>6. L'[m] = L[m]
    BY DEF Aside
  <1>7. L[m].pc \in {"confirm", "strengthen", "launched"} =>
          /\ \A a \in DOMAIN agent' : agent'[a].heard[m] = IF a = L[m].ident THEN 1 ELSE 0
          /\ \A e \in late' : e.by = m => e.op # "prompt"
    <2>1. L[m].pc \in {"confirm", "strengthen", "launched"} => L[m].res \in Bound /\ L[m].ident # NoAgent
      BY DEF PromptInv, Supervised
    <2> QED
      BY <1>2, <1>3, <1>4, <2>1 DEF PromptInv
  <1> QED
    BY <1>5, <1>6, <1>7 DEF PromptInv

LEMMA PromptSoftStep ==
    ASSUME TypeInv, HostInv, NEW l \in Launches, Quiet, Stable(l), ChildInv(l), ChildInv(l)',
           ChildSoft(l), PromptSoft(l), PromptInv(l)
    PROVE  PromptInv(l)'
  <1> DEFINE x == L[l]
             y == L'[l]
  <1>1. DOMAIN agent' = DOMAIN agent /\ late' = late /\ \A a \in DOMAIN agent : agent'[a].heard = agent[a].heard
    BY HostShape DEF Quiet, TypeInv
  <1>2. Unheard(l) => Unheard(l)'
    BY <1>1 DEF Unheard
  <1>3. y.pc \in Early \union (Placed \ Supervised) => y.res \in {"none", "reserved"}
    BY DEF PromptInv, PromptSoft
  <1>4. y.pc \in Supervised => y.res \in Bound
    BY DEF PromptInv, PromptSoft, Bound
  <1>5. y.pc \in {"prompt", "confirm"} /\ Kind[y.cur] # "agy" => y.res \in {"bound", "settled"}
    <2>1. y.pc \in {"prompt", "confirm"} => y.cur = x.cur
      BY DEF ChildSoft
    <2> QED
      BY <2>1 DEF PromptInv, PromptSoft, Bound
  <1>6. y.pc = "launched" => y.res \in {"bound", "settled"}
    BY DEF PromptInv, PromptSoft, Bound
  <1>7. y.res \in Bound => y.ident # NoAgent
    BY DEF PromptInv, PromptSoft, Stable, ChildInv, Supervised, Identified
  <1>8. y.res \notin Bound \/ y.pc = "prompt" => Unheard(l)
    <2>1. y.res \notin Bound => x.res \notin Bound
      BY DEF PromptSoft, Bound
    <2>2. x.pc = "bind" => x.res \notin Bound
      BY DEF PromptInv, Placed, Supervised, Bound
    <2> QED
      BY <2>1, <2>2 DEF PromptInv, PromptSoft
  <1>9. y.pc \in {"confirm", "strengthen", "launched"} =>
          /\ x.pc \in {"confirm", "strengthen", "launched"} /\ y.ident = x.ident
    BY DEF PromptSoft, Stable, ChildInv, Identified
  <1> QED
    BY <1>1, <1>2, <1>3, <1>4, <1>5, <1>6, <1>7, <1>8, <1>9 DEF PromptInv

-----------------------------------------------------------------------------
(* What a failure reports. *)
LEMMA GoneAside ==
    ASSUME TypeInv, NEW m \in Launches, HostTypes', Grows, Spares(m), Gone(m)
    PROVE  Gone(m)'
  <1>1. /\ \A p \in DOMAIN pane' : pane'[p].by = m => p \in DOMAIN pane /\ pane[p].by = m
        /\ \A a \in DOMAIN agent' : agent'[a].by = m => a \in DOMAIN agent /\ agent[a].by = m
        /\ \A a \in Live' : a \in DOMAIN agent => a \in Live
        /\ \A p \in OpenPanes' : p \in DOMAIN pane => p \in OpenPanes
        /\ \A e \in late' : e.by = m => e \in late
    BY AsideShape
  <1>2. OpenPanes' \subseteq DOMAIN pane' /\ Live' \subseteq DOMAIN agent'
    BY DEF OpenPanes, Live
  <1> QED
    BY <1>1, <1>2 DEF Gone

LEMMA ReportAside ==
    ASSUME TypeInv, NEW m \in Launches, Aside(m), OwnInv(m), ReportInv(m)
    PROVE  ReportInv(m)'
  <1>1. \A p \in OpenPanes' : p \in DOMAIN pane => p \in OpenPanes
    BY AsideShape DEF Aside
  <1>2. Gone(m) => Gone(m)'
    BY GoneAside DEF Aside
  <1>3. L[m].pane # NoPane => L[m].pane \in DOMAIN pane
    BY DEF OwnInv
  <1> QED
    BY <1>1, <1>2, <1>3 DEF ReportInv, Aside

LEMMA ReportSoftStep ==
    ASSUME TypeInv, HostInv, NEW l \in Launches, Quiet, OwnInv(l), OwnSoft(l), ReportSoft(l), ReportInv(l)
    PROVE  ReportInv(l)'
  <1> DEFINE x == L[l]
             y == L'[l]
  <1>1. /\ OpenPanes' = OpenPanes /\ Live' = Live /\ HostTypes' /\ Grows /\ Spares(l)
    BY QuietHost DEF TypeInv
  <1>2. Gone(l) => Gone(l)'
    BY <1>1, GoneAside
  <1>3. y.cert # "none" => y.pc \in {"refused", "release", "failed"}
    BY DEF ReportInv, ReportSoft, Told
  <1>4. ASSUME y.cert = "absent" PROVE Gone(l)
    <2>1. CASE x.cert = "absent"
      BY <2>1 DEF ReportInv
    <2>2. CASE x.pc \in Early \/ ~x.dispatched
      BY <2>2 DEF OwnInv, Untouched, Gone, OpenPanes, Live
    <2>3. CASE x.pc = "reading" /\ x.look.snapshot = "absent" /\ ~x.look.made /\ x.look.cand # NoPane
      <3>1. x.pane # NoPane /\ x.pane \notin OpenPanes
        BY <2>3 DEF ReportInv
      <3>2. \A p \in OpenPanes : pane[p].by # l
        BY <3>1 DEF OwnInv, OpenPanes
      <3>3. \A a \in Live : agent[a].by # l
        BY <3>1 DEF OwnInv, HostInv, Live
      <3>4. \A e \in late : e.by # l
        BY <3>1 DEF OwnInv, HostInv
      <3> QED
        BY <3>2, <3>3, <3>4 DEF Gone
    <2> QED
      BY <1>4, <2>1, <2>2, <2>3 DEF ReportSoft
  <1>5. y.pc = "reading" /\ y.look.snapshot = "absent" /\ ~y.look.made =>
          /\ y.look.cand \in {NoPane, y.pane}
          /\ y.look.cand # NoPane => y.look.cand \notin OpenPanes
    BY DEF ReportInv, ReportSoft, OwnSoft
  <1> QED
    BY <1>1, <1>2, <1>3, <1>4, <1>5 DEF ReportInv

-----------------------------------------------------------------------------
(* The run that ended, and the route of its recovery. *)
LEMMA DeadStays ==
    ASSUME TypeInv, HostTypes', Grows, NEW m \in Launches, L[m].ident # NoAgent, L[m].ident \notin Live, Stable(m)
    PROVE  L'[m].ident # NoAgent /\ L'[m].ident \notin Live' /\ L'[m].cur = L[m].cur
  <1>1. L[m].ident \in DOMAIN agent
    BY HostShape DEF TypeInv, LaunchTypes, NoAgent
  <1>2. L'[m].ident \notin Live'
    BY <1>1 DEF Stable, Live, Grows
  <1> QED
    BY <1>2 DEF Stable

LEMMA RunAside ==
    ASSUME TypeInv, NEW m \in Launches, Aside(m), RunInv(m)
    PROVE  RunInv(m)'
  <1>1. Stable(m)
    BY DEF Aside, Stable
  <1> QED
    BY <1>1, DeadStays DEF RunInv, Aside

LEMMA RunSoftStep ==
    ASSUME TypeInv, HostInv, NEW l \in Launches, Quiet, OwnInv(l), PromptInv(l), ChildInv(l), Stable(l), RecoveryInv,
           RunSoft(l), RunInv(l)
    PROVE  RunInv(l)'
  <1>1. HostTypes' /\ Grows
    BY QuietHost DEF TypeInv
  <1>2. ASSUME run'[l].st \in {"failed", "cancelled"} PROVE L[l].ident # NoAgent /\ L[l].ident \notin Live
    <2>1. CASE run[l].st \in {"failed", "cancelled"}
      BY <2>1 DEF RunInv
    <2>2. CASE L[l].res = "bound" /\ Occupant(L[l].pane) # L[l].ident
      <3>1. L[l].ident # NoAgent /\ agent[L[l].ident].by = l
        BY <2>2 DEF PromptInv, Bound, ChildInv
      <3>2. L[l].ident \in DOMAIN agent
        BY <3>1, HostShape DEF TypeInv, LaunchTypes, NoAgent
      <3>3. agent[L[l].ident].pane = L[l].pane
        BY <3>1, <3>2 DEF OwnInv
      <3> QED
        BY <2>2, <3>1, <3>3, OccupantIs DEF TypeInv
    <2>3. CASE rec = "mark" /\ l = 1
      <3>1. L[l].ident # NoAgent /\ L[l].pane \notin OpenPanes
        BY <2>3 DEF RecoveryInv
      <3>2. agent[L[l].ident].by = l /\ L[l].ident \in DOMAIN agent
        BY <3>1, HostShape DEF ChildInv, TypeInv, LaunchTypes, NoAgent
      <3> QED
        BY <3>1, <3>2 DEF OwnInv, HostInv
    <2> QED
      BY <1>2, <2>1, <2>2, <2>3 DEF RunSoft
  <1> QED
    BY <1>1, <1>2, DeadStays DEF RunInv

LEMMA RouteAside ==
    ASSUME TypeInv, NEW m \in Launches, Aside(m), \A k \in Launches : Stable(k), RouteInv(m)
    PROVE  RouteInv(m)'
  <1>1. /\ \A a \in DOMAIN agent' : agent'[a].by = m => a \in DOMAIN agent /\ agent[a].by = m
        /\ \A e \in late' : e.by = m => e \in late
    BY AsideShape DEF Aside
  <1>2. \A a \in DOMAIN agent : agent'[a].point = agent[a].point
    BY DEF Aside, Grows
  <1>3. L'[m] = L[m] /\ HostTypes' /\ Grows
    BY DEF Aside
  <1>4. L[m].prior.st \in {"failed", "cancelled"} =>
             /\ L[m].of \in Launches /\ L'[L[m].of].ident # NoAgent /\ L'[L[m].of].ident \notin Live'
             /\ L[m].prior.point = L'[L[m].of].cur
    <2>1. L[m].prior.st \in {"failed", "cancelled"} =>
             /\ L[m].of \in Launches /\ L[L[m].of].ident # NoAgent /\ L[L[m].of].ident \notin Live
             /\ L[m].prior.point = L[L[m].of].cur
      BY DEF RouteInv
    <2> QED
      BY <1>3, <2>1, DeadStays
  <1> QED
    BY <1>1, <1>2, <1>3, <1>4 DEF RouteInv, Elsewhere

LEMMA RouteSoftStep ==
    ASSUME TypeInv, HostInv, NEW l \in Launches, Quiet, OwnInv(l), ChildrenInv, RunsInv,
           \A k \in Launches : Stable(k), RouteSoft(l), RouteInv(l)
    PROVE  RouteInv(l)'
  <1> DEFINE x == L[l]
             y == L'[l]
  <1>1. HostTypes' /\ Grows
    BY QuietHost DEF TypeInv
  <1>2. DOMAIN agent' = DOMAIN agent /\ late' = late
    BY HostShape DEF Quiet, TypeInv
  <1>3. \A a \in DOMAIN agent : agent'[a].by = agent[a].by /\ agent'[a].point = agent[a].point
    BY DEF Quiet
  <1>4. CASE /\ y.of = x.of /\ y.prior = x.prior
             /\ x.prior.point # NoPoint =>
                  /\ \A i \in DOMAIN y.r.chain : Among(y.r.chain[i], x.r.chain) \/ Elsewhere(l, y.r.chain[i])
                  /\ \A i \in DOMAIN y.todo : Among(y.todo[i], x.todo) \/ Among(y.todo[i], x.r.chain)
                  /\ y.cur # x.cur => Among(y.cur, x.todo)
    <2>1. x.prior.st \in {"failed", "cancelled"} =>
             /\ x.of \in Launches /\ L'[x.of].ident # NoAgent /\ L'[x.of].ident \notin Live'
             /\ x.prior.point = L'[x.of].cur
      <3>1. x.prior.st \in {"failed", "cancelled"} =>
               /\ x.of \in Launches /\ L[x.of].ident # NoAgent /\ L[x.of].ident \notin Live
               /\ x.prior.point = L[x.of].cur
        BY DEF RouteInv
      <3> QED
        BY <1>1, <3>1, DeadStays
    <2>2. ASSUME x.prior.point # NoPoint
          PROVE  /\ \A i \in DOMAIN y.r.chain : Elsewhere(l, y.r.chain[i])
                 /\ \A i \in DOMAIN y.todo : Elsewhere(l, y.todo[i])
                 /\ y.cur # NoPoint => Elsewhere(l, y.cur)
                 /\ \A a \in DOMAIN agent' : agent'[a].by = l => Elsewhere(l, agent'[a].point)
                 /\ \A e \in late' : e.by = l /\ e.op = "start" => Elsewhere(l, e.point)
      <3>1. /\ \A p : Among(p, x.r.chain) => Elsewhere(l, p)
            /\ \A p : Among(p, x.todo) => Elsewhere(l, p)
        BY <2>2 DEF RouteInv, Among
      <3>2. \A a \in DOMAIN agent' : agent'[a].by = l => Elsewhere(l, agent'[a].point)
        BY <1>2, <1>3, <2>2 DEF RouteInv
      <3>3. \A e \in late' : e.by = l /\ e.op = "start" => Elsewhere(l, e.point)
        BY <1>2, <2>2 DEF RouteInv
      <3>4. y.cur # NoPoint => Elsewhere(l, y.cur)
        BY <1>4, <2>2, <3>1 DEF RouteInv
      <3> QED
        BY <1>4, <2>2, <3>1, <3>2, <3>3, <3>4
    <2>3. \A p : Elsewhere(l, p)' <=> Elsewhere(l, p)
      BY <1>4 DEF Elsewhere
    <2> QED
      BY <1>4, <2>1, <2>2, <2>3 DEF RouteInv
  <1>5. CASE /\ x.pc = "none" /\ y.r = x.r /\ y.todo = x.todo /\ y.cur = x.cur
             /\ y.prior.st \in {"failed", "cancelled"} =>
                  y.of \in Launches \ {l} /\ run[y.of].st \in {"failed", "cancelled"} /\ y.prior = run[y.of]
    <2>1. x = Fresh /\ Untouched(l)
      BY <1>5 DEF OwnInv, Fresh
    <2>2. y.r.chain = <<>> /\ y.todo = <<>> /\ y.cur = NoPoint
      BY <1>5, <2>1 DEF Fresh, NoRoute
    <2>3. /\ \A a \in DOMAIN agent' : agent'[a].by # l
          /\ \A e \in late' : e.by # l
      BY <1>2, <1>3, <2>1 DEF Untouched
    <2>4. ASSUME y.prior.st \in {"failed", "cancelled"}
          PROVE  /\ y.of \in Launches /\ L'[y.of].ident # NoAgent /\ L'[y.of].ident \notin Live'
                 /\ y.prior.point = L'[y.of].cur
      <3>1. y.of \in Launches /\ L[y.of].ident # NoAgent /\ L[y.of].ident \notin Live
        BY <1>5, <2>4 DEF RunsInv, RunInv
      <3>2. y.prior.point = L[y.of].cur
        BY <1>5, <2>4, <3>1 DEF ChildrenInv, ChildInv
      <3> QED
        BY <1>1, <3>1, <3>2, DeadStays
    <2> QED
      BY <2>2, <2>3, <2>4 DEF RouteInv
  <1> QED
    BY <1>4, <1>5 DEF RouteSoft

-----------------------------------------------------------------------------
(* The recovery. *)
Recovering == {"close", "readback", "mark", "relaunch"}

LEMMA RecoveryKeeps ==
    ASSUME TypeInv, HostTypes', Grows, OwnInv(1), ChildInv(1), Stable(1),
           rec' # "none" => L[1].ident # NoAgent,
           rec' \in Recovering => L'[2].pc = "none" /\ "auto" \in cast',
           rec' = "mark" => L[1].pane \notin OpenPanes
    PROVE  RecoveryInv'
  <1>1. 1 \in Launches
    BY HostAssumption
  <1>2. L[1].ident # NoAgent => L[1].pane \in DOMAIN pane
    <2>1. L[1].ident # NoAgent => L[1].ident \in DOMAIN agent /\ agent[L[1].ident].by = 1
      BY <1>1, HostShape DEF ChildInv, TypeInv, LaunchTypes, NoAgent
    <2> QED
      BY <2>1 DEF OwnInv
  <1>3. rec' = "mark" => L[1].pane \notin OpenPanes'
    BY <1>2 DEF OpenPanes, Grows
  <1> QED
    BY <1>3 DEF RecoveryInv, Stable, Recovering

-----------------------------------------------------------------------------
(* The whole invariant, and the steps that keep it. *)
LaunchesInv == OwnsInv /\ ChildrenInv /\ PromptsInv /\ ReportsInv /\ RunsInv /\ RoutesInv
IInv == TypeInv /\ HostInv /\ LaunchesInv /\ RecoveryInv

OwnParts(l) == OwnInv(l) /\ ChildInv(l) /\ PromptInv(l) /\ ReportInv(l) /\ RunInv(l) /\ RouteInv(l)

LEMMA PartsOf ==
    ASSUME LaunchesInv, NEW l \in Launches
    PROVE  OwnParts(l)
  BY DEF LaunchesInv, OwnsInv, ChildrenInv, PromptsInv, ReportsInv, RunsInv, RoutesInv, OwnParts

LEMMA AsideParts ==
    ASSUME IInv, NEW m \in Launches, Aside(m), \A k \in Launches : Stable(k)
    PROVE  OwnParts(m)'
  <1>1. OwnParts(m) /\ TypeInv
    BY PartsOf DEF IInv
  <1> QED
    BY <1>1, OwnAside, ChildAside, PromptAside, ReportAside, RunAside, RouteAside DEF OwnParts

(* A step of one launch, or of none. *)
LEMMA OthersKeep ==
    ASSUME IInv, NEW l, \A k \in Launches : Stable(k),
           \A m \in Launches \ {l} : Aside(m), l \in Launches => OwnParts(l)'
    PROVE  LaunchesInv'
  <1>1. \A m \in Launches : OwnParts(m)'
    BY AsideParts
  <1> QED
    BY <1>1 DEF LaunchesInv, OwnsInv, ChildrenInv, PromptsInv, ReportsInv, RunsInv, RoutesInv, OwnParts

LEMMA AsideIsStable ==
    ASSUME NEW l, \A m \in Launches \ {l} : L'[m] = L[m], l \in Launches => Stable(l)
    PROVE  \A k \in Launches : Stable(k)
  BY DEF Stable

LEMMA SoftKeeps ==
    ASSUME IInv, NEW l \in Launches, Soft(l)
    PROVE  LaunchesInv' /\ HostInv' /\ HostTypes' /\ Grows /\ \A k \in Launches : Stable(k)
  <1>1. OwnParts(l) /\ TypeInv /\ HostInv /\ ChildrenInv /\ RunsInv /\ RecoveryInv
    BY PartsOf DEF IInv, LaunchesInv
  <1>2. /\ Quiet /\ Alone(l) /\ OwnSoft(l) /\ ChildSoft(l) /\ PromptSoft(l) /\ ReportSoft(l) /\ RouteSoft(l)
        /\ RunSoft(l)
    BY DEF Soft
  <1>3. HostTypes' /\ HostInv' /\ Grows /\ \A m \in Launches : Spares(m)
    BY <1>1, <1>2, QuietHost DEF TypeInv
  <1>4. OwnInv(l)'
    BY <1>1, <1>2, OwnSoftStep DEF OwnParts
  <1>5. ChildInv(l)' /\ Stable(l)
    BY <1>1, <1>2, ChildSoftStep DEF OwnParts
  <1>6. \A k \in Launches : Stable(k)
    BY <1>2, <1>5, AsideIsStable DEF Alone
  <1>7. PromptInv(l)'
    BY <1>1, <1>2, <1>5, PromptSoftStep DEF OwnParts
  <1>8. ReportInv(l)'
    BY <1>1, <1>2, ReportSoftStep DEF OwnParts
  <1>9. RunInv(l)'
    BY <1>1, <1>2, <1>5, RunSoftStep DEF OwnParts
  <1>10. RouteInv(l)'
    BY <1>1, <1>2, <1>6, RouteSoftStep DEF OwnParts
  <1>11. \A m \in Launches \ {l} : Aside(m)
    BY <1>2, <1>3 DEF Aside, Alone
  <1>12. OwnParts(l)'
    BY <1>4, <1>5, <1>7, <1>8, <1>9, <1>10 DEF OwnParts
  <1> QED
    BY <1>3, <1>6, <1>11, <1>12, OthersKeep

(* A step of the host or of people around it. *)
LEMMA SparingKeeps ==
    ASSUME IInv, HostTypes', HostInv', Grows, \A m \in Launches : Spares(m), UNCHANGED <<L, run>>
    PROVE  LaunchesInv' /\ \A k \in Launches : Stable(k)
  <1>1. \A m \in Launches : Aside(m)
    BY DEF Aside
  <1>2. \A k \in Launches : Stable(k)
    BY DEF Stable
  <1>3. \A m \in Launches : OwnParts(m)'
    BY <1>1, <1>2, AsideParts
  <1> QED
    BY <1>2, <1>3 DEF LaunchesInv, OwnsInv, ChildrenInv, PromptsInv, ReportsInv, RunsInv, RoutesInv, OwnParts

-----------------------------------------------------------------------------
(* What happens on the host without a launch. *)
LEMMA ClosingKeeps ==
    ASSUME IInv, NEW p \in OpenPanes, ClosePane(p), UNCHANGED <<L, run>>
    PROVE  HostTypes' /\ HostInv' /\ Grows /\ LaunchesInv' /\ \A k \in Launches : Stable(k)
  <1>1. /\ HostTypes' /\ HostInv' /\ Grows
        /\ Len(pane') = Len(pane) /\ Len(agent') = Len(agent) /\ late' \subseteq late
        /\ \A a \in DOMAIN agent : agent'[a].heard = agent[a].heard
    BY ClosesPane DEF IInv, TypeInv
  <1>2. DOMAIN pane' = DOMAIN pane /\ DOMAIN agent' = DOMAIN agent
    BY <1>1, HostShape DEF IInv, TypeInv, HostTypes
  <1>3. \A m \in Launches : Spares(m)
    BY <1>1, <1>2, HostShape DEF Spares, NoPaneOf, NoAgentOf, NoLateOf, Unchanged, IInv, TypeInv
  <1> QED
    BY <1>1, <1>3, SparingKeeps

LEMMA ActingKeeps ==
    ASSUME IInv, NEW a \in DOMAIN agent, NEW r \in AgentRec, agent' = [agent EXCEPT ![a] = r],
           r.by = agent[a].by, r.pane = agent[a].pane, r.point = agent[a].point, r.heard = agent[a].heard,
           agent[a].st = "dead" => r.st = "dead", UNCHANGED <<pane, late, L, run>>
    PROVE  HostTypes' /\ HostInv' /\ Grows /\ LaunchesInv' /\ \A k \in Launches : Stable(k)
  <1>1. HostTypes /\ HostInv
    BY DEF IInv, TypeInv
  <1>2. agent' \in Seq(AgentRec) /\ Len(agent') = Len(agent)
    BY <1>1 DEF HostTypes
  <1>3. agent'[a] = r /\ \A b \in DOMAIN agent \ {a} : agent'[b] = agent[b]
    BY <1>1 DEF HostTypes
  <1>4. Acts(a)
    BY <1>2, <1>3 DEF Acts
  <1>5. HostTypes' /\ HostInv' /\ Grows
    BY <1>1, <1>4, AgentActs
  <1>6. DOMAIN agent' = DOMAIN agent
    BY <1>2, HostShape, <1>1
  <1>7. \A m \in Launches : Spares(m)
    BY <1>1, <1>3, <1>6, HostShape DEF Spares, NoPaneOf, NoAgentOf, NoLateOf, Unchanged
  <1> QED
    BY <1>5, <1>7, SparingKeeps

LEMMA AgentsKeep ==
    ASSUME IInv, NEW a \in Live, UNCHANGED <<L, run>>,
           AgentBoots(a) \/ AgentWorks(a) \/ AgentRests(a) \/ AgentLimited(a) \/ AgentExits(a)
    PROVE  HostTypes' /\ HostInv' /\ Grows /\ LaunchesInv' /\ \A k \in Launches : Stable(k)
  <1> DEFINE x == agent[a]
  <1>1. a \in DOMAIN agent /\ x \in AgentRec /\ x.st # "dead" /\ MaxTurns \in Nat
    BY HostShape DEF IInv, TypeInv, Live
  <1>2. ASSUME NEW r \in AgentRec, agent' = [agent EXCEPT ![a] = r], r.by = x.by, r.pane = x.pane,
               r.point = x.point, r.heard = x.heard, UNCHANGED <<pane, late>>
        PROVE  HostTypes' /\ HostInv' /\ Grows /\ LaunchesInv' /\ \A k \in Launches : Stable(k)
    BY <1>1, <1>2, ActingKeeps
  <1>3. CASE AgentBoots(a)
    <2> DEFINE r == [x EXCEPT !.st = "idle", !.seq = @ + 1, !.native = Kind[x.point] # "agy"]
    <2>1. r \in AgentRec /\ r.by = x.by /\ r.pane = x.pane /\ r.point = x.point /\ r.heard = x.heard
      <3>1. x \in AgentRec
        BY <1>1
      <3> HIDE DEF x
      <3>2. DOMAIN r = DOMAIN x /\ x.seq + 1 \in Nat
        BY <3>1 DEF AgentRec
      <3>3. r \in AgentRec
        BY <3>1, <3>2 DEF AgentRec
      <3> QED
        BY <3>1, <3>3 DEF AgentRec
    <2>2. agent' = [agent EXCEPT ![a] = r] /\ UNCHANGED <<pane, late>>
      BY <1>3 DEF AgentBoots
    <2> HIDE DEF r
    <2> QED
      BY <1>2, <2>1, <2>2
  <1>4. CASE AgentWorks(a)
    <2> DEFINE r == [x EXCEPT !.st = "working", !.seq = @ + 1, !.turns = @ + 1, !.native = TRUE, !.text = "none"]
    <2>1. r \in AgentRec /\ r.by = x.by /\ r.pane = x.pane /\ r.point = x.point /\ r.heard = x.heard
      BY <1>1, <1>4 DEF AgentRec, AgentWorks
    <2>2. agent' = [agent EXCEPT ![a] = r] /\ UNCHANGED <<pane, late>>
      BY <1>4 DEF AgentWorks
    <2> HIDE DEF r
    <2> QED
      BY <1>2, <2>1, <2>2
  <1>5. CASE AgentRests(a)
    <2> DEFINE r == [x EXCEPT !.st = "idle", !.seq = @ + 1]
    <2>1. r \in AgentRec /\ r.by = x.by /\ r.pane = x.pane /\ r.point = x.point /\ r.heard = x.heard
      <3>1. x \in AgentRec
        BY <1>1
      <3> HIDE DEF x
      <3>2. DOMAIN r = DOMAIN x /\ x.seq + 1 \in Nat
        BY <3>1 DEF AgentRec
      <3>3. r \in AgentRec
        BY <3>1, <3>2 DEF AgentRec
      <3> QED
        BY <3>1, <3>3 DEF AgentRec
    <2>2. agent' = [agent EXCEPT ![a] = r] /\ UNCHANGED <<pane, late>>
      BY <1>5 DEF AgentRests
    <2> HIDE DEF r
    <2> QED
      BY <1>2, <2>1, <2>2
  <1>6. CASE AgentLimited(a)
    <2>1. PICK limit \in {"zero", "progress"} :
            agent' = [agent EXCEPT ![a].st = "idle", ![a].seq = @ + 1, ![a].limit = limit]
      BY <1>6 DEF AgentLimited
    <2> DEFINE r == [x EXCEPT !.st = "idle", !.seq = @ + 1, !.limit = limit]
    <2>2. r \in AgentRec /\ r.by = x.by /\ r.pane = x.pane /\ r.point = x.point /\ r.heard = x.heard
      <3>1. x \in AgentRec
        BY <1>1
      <3> HIDE DEF x
      <3>2. DOMAIN r = DOMAIN x /\ x.seq + 1 \in Nat
        BY <3>1 DEF AgentRec
      <3>3. r \in AgentRec
        BY <3>1, <3>2 DEF AgentRec
      <3> QED
        BY <3>1, <3>3 DEF AgentRec
    <2>3. agent' = [agent EXCEPT ![a] = r] /\ UNCHANGED <<pane, late>>
      BY <1>6, <2>1 DEF AgentLimited
    <2> HIDE DEF r
    <2> QED
      BY <1>2, <2>2, <2>3
  <1>7. CASE AgentExits(a)
    <2> DEFINE r == [x EXCEPT !.st = "dead"]
    <2>1. r \in AgentRec /\ r.by = x.by /\ r.pane = x.pane /\ r.point = x.point /\ r.heard = x.heard
      <3>1. x \in AgentRec
        BY <1>1
      <3> HIDE DEF x
      <3>2. DOMAIN r = DOMAIN x /\ x.seq + 1 \in Nat
        BY <3>1 DEF AgentRec
      <3>3. r \in AgentRec
        BY <3>1, <3>2 DEF AgentRec
      <3> QED
        BY <3>1, <3>3 DEF AgentRec
    <2>2. agent' = [agent EXCEPT ![a] = r] /\ UNCHANGED <<pane, late>>
      BY <1>7 DEF AgentExits
    <2> HIDE DEF r
    <2> QED
      BY <1>2, <2>1, <2>2
  <1> QED
    BY <1>3, <1>4, <1>5, <1>6, <1>7

LEMMA OpeningSpares ==
    ASSUME HostTypes, HostInv, NEW tab \in Nat, NEW by \in Callers, Len(pane) < MaxPanes,
           pane' = OpenedPane(tab, by), agent' = agent, late' \subseteq late
    PROVE  \A m \in Launches \ {by} : Spares(m)
  <1>1. Len(pane') = Len(pane) + 1 /\ pane'[Len(pane) + 1].by = by /\ HostTypes'
    BY OpensPane
  <1>2. Len(pane) \in Nat /\ DOMAIN pane' = 1..(Len(pane) + 1) /\ DOMAIN agent = 1..Len(agent) /\ Len(agent) \in Nat
    BY <1>1, HostShape DEF HostTypes
  <1>3. \A p \in DOMAIN pane' : p > Len(pane) => p = Len(pane) + 1
    BY <1>2
  <1> QED
    BY <1>1, <1>2, <1>3 DEF Spares, NoPaneOf, NoAgentOf, NoLateOf, Unchanged

LEMMA StartingSpares ==
    ASSUME HostTypes, HostInv, NEW p \in OpenPanes, NEW by \in Callers, NEW point \in Points,
           NEW st \in {"boot", "idle"}, Occupant(p) = NoAgent, Len(agent) < MaxAgents,
           agent' = Started(p, by, point, st), pane' = pane, late' \subseteq late
    PROVE  \A m \in Launches \ {by} : Spares(m)
  <1>1. /\ Len(agent') = Len(agent) + 1 /\ agent'[Len(agent) + 1].by = by /\ HostTypes'
        /\ \A k \in Launches : agent'[Len(agent) + 1].heard[k] = 0
        /\ \A a \in DOMAIN agent : agent'[a] = agent[a]
    BY StartsAgent
  <1>2. Len(agent) \in Nat /\ DOMAIN agent' = 1..(Len(agent) + 1) /\ DOMAIN pane = 1..Len(pane) /\ Len(pane) \in Nat
    BY <1>1, HostShape DEF HostTypes
  <1>3. \A a \in DOMAIN agent' : a > Len(agent) => a = Len(agent) + 1
    BY <1>2
  <1> QED
    BY <1>1, <1>2, <1>3 DEF Spares, NoPaneOf, NoAgentOf, NoLateOf, Unchanged

LEMMA StrangersKeep ==
    ASSUME IInv, UNCHANGED <<L, run>>,
           \/ StrangerOpensPane
           \/ \E p \in OpenPanes, point \in Points : StrangerStartsAgent(p, point)
    PROVE  HostTypes' /\ HostInv' /\ Grows /\ LaunchesInv' /\ \A k \in Launches : Stable(k)
  <1>1. HostTypes /\ HostInv /\ Stranger \in Callers /\ Stranger \notin Launches /\ NoTab \in Nat
    BY HostAssumption DEF IInv, TypeInv, Stranger, Callers, NoTab
  <1>2. CASE StrangerOpensPane
    <2>1. Len(pane) < MaxPanes /\ pane' = OpenedPane(NoTab, Stranger) /\ agent' = agent /\ late' \subseteq late
      BY <1>2 DEF StrangerOpensPane
    <2>2. HostTypes' /\ HostInv' /\ Grows
      BY <1>1, <2>1, OpensPane
    <2>3. \A m \in Launches \ {Stranger} : Spares(m)
      BY <1>1, <2>1, OpeningSpares
    <2> QED
      BY <1>1, <2>2, <2>3, SparingKeeps
  <1>3. CASE \E p \in OpenPanes, point \in Points : StrangerStartsAgent(p, point)
    <2>1. PICK p \in OpenPanes, point \in Points : StrangerStartsAgent(p, point)
      BY <1>3
    <2>2. /\ Occupant(p) = NoAgent /\ Len(agent) < MaxAgents /\ pane' = pane /\ late' \subseteq late
          /\ agent' = Started(p, Stranger, point, "idle")
      BY <2>1 DEF StrangerStartsAgent
    <2>3. HostTypes' /\ HostInv' /\ Grows
      BY <1>1, <2>2, StartsAgent
    <2>4. \A m \in Launches \ {Stranger} : Spares(m)
      BY <1>1, <2>2, StartingSpares
    <2> QED
      BY <1>1, <2>3, <2>4, SparingKeeps
  <1> QED
    BY <1>2, <1>3

-----------------------------------------------------------------------------
(* What the server does late, for the launch that asked. *)
LEMMA ServedOpen ==
    ASSUME IInv, NEW e \in late, e.op = "open", Len(pane) < MaxPanes,
           pane' = OpenedPane(e.tab, e.by), agent' = agent, late' = late \ {e}, UNCHANGED <<L, run>>
    PROVE  HostTypes' /\ HostInv' /\ Grows /\ LaunchesInv' /\ \A k \in Launches : Stable(k)
  <1> DEFINE l == e.by
  <1>1. HostTypes /\ HostInv /\ l \in Launches /\ l \in Callers /\ e.tab \in Nat /\ TypeInv
    BY HostShape DEF IInv, TypeInv, LateRec, Callers
  <1>2. /\ HostTypes' /\ HostInv' /\ Grows /\ Len(pane') = Len(pane) + 1
        /\ OpenPanes' = OpenPanes \union {Len(pane) + 1} /\ Live' = Live
    BY <1>1, OpensPane
  <1>3. \A m \in Launches \ {l} : Spares(m)
    BY <1>1, OpeningSpares
  <1>4. \A k \in Launches : Stable(k)
    BY DEF Stable
  <1>5. OwnParts(l)
    BY <1>1, PartsOf DEF IInv
  <1> HIDE DEF l
  <1>6. L[l].pane = NoPane /\ L[l].dispatched
    BY <1>5 DEF OwnParts, OwnInv, Untouched, l
  <1>7. OwnInv(l)'
    BY <1>5, <1>6 DEF OwnParts, OwnInv
  <1>8. ChildInv(l)'
    BY <1>2, <1>5 DEF OwnParts, ChildInv
  <1>9. PromptInv(l)'
    BY <1>5 DEF OwnParts, PromptInv, Unheard
  <1>10. ReportInv(l)'
    BY <1>5, <1>6 DEF OwnParts, ReportInv, Gone, l
  <1>11. RunInv(l)'
    BY <1>2, <1>5 DEF OwnParts, RunInv
  <1>12. RouteInv(l)'
    BY <1>2, <1>5 DEF OwnParts, RouteInv, Elsewhere
  <1>13. OwnParts(l)'
    BY <1>7, <1>8, <1>9, <1>10, <1>11, <1>12 DEF OwnParts
  <1>14. \A m \in Launches \ {l} : Aside(m)
    BY <1>2, <1>3 DEF Aside, l
  <1> QED
    BY <1>2, <1>4, <1>13, <1>14, OthersKeep

LEMMA ServedStart ==
    ASSUME IInv, NEW e \in late, e.op = "start", Occupant(e.pane) = NoAgent, Len(agent) < MaxAgents,
           agent' = Started(e.pane, e.by, e.point, "boot"), pane' = pane, late' = late \ {e},
           UNCHANGED <<L, run>>
    PROVE  HostTypes' /\ HostInv' /\ Grows /\ LaunchesInv' /\ \A k \in Launches : Stable(k)
  <1> DEFINE l == e.by
             n == Len(agent) + 1
  <1>1. /\ HostTypes /\ HostInv /\ l \in Launches /\ l \in Callers /\ e.pane \in OpenPanes
        /\ e.point \in Points /\ TypeInv
    BY HostShape DEF IInv, TypeInv, HostTypes, HostInv, LateRec, Callers
  <1>2. /\ HostTypes' /\ HostInv' /\ Grows /\ Len(agent') = n
        /\ agent'[n].by = l /\ agent'[n].point = e.point /\ agent'[n].pane = e.pane
        /\ \A k \in Launches : agent'[n].heard[k] = 0
        /\ \A a \in DOMAIN agent : agent'[a] = agent[a]
        /\ OpenPanes' = OpenPanes /\ Live' = Live \union {n}
    BY <1>1, StartsAgent
  <1>3. \A m \in Launches \ {l} : Spares(m)
    BY <1>1, StartingSpares
  <1>4. \A k \in Launches : Stable(k)
    BY DEF Stable
  <1>5. OwnParts(l)
    BY <1>1, PartsOf DEF IInv
  <1>6. DOMAIN agent' = DOMAIN agent \union {n} /\ Live \subseteq DOMAIN agent /\ n \notin DOMAIN agent
    <2>1. DOMAIN agent = 1..Len(agent) /\ Len(agent) \in Nat
      BY <1>1, HostShape
    <2>2. DOMAIN agent' = 1..Len(agent')
      BY <1>2 DEF HostTypes
    <2>3. Len(agent') = Len(agent) + 1
      BY <1>2
    <2>4. Live \subseteq DOMAIN agent
      BY DEF Live
    <2>5. ASSUME NEW k \in Nat PROVE 1..(k + 1) = (1..k) \union {k + 1} /\ k + 1 \notin 1..k
      OBVIOUS
    <2> QED
      BY <2>1, <2>2, <2>3, <2>4, <2>5
  <1>7. L[l].ident = NoAgent \/ L[l].ident \in DOMAIN agent
    BY <1>1, HostShape DEF TypeInv, LaunchTypes, NoAgent
  <1> HIDE DEF l, n
  <1>8. e.by = l
    BY DEF l
  <1>9. L[l].pane # NoPane /\ e.pane = L[l].pane
    BY <1>5, <1>8 DEF OwnParts, OwnInv
  <1>10. L[l].pc \notin Begun /\ L[l].ident = NoAgent
    BY <1>5, <1>8 DEF OwnParts, ChildInv
  <1>11. L[l].res \notin Bound /\ L[l].pc \notin {"prompt", "confirm", "strengthen", "launched"}
    BY <1>5, <1>10 DEF OwnParts, PromptInv, Begun
  <1>12. OwnInv(l)'
    BY <1>2, <1>5, <1>6, <1>9, <1>8 DEF OwnParts, OwnInv, Untouched
  <1>13. ChildInv(l)'
    BY <1>2, <1>5, <1>10 DEF OwnParts, ChildInv, Begun
  <1>14. PromptInv(l)'
    <2>1. Unheard(l)
      BY <1>5, <1>11 DEF OwnParts, PromptInv
    <2>2. Unheard(l)'
      BY <1>1, <1>2, <1>6, <2>1 DEF Unheard
    <2> QED
      BY <1>5, <1>11, <2>2 DEF OwnParts, PromptInv
  <1>15. ReportInv(l)'
    <2>1. ~Gone(l)
      BY <1>8 DEF Gone
    <2> QED
      BY <1>2, <1>5, <2>1 DEF OwnParts, ReportInv
  <1>16. RunInv(l)'
    BY <1>5, <1>10 DEF OwnParts, RunInv
  <1>17. RouteInv(l)'
    <2>1. ASSUME L[l].prior.point # NoPoint
          PROVE  \A a \in DOMAIN agent' : agent'[a].by = l => Elsewhere(l, agent'[a].point)
      <3>1. Elsewhere(l, e.point)
        BY <1>5, <1>8, <2>1 DEF OwnParts, RouteInv
      <3> QED
        BY <1>2, <1>5, <1>6, <2>1, <3>1 DEF OwnParts, RouteInv
    <2>2. L[l].prior.st \in {"failed", "cancelled"} =>
             L[l].of \in Launches /\ L[L[l].of].ident # NoAgent /\ L[L[l].of].ident \notin Live
      BY <1>5 DEF OwnParts, RouteInv
    <2>3. L[l].prior.st \in {"failed", "cancelled"} => L[L[l].of].ident \notin Live'
      BY <1>1, <1>2, <1>4, <2>2, DeadStays
    <2> QED
      BY <1>5, <2>1, <2>3 DEF OwnParts, RouteInv, Elsewhere
  <1>18. OwnParts(l)'
    BY <1>12, <1>13, <1>14, <1>15, <1>16, <1>17 DEF OwnParts
  <1>19. \A m \in Launches \ {l} : Aside(m)
    BY <1>2, <1>3 DEF Aside, l
  <1> QED
    BY <1>2, <1>4, <1>18, <1>19, OthersKeep

(* An agent hears a prompt. *)
LEMMA Hears ==
    ASSUME HostTypes, HostInv, NEW a \in Live, NEW l \in Launches, NEW text \in {"none", "unsent", "sent"},
           agent' = Prompted(a, l, text), pane' = pane, late' \subseteq late
    PROVE  /\ HostTypes' /\ HostInv' /\ Grows
           /\ DOMAIN agent' = DOMAIN agent /\ OpenPanes' = OpenPanes /\ Live' = Live
           /\ \A b \in DOMAIN agent :
                /\ agent'[b].by = agent[b].by /\ agent'[b].pane = agent[b].pane
                /\ agent'[b].point = agent[b].point
                /\ agent'[b].heard[l] = agent[b].heard[l] + (IF b = a THEN 1 ELSE 0)
           /\ \A m \in Launches \ {l} : Spares(m)
  <1> DEFINE x == agent[a]
             h == [x.heard EXCEPT ![l] = @ + 1]
             r == [x EXCEPT !.heard = h, !.text = text]
  <1>1. a \in DOMAIN agent /\ x \in AgentRec
    BY HostShape DEF Live
  <1>2. agent' = [agent EXCEPT ![a] = r]
    BY <1>1 DEF Prompted
  <1>3. x.heard \in [Launches -> Nat]
    BY <1>1 DEF AgentRec
  <1>4. h \in [Launches -> Nat] /\ h[l] = x.heard[l] + 1 /\ \A m \in Launches \ {l} : h[m] = x.heard[m]
    BY <1>3
  <1> HIDE DEF h
  <1>5. /\ r \in AgentRec /\ r.by = x.by /\ r.pane = x.pane /\ r.point = x.point /\ r.heard = h
        /\ r.st = x.st
    <2>1. x \in AgentRec
      BY <1>1
    <2> HIDE DEF x
    <2> QED
      BY <1>4, <2>1 DEF AgentRec
  <1> HIDE DEF r
  <1>6. agent' \in Seq(AgentRec) /\ Len(agent') = Len(agent)
    BY <1>1, <1>2, <1>5 DEF HostTypes
  <1>7. agent'[a] = r /\ \A b \in DOMAIN agent \ {a} : agent'[b] = agent[b]
    BY <1>1, <1>2 DEF HostTypes
  <1>8. Acts(a)
    BY <1>5, <1>6, <1>7 DEF Acts
  <1>9. HostTypes' /\ HostInv' /\ Grows /\ OpenPanes' = OpenPanes
    BY <1>1, <1>8, AgentActs
  <1>10. DOMAIN agent' = DOMAIN agent
    BY <1>6, HostShape
  <1>11. Live' = Live
    BY <1>5, <1>7, <1>10 DEF Live
  <1>12. \A b \in DOMAIN agent : agent[b].heard \in [Launches -> Nat]
    BY HostShape DEF AgentRec
  <1>13. \A b \in DOMAIN agent :
                /\ agent'[b].by = agent[b].by /\ agent'[b].pane = agent[b].pane
                /\ agent'[b].point = agent[b].point
                /\ agent'[b].heard[l] = agent[b].heard[l] + (IF b = a THEN 1 ELSE 0)
    BY <1>4, <1>5, <1>7, <1>12
  <1>14. \A m \in Launches \ {l} : Spares(m)
    BY <1>4, <1>5, <1>7, <1>10, HostShape DEF Spares, NoPaneOf, NoAgentOf, NoLateOf, Unchanged
  <1> QED
    BY <1>9, <1>10, <1>11, <1>13, <1>14

LEMMA ServedPrompt ==
    ASSUME IInv, NEW e \in late, e.op = "prompt", NEW a \in Live, NEW text \in {"none", "unsent", "sent"},
           agent' = Prompted(a, e.by, text), pane' = pane, late' = late \ {e}, UNCHANGED <<L, run>>
    PROVE  HostTypes' /\ HostInv' /\ Grows /\ LaunchesInv' /\ \A k \in Launches : Stable(k)
  <1> DEFINE l == e.by
  <1>1. HostTypes /\ HostInv /\ l \in Launches /\ TypeInv
    BY HostShape DEF IInv, TypeInv, LateRec
  <1>2. /\ HostTypes' /\ HostInv' /\ Grows
        /\ DOMAIN agent' = DOMAIN agent /\ OpenPanes' = OpenPanes /\ Live' = Live
        /\ \A b \in DOMAIN agent :
             /\ agent'[b].by = agent[b].by /\ agent'[b].pane = agent[b].pane
             /\ agent'[b].point = agent[b].point
        /\ \A m \in Launches \ {l} : Spares(m)
    BY <1>1, Hears
  <1>3. \A k \in Launches : Stable(k)
    BY DEF Stable
  <1>4. OwnParts(l)
    BY <1>1, PartsOf DEF IInv
  <1>5. L[l].ident = NoAgent \/ L[l].ident \in DOMAIN agent
    BY <1>1, HostShape DEF TypeInv, LaunchTypes, NoAgent
  <1>6. Live \subseteq DOMAIN agent
    BY DEF Live
  <1> HIDE DEF l
  <1>7. e.by = l
    BY DEF l
  <1>8. L[l].res \in Bound /\ L[l].pc \notin {"prompt", "confirm", "strengthen", "launched"}
    BY <1>4, <1>7 DEF OwnParts, PromptInv, Unheard
  <1>9. OwnInv(l)'
    BY <1>2, <1>4, <1>7 DEF OwnParts, OwnInv, Untouched
  <1>10. ChildInv(l)'
    BY <1>2, <1>4, <1>5, <1>6 DEF OwnParts, ChildInv
  <1>11. PromptInv(l)'
    BY <1>4, <1>8 DEF OwnParts, PromptInv
  <1>12. ReportInv(l)'
    <2>1. ~Gone(l)
      BY <1>7 DEF Gone
    <2> QED
      BY <1>2, <1>4, <2>1 DEF OwnParts, ReportInv
  <1>13. RunInv(l)'
    BY <1>2, <1>4 DEF OwnParts, RunInv
  <1>14. RouteInv(l)'
    BY <1>2, <1>4 DEF OwnParts, RouteInv, Elsewhere
  <1>15. OwnParts(l)'
    BY <1>9, <1>10, <1>11, <1>12, <1>13, <1>14 DEF OwnParts
  <1>16. \A m \in Launches \ {l} : Aside(m)
    BY <1>2 DEF Aside, l
  <1> QED
    BY <1>2, <1>3, <1>15, <1>16, OthersKeep

LEMMA ServesKeep ==
    ASSUME IInv, ServeLate, UNCHANGED <<L, run>>
    PROVE  HostTypes' /\ HostInv' /\ Grows /\ LaunchesInv' /\ \A k \in Launches : Stable(k)
  <1>0. HostTypes /\ HostInv /\ late \subseteq LateRec
    BY DEF IInv, TypeInv, HostTypes
  <1>1. CASE \E e \in late : e.op = "close" /\ ClosePane(e.pane)
    <2>1. PICK e \in late : e.op = "close" /\ ClosePane(e.pane)
      BY <1>1
    <2>2. e.pane \in OpenPanes
      BY <1>0, <2>1 DEF HostInv
    <2> QED
      BY <2>1, <2>2, ClosingKeeps
  <1>2. CASE \E e \in late : e.op # "close" /\ Serve(e)
    <2>1. PICK e \in late : e.op # "close" /\ Serve(e)
      BY <1>2
    <2>2. late' = late \ {e}
      BY <2>1 DEF Serve
    <2>3. CASE e.op = "open" /\ Len(pane) < MaxPanes
      <3>1. pane' = OpenedPane(e.tab, e.by) /\ UNCHANGED agent
        BY <2>1, <2>3 DEF Serve
      <3> QED
        BY <2>2, <2>3, <3>1, ServedOpen
    <2>4. CASE e.op = "start" /\ Occupant(e.pane) = NoAgent /\ Len(agent) < MaxAgents
      <3>1. agent' = Started(e.pane, e.by, e.point, "boot") /\ UNCHANGED pane
        BY <2>1, <2>4 DEF Serve
      <3> QED
        BY <2>2, <2>4, <3>1, ServedStart
    <2>5. CASE e.op = "prompt" /\ TakesPrompt(Occupant(e.pane))
      <3>1. /\ \E text \in TextsOf(Occupant(e.pane)) : agent' = Prompted(Occupant(e.pane), e.by, text)
            /\ UNCHANGED pane
        BY <2>1, <2>5 DEF Serve
      <3>2. PICK text \in TextsOf(Occupant(e.pane)) : agent' = Prompted(Occupant(e.pane), e.by, text)
        BY <3>1
      <3>3. text \in {"none", "unsent", "sent"}
        BY <3>2 DEF TextsOf
      <3>4. Occupant(e.pane) \in Live
        BY <1>0, <2>5, OccupantIs DEF TakesPrompt
      <3> QED
        BY <2>2, <2>5, <3>1, <3>2, <3>3, <3>4, ServedPrompt
    <2>6. CASE ~ \/ e.op = "open" /\ Len(pane) < MaxPanes
                 \/ e.op = "start" /\ Occupant(e.pane) = NoAgent /\ Len(agent) < MaxAgents
                 \/ e.op = "prompt" /\ TakesPrompt(Occupant(e.pane))
      <3>1. UNCHANGED <<pane, agent>>
        BY <2>1, <2>6 DEF Serve
      <3>2. e \in LateRec /\ e.op # "open" => e.pane \in OpenPanes
        BY <1>0 DEF HostInv
      <3>3. HostTypes' /\ HostInv' /\ Grows
        BY <1>0, <2>2, <3>1 DEF HostTypes, HostInv, Grows, OpenPanes, Live
      <3>4. \A m \in Launches : Spares(m)
        BY <1>0, <2>2, <3>1, HostShape DEF Spares, NoPaneOf, NoAgentOf, NoLateOf, Unchanged
      <3> QED
        BY <3>3, <3>4, SparingKeeps
    <2> QED
      BY <2>3, <2>4, <2>5, <2>6
  <1> QED
    BY <1>1, <1>2 DEF ServeLate

-----------------------------------------------------------------------------
(* The recovery asks for the close of the child's pane. *)
LEMMA CloseHeld ==
    ASSUME IInv, rec = "close", L[1].pane \in OpenPanes, UNCHANGED <<pane, agent, L, run>>,
           late' \subseteq late \union {CloseRequest(1)}
    PROVE  HostTypes' /\ HostInv' /\ Grows /\ LaunchesInv' /\ \A k \in Launches : Stable(k)
  <1> DEFINE l == 1
  <1>1. l \in Launches /\ TypeInv /\ HostTypes /\ HostInv /\ RecoveryInv /\ MaxPanes \in Nat
    BY HostAssumption DEF IInv, TypeInv
  <1>2. OwnParts(l)
    BY <1>1, PartsOf DEF IInv
  <1>3. CloseRequest(1) \in LateRec /\ CloseRequest(1).op = "close" /\ CloseRequest(1).by = 1
        /\ CloseRequest(1).pane = L[1].pane
    BY <1>1 DEF CloseRequest, LateRec, NoTab, TypeInv, LaunchTypes
  <1>4. HostTypes' /\ HostInv' /\ Grows /\ OpenPanes' = OpenPanes /\ Live' = Live
    BY <1>1, <1>3, HoldsRequest
  <1>5. \A m \in Launches \ {l} : Spares(m)
    BY <1>1, <1>3, HostShape DEF Spares, NoPaneOf, NoAgentOf, NoLateOf, Unchanged
  <1>6. \A k \in Launches : Stable(k)
    BY DEF Stable
  <1> HIDE DEF l
  <1>7. l = 1
    BY DEF l
  <1>8. L[l].pane # NoPane /\ L[l].pane \in DOMAIN pane /\ pane[L[l].pane].by = l
    <2>1. L[l].pane # NoPane
      BY <1>1, <1>7, HostShape
    <2> QED
      BY <1>2, <2>1 DEF OwnParts, OwnInv
  <1>9. \A e \in late' : e.by = l => e \in late \/ (e.op = "close" /\ e.pane = L[l].pane)
    BY <1>3, <1>7
  <1>10. L[l].dispatched
    BY <1>2, <1>8 DEF OwnParts, OwnInv
  <1>11. OwnInv(l)'
    BY <1>2, <1>8, <1>9, <1>10 DEF OwnParts, OwnInv
  <1>12. ChildInv(l)'
    BY <1>2, <1>4, <1>9 DEF OwnParts, ChildInv
  <1>13. PromptInv(l)'
    BY <1>2, <1>9 DEF OwnParts, PromptInv, Unheard
  <1>14. ReportInv(l)'
    <2>1. ~Gone(l)
      BY <1>7, <1>8 DEF Gone
    <2> QED
      BY <1>2, <1>4, <2>1 DEF OwnParts, ReportInv
  <1>15. RunInv(l)'
    BY <1>2, <1>4 DEF OwnParts, RunInv
  <1>16. RouteInv(l)'
    BY <1>2, <1>4, <1>9 DEF OwnParts, RouteInv, Elsewhere
  <1>17. OwnParts(l)'
    BY <1>11, <1>12, <1>13, <1>14, <1>15, <1>16 DEF OwnParts
  <1>18. \A m \in Launches \ {l} : Aside(m)
    BY <1>4, <1>5 DEF Aside, l
  <1> QED
    BY <1>4, <1>6, <1>17, <1>18, OthersKeep

-----------------------------------------------------------------------------
(* A launch opens its pane. *)
LEMMA TabIsNumber ==
    ASSUME TypeInv, NEW l \in Launches
    PROVE  SelectWorkloadTab(l) \in Nat
  <1> DEFINE seen == L[l].seen
             f == [p \in seen |-> pane[p].tab]
             tabs == {pane[p].tab : p \in seen}
  <1>1. seen \subseteq 1..Len(pane) /\ Len(pane) \in Nat /\ \A p \in seen : pane[p].tab \in Nat
    BY HostShape DEF TypeInv, LaunchTypes, PaneRec
  <1>2. IsFiniteSet(seen)
    <2>1. IsFiniteSet(1..Len(pane))
      BY <1>1, FS_Interval
    <2> QED
      BY <1>1, <2>1, FS_Subset
  <1>3. f \in Surjection(seen, tabs)
    BY DEF Surjection
  <1>4. IsFiniteSet(tabs)
    <2> HIDE DEF f, seen, tabs
    <2> QED
      BY <1>2, <1>3, FS_Surjection
  <1>5. tabs \in SUBSET Nat
    BY <1>1
  <1>6. IsFiniteSet(tabs \union {0}) /\ tabs \union {0} \in SUBSET Nat /\ tabs \union {0} # {}
    <2> HIDE DEF tabs
    <2> QED
      BY <1>4, <1>5, FS_AddElement
  <1>7. Max(tabs \union {0}) \in Nat
    <2> HIDE DEF tabs
    <2>1. Max(tabs \union {0}) \in tabs \union {0}
      BY <1>6, LastNumber
    <2> QED
      BY <1>6, <2>1
  <1>8. ReusableTabs(l) \in SUBSET Nat
    BY <1>5 DEF ReusableTabs
  <1>9. ReusableTabs(l) # {} => Min(ReusableTabs(l)) \in Nat
    <2>1. ReusableTabs(l) # {} => Min(ReusableTabs(l)) \in ReusableTabs(l)
      BY <1>8, FirstNumber
    <2> QED
      BY <1>8, <2>1
  <1> QED
    BY <1>7, <1>9 DEF SelectWorkloadTab

LEMMA PlaceDoes ==
    ASSUME TypeInv, NEW l \in Launches, Place(l)
    PROVE  /\ Alone(l) /\ run' = run /\ agent' = agent
           /\ L[l].pc = "place" /\ L'[l].pc \in {"failing", "shell"}
           /\ L'[l].of = L[l].of /\ L'[l].prior = L[l].prior /\ L'[l].r = L[l].r
           /\ L'[l].todo = L[l].todo /\ L'[l].cur = L[l].cur /\ L'[l].ident = L[l].ident
           /\ L'[l].look = L[l].look /\ L'[l].res = L[l].res /\ L'[l].cert = L[l].cert
           /\ L'[l].pc = "shell" => L'[l].pane = Len(pane) + 1
           /\ \/ /\ pane' = pane /\ late' = late
                 /\ L'[l].pc = "failing" /\ L'[l].pane = L[l].pane
                 /\ L'[l].dispatched = L[l].dispatched \/ L'[l].dispatched = TRUE
              \/ /\ Len(pane) < MaxPanes /\ pane' = OpenedPane(SelectWorkloadTab(l), l) /\ late' = late
                 /\ L'[l].dispatched = TRUE /\ L'[l].pane \in {L[l].pane, Len(pane) + 1}
              \/ /\ pane' = pane /\ late' \subseteq late \union {OpenRequest(l)}
                 /\ L'[l].dispatched = TRUE /\ L'[l].pane = L[l].pane /\ L'[l].pc = "failing"
  <1>1. DOMAIN L = Launches /\ DOMAIN L[l] = Fields /\ DOMAIN run = Launches
    BY DEF TypeInv, SharedTypes, LaunchTypes, Fields
  <1>2. /\ run' = run /\ agent' = agent /\ L[l].pc = "place"
    BY DEF Place, At, hostVars
  <1>3. \/ Fails(l) /\ pane' = pane /\ late' = late
        \/ Put(l, With([dispatched |-> TRUE], [pc |-> "failing"])) /\ pane' = pane /\ late' = late
        \/ /\ Len(pane) < MaxPanes /\ pane' = OpenedPane(SelectWorkloadTab(l), l) /\ late' = late
           /\ \/ Put(l, With(PlacedRefs(l), [pc |-> "shell", dispatched |-> TRUE]))
              \/ Put(l, With([dispatched |-> TRUE], [pc |-> "failing"]))
              \/ Put(l, With(With(TabRef(l), [dispatched |-> TRUE]), [pc |-> "failing"]))
        \/ /\ Put(l, With([dispatched |-> TRUE], [pc |-> "failing"]))
           /\ pane' = pane /\ late' \subseteq late \union {OpenRequest(l)}
    BY DEF Place, Failing, hostVars
  <1>4. CASE Fails(l) /\ pane' = pane /\ late' = late
    BY <1>1, <1>2, <1>4, FieldNames DEF Fails, Put, With, Alone
  <1>5. CASE Put(l, With([dispatched |-> TRUE], [pc |-> "failing"])) /\ pane' = pane /\ late' = late
    BY <1>1, <1>2, <1>5, FieldNames DEF Put, With, Alone
  <1>6. CASE /\ Len(pane) < MaxPanes /\ pane' = OpenedPane(SelectWorkloadTab(l), l) /\ late' = late
             /\ Put(l, With(PlacedRefs(l), [pc |-> "shell", dispatched |-> TRUE]))
    BY <1>1, <1>2, <1>6, FieldNames DEF Put, With, Alone, PlacedRefs
  <1>7. CASE /\ Len(pane) < MaxPanes /\ pane' = OpenedPane(SelectWorkloadTab(l), l) /\ late' = late
             /\ Put(l, With([dispatched |-> TRUE], [pc |-> "failing"]))
    BY <1>1, <1>2, <1>7, FieldNames DEF Put, With, Alone
  <1>8. CASE /\ Len(pane) < MaxPanes /\ pane' = OpenedPane(SelectWorkloadTab(l), l) /\ late' = late
             /\ Put(l, With(With(TabRef(l), [dispatched |-> TRUE]), [pc |-> "failing"]))
    BY <1>1, <1>2, <1>8, FieldNames DEF Put, With, Alone, TabRef
  <1>9. CASE /\ Put(l, With([dispatched |-> TRUE], [pc |-> "failing"]))
             /\ pane' = pane /\ late' \subseteq late \union {OpenRequest(l)}
    BY <1>1, <1>2, <1>9, FieldNames DEF Put, With, Alone
  <1> QED
    BY <1>3, <1>4, <1>5, <1>6, <1>7, <1>8, <1>9


LEMMA PlaceKeeps ==
    ASSUME IInv, NEW l \in Launches, Place(l)
    PROVE  HostTypes' /\ HostInv' /\ Grows /\ LaunchesInv' /\ \A k \in Launches : Stable(k)
  <1> DEFINE n == Len(pane) + 1
  <1>1. /\ HostTypes /\ HostInv /\ TypeInv /\ l \in Callers /\ NoTab \in Nat /\ Len(pane) \in Nat
        /\ MaxPanes \in Nat
    BY HostShape DEF IInv, TypeInv, Callers, NoTab
  <1>2. OwnParts(l)
    BY PartsOf DEF IInv
  <1>3. /\ Alone(l) /\ run' = run /\ agent' = agent
        /\ L[l].pc = "place" /\ L'[l].pc \in {"failing", "shell"}
        /\ L'[l].of = L[l].of /\ L'[l].prior = L[l].prior /\ L'[l].r = L[l].r
        /\ L'[l].todo = L[l].todo /\ L'[l].cur = L[l].cur /\ L'[l].ident = L[l].ident
        /\ L'[l].look = L[l].look /\ L'[l].res = L[l].res /\ L'[l].cert = L[l].cert
        /\ L'[l].pc = "shell" => L'[l].pane = n
    BY <1>1, PlaceDoes
  <1>4. \/ /\ pane' = pane /\ late' = late
           /\ L'[l].pc = "failing" /\ L'[l].pane = L[l].pane
           /\ L'[l].dispatched = L[l].dispatched \/ L'[l].dispatched = TRUE
        \/ /\ Len(pane) < MaxPanes /\ pane' = OpenedPane(SelectWorkloadTab(l), l) /\ late' = late
           /\ L'[l].dispatched = TRUE /\ L'[l].pane \in {L[l].pane, n}
        \/ /\ pane' = pane /\ late' \subseteq late \union {OpenRequest(l)}
           /\ L'[l].dispatched = TRUE /\ L'[l].pane = L[l].pane /\ L'[l].pc = "failing"
    BY <1>1, PlaceDoes
  <1>5. /\ OpenRequest(l) \in LateRec /\ OpenRequest(l).op = "open" /\ OpenRequest(l).by = l
    BY <1>1, TabIsNumber DEF OpenRequest, LateRec, NoPane
  <1>6. /\ L[l].pc \in Early /\ ~L[l].dispatched /\ L[l].pane = NoPane /\ Untouched(l)
        /\ L[l].ident = NoAgent /\ L[l].cert = "none" /\ L[l].res \notin Bound /\ Unheard(l)
    BY <1>2, <1>3 DEF OwnParts, OwnInv, ChildInv, PromptInv, ReportInv, Early, Bound
  <1>7. /\ HostTypes' /\ HostInv' /\ Grows /\ \A m \in Launches \ {l} : Spares(m)
        /\ \A p \in DOMAIN pane' : pane'[p].by = l => p = n
        /\ L'[l].pane # NoPane => L'[l].pane = n /\ n \in DOMAIN pane' /\ pane'[n].by = l
        /\ \A e \in late' : e.by = l => e.op = "open" /\ L'[l].pane = NoPane
        /\ ~L'[l].dispatched => L'[l].pane = NoPane /\ pane' = pane /\ late' = late
        /\ Live' = Live
    <2>1. CASE /\ Len(pane) < MaxPanes /\ pane' = OpenedPane(SelectWorkloadTab(l), l) /\ late' = late
               /\ L'[l].dispatched = TRUE /\ L'[l].pane \in {L[l].pane, n}
      <3>1. /\ HostTypes' /\ HostInv' /\ Grows /\ Len(pane') = n /\ pane'[n].by = l /\ Live' = Live
        BY <1>1, <1>3, <2>1, TabIsNumber, OpensPane
      <3>2. \A m \in Launches \ {l} : Spares(m)
        BY <1>1, <1>3, <2>1, TabIsNumber, OpeningSpares
      <3>3. DOMAIN pane' = 1..Len(pane') /\ DOMAIN pane = 1..Len(pane)
        BY <1>1, <3>1, HostShape DEF HostTypes
      <3>4. DOMAIN pane' = DOMAIN pane \union {n} /\ n \in DOMAIN pane'
        BY <1>1, <3>1, <3>3
      <3>5. \A p \in DOMAIN pane : pane'[p].by # l
        BY <1>6, <3>1 DEF Untouched, Grows
      <3>6. \A e \in late' : e.by # l
        BY <1>6, <2>1 DEF Untouched
      <3> QED
        BY <1>6, <2>1, <3>1, <3>2, <3>4, <3>5, <3>6
    <2>2. CASE /\ pane' = pane /\ late' \subseteq late \union {OpenRequest(l)} /\ L'[l].pane = L[l].pane
               /\ late' = late \/ L'[l].dispatched = TRUE
      <3>1. HostTypes' /\ HostInv' /\ Grows /\ Live' = Live
        BY <1>1, <1>3, <1>5, <2>2, HoldsRequest
      <3>2. \A m \in Launches \ {l} : Spares(m)
        BY <1>1, <1>3, <1>5, <2>2, HostShape DEF Spares, NoPaneOf, NoAgentOf, NoLateOf, Unchanged
      <3>3. \A e \in late' : e.by = l => e.op = "open"
        BY <1>5, <1>6, <2>2 DEF Untouched
      <3> QED
        BY <1>6, <2>2, <3>1, <3>2, <3>3 DEF Untouched
    <2> QED
      BY <1>4, <2>1, <2>2
  <1>8. \A k \in Launches : Stable(k)
    BY <1>3, <1>6 DEF Stable, Alone
  <1> HIDE DEF n
  <1>9. L'[l].pc = "shell" => L'[l].pane # NoPane
    BY <1>1, <1>3 DEF n, NoPane
  <1>10. OwnInv(l)'
    BY <1>3, <1>6, <1>7, <1>9 DEF OwnInv, Untouched, Early, Placed
  <1>11. ChildInv(l)'
    BY <1>3, <1>6 DEF ChildInv, Begun, Identified, Early, Placed
  <1>12. PromptInv(l)'
    <2>1. Unheard(l)'
      BY <1>3, <1>6, <1>7 DEF Unheard
    <2> QED
      BY <1>2, <1>3, <1>6, <2>1 DEF OwnParts, PromptInv, Supervised, Early, Placed
  <1>13. ReportInv(l)'
    BY <1>3, <1>6 DEF ReportInv
  <1>14. RunInv(l)'
    BY <1>2, <1>3, <1>7 DEF OwnParts, RunInv
  <1>15. RouteInv(l)'
    <2>1. L[l].prior.st \in {"failed", "cancelled"} =>
             /\ L[l].of \in Launches /\ L[L[l].of].ident # NoAgent /\ L[L[l].of].ident \notin Live
             /\ L[l].prior.point = L[L[l].of].cur
      BY <1>2 DEF OwnParts, RouteInv
    <2>2. L[l].prior.st \in {"failed", "cancelled"} =>
             /\ L'[L[l].of].ident # NoAgent /\ L'[L[l].of].ident \notin Live'
             /\ L[l].prior.point = L'[L[l].of].cur
      BY <1>1, <1>7, <1>8, <2>1, DeadStays
    <2>3. /\ \A a \in DOMAIN agent' : agent'[a].by # l
          /\ \A e \in late' : e.by = l => e.op # "start"
      BY <1>3, <1>6, <1>7 DEF Untouched
    <2> QED
      BY <1>2, <1>3, <2>1, <2>2, <2>3 DEF OwnParts, RouteInv, Elsewhere
  <1>16. OwnParts(l)'
    BY <1>10, <1>11, <1>12, <1>13, <1>14, <1>15 DEF OwnParts
  <1>17. \A m \in Launches \ {l} : Aside(m)
    BY <1>3, <1>7 DEF Aside, Alone
  <1> QED
    BY <1>7, <1>8, <1>16, <1>17, OthersKeep


-----------------------------------------------------------------------------
(* An agent is asked for: it starts, may start later, or does not. *)
LEMMA StartDoes ==
    ASSUME TypeInv, NEW l \in Launches, Start(l)
    PROVE  /\ Alone(l) /\ run' = run /\ pane' = pane
           /\ L[l].pc = "start" /\ L'[l].pc \in {"select", "start_failed", "failing"}
           /\ L'[l].dispatched = TRUE /\ L'[l].started \in BOOLEAN
           /\ L'[l].startRec \in {L[l].startRec, NoAgent} \/ (L'[l].startRec = Len(agent) + 1 /\ L'[l].pc = "select")
           /\ Changes(l, {"pc", "dispatched", "started", "startRec"})
           /\ cool' = cool \/ \E code \in {"ABORTED", "CLI_PROTOCOL_ERROR", "agent_pane_busy", "agent_start_failed",
                                            "rate_limit", "CLI_TIMEOUT", "TARGET_IDENTITY_UNAVAILABLE"} :
                                 cool' = Recorded(L[l].cur, code)
           /\ \/ agent' = agent /\ late' \subseteq late /\ L'[l].pc # "select"
              \/ /\ L[l].pane \in OpenPanes /\ agent' = agent /\ late' \subseteq late \union {StartRequest(l)}
                 /\ L'[l].pc # "select"
              \/ /\ L[l].pane \in OpenPanes /\ Occupant(L[l].pane) = NoAgent /\ Len(agent) < MaxAgents
                 /\ agent' = Spawned(l) /\ late' = Held(l)
  <1>1. DOMAIN L = Launches /\ DOMAIN L[l] = Fields /\ DOMAIN run = Launches
    BY DEF TypeInv, SharedTypes, LaunchTypes, Fields
  <1> DEFINE Left(pc, answered) == With([dispatched |-> TRUE, started |-> answered], [pc |-> pc])
             Codes1 == {"ABORTED", "CLI_PROTOCOL_ERROR", "agent_pane_busy", "agent_start_failed",
                        "rate_limit", "CLI_TIMEOUT", "TARGET_IDENTITY_UNAVAILABLE"}
             Fell == /\ \E pc \in {"start_failed", "failing"}, answered \in BOOLEAN : Put(l, Left(pc, answered))
                     /\ cool' = cool \/ \E code \in Codes1 : cool' = Recorded(L[l].cur, code)
             Here == L[l].pane \in OpenPanes /\ Occupant(L[l].pane) = NoAgent /\ Len(agent) < MaxAgents
             Record(a) == With([pc |-> "select", dispatched |-> TRUE, started |-> TRUE], [startRec |-> a])
  <1>2. run' = run /\ L[l].pc = "start"
    BY DEF Start, At
  <1>3. ASSUME NEW code \in Codes1, NEW answered \in BOOLEAN, StartFails(l, code, answered)
        PROVE  Fell
    BY <1>3 DEF StartFails, Failing, With
  <1>4. \/ Fell /\ UNCHANGED hostVars
        \/ Fell /\ L[l].pane \in OpenPanes /\ late' = Held(l) /\ UNCHANGED <<pane, agent>>
        \/ Here /\ UNCHANGED pane /\ (StartAnswered(l) \/ StartRefused(l) \/ StartTimesOut(l) \/ StartUnproven(l))
    <2>1. "ABORTED" \in Codes1 /\ "CLI_PROTOCOL_ERROR" \in Codes1 /\ "agent_pane_busy" \in Codes1 /\ FALSE \in BOOLEAN
      OBVIOUS
    <2> HIDE DEF Codes1, Fell
    <2> QED
      BY <1>3, <2>1 DEF Start
  <1>5. Held(l) \subseteq late
    BY DEF Held
  <1>6. CASE Fell /\ UNCHANGED hostVars
    <2> QED
      BY <1>1, <1>2, <1>6, FieldNames DEF Put, With, Alone, Changes, hostVars
  <1>7. CASE Fell /\ L[l].pane \in OpenPanes /\ late' = Held(l) /\ UNCHANGED <<pane, agent>>
    BY <1>1, <1>2, <1>5, <1>7, FieldNames DEF Put, With, Alone, Changes
  <1>8. CASE Here /\ UNCHANGED pane /\ StartAnswered(l)
    <2>1. /\ agent' = Spawned(l) /\ late' = Held(l) /\ cool' = cool
          /\ Put(l, Record(Len(agent) + 1)) \/ Put(l, Record(NoAgent))
      BY <1>8 DEF StartAnswered
    <2>2. /\ Alone(l) /\ Changes(l, {"pc", "dispatched", "started", "startRec"})
          /\ L'[l].pc = "select" /\ L'[l].dispatched = TRUE /\ L'[l].started = TRUE
          /\ L'[l].startRec = Len(agent) + 1 \/ L'[l].startRec = NoAgent
      BY <1>1, <1>2, <2>1, FieldNames DEF Put, With, Alone, Changes
    <2> QED
      BY <1>2, <1>8, <2>1, <2>2
  <1>9. ASSUME Fell
        PROVE  /\ Alone(l) /\ Changes(l, {"pc", "dispatched", "started", "startRec"})
               /\ L'[l].pc \in {"start_failed", "failing"} /\ L'[l].dispatched = TRUE /\ L'[l].started \in BOOLEAN
               /\ L'[l].startRec = L[l].startRec
               /\ cool' = cool \/ \E code \in Codes1 : cool' = Recorded(L[l].cur, code)
    BY <1>1, <1>2, <1>9, FieldNames DEF Put, With, Alone, Changes
  <1>10. CASE Here /\ UNCHANGED pane /\ (StartRefused(l) \/ StartTimesOut(l) \/ StartUnproven(l))
    <2>1. /\ Fell
          /\ \/ agent' = agent /\ late' \subseteq Held(l) \union {StartRequest(l)}
             \/ agent' = Spawned(l) /\ late' = Held(l)
      <3>1. /\ {"agent_start_failed", "rate_limit", "CLI_TIMEOUT", "CLI_PROTOCOL_ERROR",
               "TARGET_IDENTITY_UNAVAILABLE"} \subseteq Codes1
            /\ {TRUE, FALSE} \subseteq BOOLEAN
        OBVIOUS
      <3> HIDE DEF Codes1, Fell
      <3>2. CASE StartRefused(l)
        BY <1>3, <3>1, <3>2 DEF StartRefused
      <3>3. CASE StartTimesOut(l)
        BY <1>3, <3>1, <3>3 DEF StartTimesOut
      <3>4. CASE StartUnproven(l)
        BY <1>3, <3>1, <3>4 DEF StartUnproven
      <3> QED
        BY <1>10, <3>2, <3>3, <3>4
    <2> HIDE DEF Fell
    <2> QED
      BY <1>2, <1>5, <1>9, <1>10, <2>1
  <1> QED
    BY <1>4, <1>6, <1>7, <1>8, <1>10


LEMMA StartKeeps ==
    ASSUME IInv, NEW l \in Launches, Start(l)
    PROVE  HostTypes' /\ HostInv' /\ Grows /\ LaunchesInv' /\ \A k \in Launches : Stable(k)
  <1> DEFINE p == L[l].pane
             n == Len(agent) + 1
             asked == StartRequest(l)
  <1>1. /\ HostTypes /\ HostInv /\ TypeInv /\ l \in Callers /\ NoTab \in Nat /\ MaxPanes \in Nat
        /\ p \in 0..MaxPanes
    BY HostShape DEF IInv, TypeInv, LaunchTypes, Callers, NoTab
  <1>2. OwnParts(l)
    BY PartsOf DEF IInv
  <1>3. /\ Alone(l) /\ run' = run /\ pane' = pane /\ L[l].pc = "start"
        /\ L'[l].pc \in {"select", "start_failed", "failing"} /\ L'[l].dispatched = TRUE
        /\ Changes(l, {"pc", "dispatched", "started", "startRec"})
    BY <1>1, StartDoes
  <1>4. \/ agent' = agent /\ late' \subseteq late /\ L'[l].pc # "select"
        \/ p \in OpenPanes /\ agent' = agent /\ late' \subseteq late \union {asked} /\ L'[l].pc # "select"
        \/ /\ p \in OpenPanes /\ Occupant(p) = NoAgent /\ Len(agent) < MaxAgents
           /\ agent' = Spawned(l) /\ late' = Held(l)
    BY <1>1, StartDoes
  <1>5. /\ L'[l].of = L[l].of /\ L'[l].prior = L[l].prior /\ L'[l].r = L[l].r /\ L'[l].todo = L[l].todo
        /\ L'[l].cur = L[l].cur /\ L'[l].pane = p /\ L'[l].ident = L[l].ident /\ L'[l].res = L[l].res
        /\ L'[l].cert = L[l].cert
    BY <1>3, FieldNames DEF Changes
  <1>6. /\ p # NoPane /\ p \in DOMAIN pane /\ pane[p].by = l /\ L[l].ident = NoAgent /\ L[l].cert = "none"
        /\ L[l].cur \in Points /\ L[l].res \notin Bound /\ Unheard(l)
        /\ \A e \in late : e.by = l => e.op # "open" /\ e.pane = p
    BY <1>2, <1>3
    DEF OwnParts, OwnInv, ChildInv, PromptInv, ReportInv, Early, Placed, Identified, Supervised, Bound
  <1>7. /\ asked \in LateRec /\ asked.op = "start" /\ asked.by = l /\ asked.pane = p /\ asked.point = L[l].cur
    BY <1>1, <1>6 DEF StartRequest, LateRec
  <1>8. /\ HostTypes' /\ HostInv' /\ Grows /\ \A m \in Launches \ {l} : Spares(m)
        /\ OpenPanes' = OpenPanes
        /\ \A a \in DOMAIN agent' : agent'[a].by = l /\ a \notin DOMAIN agent =>
             agent'[a].pane = p /\ agent'[a].point = L[l].cur
        /\ \A a \in DOMAIN agent' : a \notin DOMAIN agent => agent'[a].heard[l] = 0
        /\ \A a \in DOMAIN agent' : a \in DOMAIN agent => agent'[a] = agent[a]
        /\ \A a \in Live' : a \in Live \/ a \notin DOMAIN agent
        /\ \A e \in late' : e.by = l => e \in late \/ e = asked
        /\ L'[l].pc = "select" => late' = Held(l) /\ \A a \in Live : agent[a].pane # p
    <2>1. CASE /\ p \in OpenPanes /\ Occupant(p) = NoAgent /\ Len(agent) < MaxAgents
               /\ agent' = Spawned(l) /\ late' = Held(l)
      <3>1. agent' = Started(p, l, L[l].cur, "boot") /\ late' \subseteq late
        BY <2>1 DEF Spawned, Held
      <3>2. /\ HostTypes' /\ HostInv' /\ Grows /\ Len(agent') = n
            /\ agent'[n].by = l /\ agent'[n].point = L[l].cur /\ agent'[n].pane = p
            /\ \A k \in Launches : agent'[n].heard[k] = 0
            /\ \A a \in DOMAIN agent : agent'[a] = agent[a]
            /\ OpenPanes' = OpenPanes /\ Live' = Live \union {n}
        BY <1>1, <1>3, <1>6, <2>1, <3>1, StartsAgent
      <3>3. \A m \in Launches \ {l} : Spares(m)
        BY <1>1, <1>3, <1>6, <2>1, <3>1, StartingSpares
      <3>4. DOMAIN agent' = DOMAIN agent \union {n} /\ n \notin DOMAIN agent
        <4>1. DOMAIN agent = 1..Len(agent) /\ Len(agent) \in Nat /\ DOMAIN agent' = 1..Len(agent')
          BY <1>1, <3>2, HostShape DEF HostTypes
        <4>2. Len(agent') = Len(agent) + 1
          BY <3>2
        <4>3. ASSUME NEW k \in Nat PROVE 1..(k + 1) = (1..k) \union {k + 1} /\ k + 1 \notin 1..k
          OBVIOUS
        <4> QED
          BY <4>1, <4>2, <4>3
      <3>5. \A a \in Live : agent[a].pane # p
        BY <1>1, <2>1, OccupantIs, HostShape
      <3> HIDE DEF n
      <3> QED
        BY <2>1, <3>1, <3>2, <3>3, <3>4, <3>5
    <2>2. CASE agent' = agent /\ late' \subseteq late \union {asked} /\ (late' \subseteq late \/ p \in OpenPanes)
               /\ L'[l].pc # "select"
      <3>1. HostTypes' /\ HostInv' /\ Grows /\ OpenPanes' = OpenPanes /\ Live' = Live
        <4>1. CASE p \in OpenPanes
          BY <1>1, <1>3, <1>6, <1>7, <2>2, <4>1, HoldsRequest
        <4>2. CASE late' \subseteq late
          BY <1>1, <1>3, <2>2, <4>2 DEF HostTypes, HostInv, OpenPanes, Live, Grows
        <4> QED
          BY <2>2, <4>1, <4>2
      <3>2. \A m \in Launches \ {l} : Spares(m)
        BY <1>1, <1>3, <1>7, <2>2, HostShape DEF Spares, NoPaneOf, NoAgentOf, NoLateOf, Unchanged
      <3> QED
        BY <2>2, <3>1, <3>2
    <2> QED
      BY <1>4, <2>1, <2>2
  <1> HIDE DEF n, asked, p
  <1>9. \A k \in Launches : Stable(k)
    BY <1>3, <1>6 DEF Stable, Alone
  <1>10. OwnInv(l)'
    BY <1>2, <1>3, <1>5, <1>6, <1>7, <1>8 DEF OwnParts, OwnInv, Early, Placed, p
  <1>11. ChildInv(l)'
    <2>1. L'[l].pc = "select" =>
            /\ \A e \in late' : e.by = l => e.op # "start"
            /\ \A a \in Live' : agent'[a].by = l => agent'[a].point = L[l].cur
      <3>1. \A a \in Live' : a \in DOMAIN agent'
        BY DEF Live
      <3>2. \A a \in Live : a \in DOMAIN agent
        BY DEF Live
      <3>3. \A a \in Live : agent[a].by = l => agent[a].pane = p
        BY <1>2, <3>2 DEF OwnParts, OwnInv, p
      <3> QED
        BY <1>6, <1>8, <3>1, <3>2, <3>3 DEF Held, p
    <2> QED
      BY <1>3, <1>5, <1>6, <2>1 DEF ChildInv, Begun, Identified, Early, Placed
  <1>12. PromptInv(l)'
    <2>1. Unheard(l)'
      BY <1>6, <1>7, <1>8 DEF Unheard
    <2> QED
      BY <1>2, <1>3, <1>5, <1>6, <2>1 DEF OwnParts, PromptInv, Supervised, Early, Placed
  <1>13. ReportInv(l)'
    BY <1>3, <1>5, <1>6 DEF ReportInv
  <1>14. RunInv(l)'
    BY <1>2, <1>3, <1>6 DEF OwnParts, RunInv
  <1>15. RouteInv(l)'
    <2>1. L[l].prior.st \in {"failed", "cancelled"} =>
             /\ L[l].of \in Launches /\ L[L[l].of].ident # NoAgent /\ L[L[l].of].ident \notin Live
             /\ L[l].prior.point = L[L[l].of].cur
      BY <1>2 DEF OwnParts, RouteInv
    <2>2. L[l].prior.st \in {"failed", "cancelled"} =>
             /\ L'[L[l].of].ident # NoAgent /\ L'[L[l].of].ident \notin Live'
             /\ L[l].prior.point = L'[L[l].of].cur
      BY <1>1, <1>8, <1>9, <2>1, DeadStays
    <2>3. L[l].prior.point # NoPoint => Elsewhere(l, L[l].cur)
      BY <1>2, <1>6, RoutingAssumption DEF OwnParts, RouteInv
    <2>4. L[l].prior.point # NoPoint =>
             /\ \A a \in DOMAIN agent' : agent'[a].by = l => Elsewhere(l, agent'[a].point)
             /\ \A e \in late' : e.by = l /\ e.op = "start" => Elsewhere(l, e.point)
      BY <1>2, <1>7, <1>8, <2>3 DEF OwnParts, RouteInv
    <2> QED
      BY <1>2, <1>3, <1>5, <2>1, <2>2, <2>4 DEF OwnParts, RouteInv, Elsewhere
  <1>16. OwnParts(l)'
    BY <1>10, <1>11, <1>12, <1>13, <1>14, <1>15 DEF OwnParts
  <1>17. \A m \in Launches \ {l} : Aside(m)
    BY <1>3, <1>8 DEF Aside, Alone
  <1> QED
    BY <1>8, <1>9, <1>16, <1>17, OthersKeep


-----------------------------------------------------------------------------
(* The prompt is heard by the agent of the pane, may be heard later, or not. *)
LEMMA PromptDoes ==
    ASSUME TypeInv, NEW l \in Launches, Prompt(l)
    PROVE  /\ Alone(l) /\ run' = run /\ pane' = pane
           /\ L[l].pc = "prompt" /\ L'[l].pc \in {"confirm", "failing"}
           /\ Changes(l, {"pc", "hook", "submitted", "ack"})
           /\ L'[l].hook \in BOOLEAN
           /\ L'[l].submitted \in {L[l].submitted, TRUE}
           /\ L'[l].ack \in {L[l].ack, Occupant(L[l].pane)}
           /\ \/ /\ TakesPrompt(Occupant(L[l].pane)) /\ late' = late
                 /\ \E text \in TextsOf(Occupant(L[l].pane)) : agent' = Prompted(Occupant(L[l].pane), l, text)
                 /\ L'[l].pc = "confirm" => AckMatches(l, Occupant(L[l].pane))
              \/ agent' = agent /\ late' = late /\ L'[l].pc = "failing"
              \/ /\ L[l].pane \in OpenPanes /\ agent' = agent /\ late' \subseteq late \union {PromptRequest(l)}
                 /\ L'[l].pc = "failing"
  <1> DEFINE o == Occupant(L[l].pane)
             hooked == [hook |-> HasLimitReader(L[l].cur)]
             Sent == Put(l, With(hooked, [pc |-> "confirm", submitted |-> TRUE, ack |-> o]))
             Lost == Put(l, With(hooked, [pc |-> "failing"]))
             Heard == \E text \in TextsOf(o) : agent' = Prompted(o, l, text)
  <1>1. DOMAIN L = Launches /\ DOMAIN L[l] = Fields /\ DOMAIN run = Launches
    BY DEF TypeInv, SharedTypes, LaunchTypes, Fields
  <1>2. run' = run /\ L[l].pc = "prompt" /\ pane' = pane /\ HasLimitReader(L[l].cur) \in BOOLEAN
    BY DEF Prompt, At, HostUnchanged, hostVars, HasLimitReader
  <1>3. \/ Sent /\ TakesPrompt(o) /\ late' = late /\ Heard /\ AckMatches(l, o)
        \/ Lost /\ TakesPrompt(o) /\ late' = late /\ Heard
        \/ Lost /\ agent' = agent /\ late' = late
        \/ Lost /\ L[l].pane \in OpenPanes /\ agent' = agent /\ late' \subseteq late \union {PromptRequest(l)}
    BY DEF Prompt, Failing, HostUnchanged, hostVars
  <1>4. ASSUME Sent
        PROVE  /\ Alone(l) /\ Changes(l, {"pc", "hook", "submitted", "ack"}) /\ L'[l].pc = "confirm"
               /\ L'[l].hook = HasLimitReader(L[l].cur) /\ L'[l].submitted = TRUE /\ L'[l].ack = o
    <2> HIDE DEF o
    <2> QED
      BY <1>1, <1>2, <1>4, FieldNames DEF Put, With, Alone, Changes
  <1>5. ASSUME Lost
        PROVE  /\ Alone(l) /\ Changes(l, {"pc", "hook", "submitted", "ack"}) /\ L'[l].pc = "failing"
               /\ L'[l].hook = HasLimitReader(L[l].cur) /\ L'[l].submitted = L[l].submitted
               /\ L'[l].ack = L[l].ack
    BY <1>1, <1>2, <1>5, FieldNames DEF Put, With, Alone, Changes
  <1> HIDE DEF Sent, Lost, hooked
  <1> QED
    BY <1>2, <1>3, <1>4, <1>5

LEMMA PromptKeeps ==
    ASSUME IInv, NEW l \in Launches, Prompt(l)
    PROVE  HostTypes' /\ HostInv' /\ Grows /\ LaunchesInv' /\ \A k \in Launches : Stable(k)
  <1> DEFINE p == L[l].pane
             o == Occupant(p)
             asked == PromptRequest(l)
  <1>1. /\ HostTypes /\ HostInv /\ TypeInv /\ NoTab \in Nat /\ MaxPanes \in Nat /\ p \in 0..MaxPanes
    BY HostShape DEF IInv, TypeInv, LaunchTypes, NoTab
  <1>2. OwnParts(l)
    BY PartsOf DEF IInv
  <1>3. /\ Alone(l) /\ run' = run /\ pane' = pane /\ L[l].pc = "prompt"
        /\ L'[l].pc \in {"confirm", "failing"} /\ Changes(l, {"pc", "hook", "submitted", "ack"})
    BY <1>1, PromptDoes
  <1>4. \/ /\ TakesPrompt(o) /\ late' = late /\ \E text \in TextsOf(o) : agent' = Prompted(o, l, text)
           /\ L'[l].pc = "confirm" => AckMatches(l, o)
        \/ agent' = agent /\ late' = late /\ L'[l].pc = "failing"
        \/ p \in OpenPanes /\ agent' = agent /\ late' \subseteq late \union {asked} /\ L'[l].pc = "failing"
    BY <1>1, PromptDoes
  <1>5. /\ L'[l].of = L[l].of /\ L'[l].prior = L[l].prior /\ L'[l].r = L[l].r /\ L'[l].todo = L[l].todo
        /\ L'[l].cur = L[l].cur /\ L'[l].pane = p /\ L'[l].ident = L[l].ident /\ L'[l].res = L[l].res
        /\ L'[l].cert = L[l].cert /\ L'[l].dispatched = L[l].dispatched
    BY <1>3, FieldNames DEF Changes
  <1>6. /\ p # NoPane /\ p \in DOMAIN pane /\ pane[p].by = l /\ L[l].ident # NoAgent /\ L[l].cert = "none"
        /\ L[l].ident \in DOMAIN agent /\ L[l].cur \in Points /\ L[l].dispatched
        /\ L[l].res \in Bound /\ (Kind[L[l].cur] # "agy" => L[l].res \in {"bound", "settled"}) /\ Unheard(l)
        /\ \A a \in Live : agent[a].by = l => a = L[l].ident
    <2>1. L[l].ident # NoAgent => L[l].ident \in DOMAIN agent
      BY <1>1, HostShape DEF TypeInv, LaunchTypes, NoAgent
    <2> QED
      BY <1>2, <1>3, <2>1
      DEF OwnParts, OwnInv, ChildInv, PromptInv, ReportInv, Placed, Identified, Supervised, Bound
  <1>7. /\ asked \in LateRec /\ asked.op = "prompt" /\ asked.by = l /\ asked.pane = p
    BY <1>1, <1>6 DEF PromptRequest, LateRec
  <1>8. /\ HostTypes' /\ HostInv' /\ Grows /\ \A m \in Launches \ {l} : Spares(m)
        /\ OpenPanes' = OpenPanes /\ DOMAIN agent' = DOMAIN agent /\ Live' = Live
        /\ \A b \in DOMAIN agent : /\ agent'[b].by = agent[b].by /\ agent'[b].pane = agent[b].pane
                                   /\ agent'[b].point = agent[b].point
        /\ L'[l].pc = "confirm" =>
             /\ late' = late
             /\ \A b \in DOMAIN agent : agent'[b].heard[l] = IF b = L[l].ident THEN 1 ELSE 0
        /\ \A e \in late' : e.by = l => e \in late \/ e = asked
    <2>1. CASE /\ TakesPrompt(o) /\ late' = late /\ \E text \in TextsOf(o) : agent' = Prompted(o, l, text)
               /\ L'[l].pc = "confirm" => AckMatches(l, o)
      <3>1. PICK text \in TextsOf(o) : agent' = Prompted(o, l, text)
        BY <2>1
      <3>2. text \in {"none", "unsent", "sent"} /\ o \in Live /\ o \in DOMAIN agent
        BY <1>1, <2>1, <3>1, OccupantIs, HostShape DEF TextsOf, TakesPrompt
      <3>3. /\ HostTypes' /\ HostInv' /\ Grows
            /\ DOMAIN agent' = DOMAIN agent /\ OpenPanes' = OpenPanes /\ Live' = Live
            /\ \A b \in DOMAIN agent :
                 /\ agent'[b].by = agent[b].by /\ agent'[b].pane = agent[b].pane
                 /\ agent'[b].point = agent[b].point
                 /\ agent'[b].heard[l] = agent[b].heard[l] + (IF b = o THEN 1 ELSE 0)
            /\ \A m \in Launches \ {l} : Spares(m)
        BY <1>1, <1>3, <2>1, <3>1, <3>2, Hears
      <3>4. ASSUME L'[l].pc = "confirm" PROVE o = L[l].ident
        <4>1. AckMatches(l, o)
          BY <2>1, <3>4
        <4>2. agent[o].by = l \/ o = L[l].ident
          BY <1>2, <1>6, <4>1 DEF AckMatches, ProvisionalContinuity, SameIdentity, OwnParts, ChildInv
        <4> QED
          BY <1>6, <3>2, <4>2
      <3> HIDE DEF o
      <3>5. L'[l].pc = "confirm" =>
              \A b \in DOMAIN agent : agent'[b].heard[l] = IF b = L[l].ident THEN 1 ELSE 0
        BY <1>6, <3>3, <3>4 DEF Unheard
      <3> QED
        BY <2>1, <3>3, <3>5
    <2>2. CASE agent' = agent /\ late' \subseteq late \union {asked} /\ (late' = late \/ p \in OpenPanes)
               /\ L'[l].pc = "failing"
      <3>1. HostTypes' /\ HostInv' /\ Grows /\ OpenPanes' = OpenPanes /\ Live' = Live
        <4>1. CASE p \in OpenPanes
          BY <1>1, <1>3, <1>7, <2>2, <4>1, HoldsRequest
        <4>2. CASE late' = late
          BY <1>1, <1>3, <2>2, <4>2 DEF HostTypes, HostInv, OpenPanes, Live, Grows
        <4> QED
          BY <2>2, <4>1, <4>2
      <3>2. \A m \in Launches \ {l} : Spares(m)
        BY <1>1, <1>3, <1>7, <2>2, HostShape DEF Spares, NoPaneOf, NoAgentOf, NoLateOf, Unchanged
      <3> QED
        BY <2>2, <3>1, <3>2
    <2> QED
      BY <1>4, <2>1, <2>2
  <1> HIDE DEF o, asked, p
  <1>9. Live \subseteq DOMAIN agent
    BY DEF Live
  <1>10. \A k \in Launches : Stable(k)
    BY <1>3, <1>5 DEF Stable, Alone, p
  <1>11. OwnInv(l)'
    BY <1>2, <1>3, <1>5, <1>6, <1>7, <1>8 DEF OwnParts, OwnInv, Early, Placed, p
  <1>12. ChildInv(l)'
    <2>1. \A e \in late' : e.by = l => e.op # "start"
      BY <1>2, <1>6, <1>7, <1>8 DEF OwnParts, ChildInv
    <2> QED
      BY <1>2, <1>3, <1>5, <1>6, <1>8, <1>9, <2>1 DEF OwnParts, ChildInv, Begun, Identified, Early, Placed
  <1>13. PromptInv(l)'
    <2>1. L'[l].pc = "confirm" => \A e \in late' : e.by = l => e.op # "prompt"
      BY <1>6, <1>8 DEF Unheard
    <2>2. L'[l].pc \notin Early \union (Placed \ Supervised) /\ L'[l].pc \notin {"launched", "prompt"}
      BY <1>3 DEF Early, Placed, Supervised
    <2>3. L'[l].pc = "confirm" =>
             \A a \in DOMAIN agent' : agent'[a].heard[l] = IF a = L'[l].ident THEN 1 ELSE 0
      BY <1>5, <1>8
    <2> QED
      BY <1>3, <1>5, <1>6, <2>1, <2>2, <2>3 DEF PromptInv, Supervised
  <1>14. ReportInv(l)'
    BY <1>3, <1>5, <1>6 DEF ReportInv
  <1>15. RunInv(l)'
    BY <1>2, <1>3, <1>5, <1>8 DEF OwnParts, RunInv
  <1>16. RouteInv(l)'
    <2>1. L[l].prior.st \in {"failed", "cancelled"} =>
             /\ L[l].of \in Launches /\ L[L[l].of].ident # NoAgent /\ L[L[l].of].ident \notin Live
             /\ L[l].prior.point = L[L[l].of].cur
      BY <1>2 DEF OwnParts, RouteInv
    <2>2. L[l].prior.st \in {"failed", "cancelled"} =>
             /\ L'[L[l].of].ident # NoAgent /\ L'[L[l].of].ident \notin Live'
             /\ L[l].prior.point = L'[L[l].of].cur
      BY <1>1, <1>8, <1>10, <2>1, DeadStays
    <2>3. L[l].prior.point # NoPoint =>
             /\ \A a \in DOMAIN agent' : agent'[a].by = l => Elsewhere(l, agent'[a].point)
             /\ \A e \in late' : e.by = l /\ e.op = "start" => Elsewhere(l, e.point)
      BY <1>2, <1>7, <1>8 DEF OwnParts, RouteInv
    <2> QED
      BY <1>2, <1>3, <1>5, <2>1, <2>2, <2>3 DEF OwnParts, RouteInv, Elsewhere
  <1>17. OwnParts(l)'
    BY <1>11, <1>12, <1>13, <1>14, <1>15, <1>16 DEF OwnParts
  <1>18. \A m \in Launches \ {l} : Aside(m)
    BY <1>3, <1>8 DEF Aside, Alone
  <1> QED
    BY <1>8, <1>10, <1>17, <1>18, OthersKeep


-----------------------------------------------------------------------------
(* The types after a step of a launch: of the fields it wrote, and of what   *)
(* the launches share.                                                       *)
Written(l, fields) ==
    LET y == L'[l]
    IN  /\ Changes(l, fields)
        /\ "pc" \in fields => y.pc \in Codes
        /\ "of" \in fields => y.of \in Launches \union {0}
        /\ "prior" \in fields => IsRun(y.prior)
        /\ "exact" \in fields => y.exact \in Points \union {NoPoint}
        /\ "asked" \in fields => y.asked \in 0..MaxTier
        /\ "tier" \in fields => y.tier \in 0..MaxTier
        /\ "r" \in fields => Routes(y.r)
        /\ "todo" \in fields => y.todo \in Seq(Points)
        /\ "cur" \in fields => y.cur \in Points \union {NoPoint}
        /\ "seen" \in fields => y.seen \subseteq DOMAIN pane
        /\ "pane" \in fields => y.pane \in 0..MaxPanes
        /\ "tab" \in fields => y.tab \in Nat
        /\ "dispatched" \in fields => y.dispatched \in BOOLEAN
        /\ "started" \in fields => y.started \in BOOLEAN
        /\ "startRec" \in fields => y.startRec \in 0..Len(agent')
        /\ "sample" \in fields => y.sample \in 0..Len(agent)
        /\ "ident" \in fields => y.ident \in 0..Len(agent)
        /\ "ack" \in fields => y.ack \in 0..Len(agent)
        /\ "base" \in fields => y.base \in Nat
        /\ "look" \in fields => /\ DOMAIN y.look = DOMAIN NoLook /\ y.look.cand \in 0..MaxPanes
                                /\ y.look.made \in BOOLEAN
                                /\ y.look.snapshot \in {"present", "absent", "failed"}
        /\ "res" \in fields => y.res \in {"none", "reserved", "released", "provisional", "bound", "settled"}
        /\ "prov" \in fields => y.prov \in [seq : Nat, native : 0..Len(agent), rejected : BOOLEAN]
        /\ "cert" \in fields => y.cert \in {"none", "absent", "partial", "unknown"}
        /\ y.pc \in {"child", "prepare"} => y.todo # <<>>

LEMMA WrittenTypes ==
    ASSUME TypeInv, HostTypes', Grows, NEW l \in Launches, NEW fields, Written(l, fields), IsRun(run'[l])
    PROVE  LaunchTypes(l)'
  <1> DEFINE x == L[l]
             y == L'[l]
  <1>1. DOMAIN y = Fields /\ \A k \in Fields \ fields : y[k] = x[k]
    BY DEF Written, Changes
  <1>2. DOMAIN pane \subseteq DOMAIN pane'
    BY HostShape DEF TypeInv, HostTypes, Grows
  <1>3. /\ Len(agent) \in Nat /\ Len(agent') \in Nat /\ Len(agent) <= Len(agent')
    BY HostShape DEF TypeInv, HostTypes, Grows
  <1>4. \A k : k \in 0..Len(agent) => k \in 0..Len(agent')
    BY <1>3
  <1>5. LaunchTypes(l)
    BY DEF TypeInv
  <1>6. DOMAIN y = DOMAIN Fresh
    BY <1>1 DEF Fields
  <1>7. /\ y.pc \in Codes /\ y.of \in Launches \union {0} /\ IsRun(y.prior)
        /\ y.exact \in Points \union {NoPoint} /\ y.asked \in 0..MaxTier /\ y.tier \in 0..MaxTier
        /\ Routes(y.r) /\ y.todo \in Seq(Points) /\ y.cur \in Points \union {NoPoint}
    <2>1. IsRun(y.prior)
      <3>1. "prior" \notin fields => y.prior = x.prior
        BY <1>1, FieldNames
      <3> QED
        BY <1>5, <3>1 DEF Written, LaunchTypes
    <2>2. Routes(y.r)
      <3>1. "r" \notin fields => y.r = x.r
        BY <1>1, FieldNames
      <3> QED
        BY <1>5, <3>1 DEF Written, LaunchTypes
    <2>3. /\ y.pc \in Codes /\ y.of \in Launches \union {0}
          /\ y.exact \in Points \union {NoPoint} /\ y.asked \in 0..MaxTier /\ y.tier \in 0..MaxTier
      BY <1>1, <1>5, FieldNames DEF Written, LaunchTypes
    <2>4. y.todo \in Seq(Points) /\ y.cur \in Points \union {NoPoint}
      BY <1>1, <1>5, FieldNames DEF Written, LaunchTypes
    <2> QED
      BY <2>1, <2>2, <2>3, <2>4
  <1>8. /\ y.seen \subseteq DOMAIN pane' /\ y.pane \in 0..MaxPanes /\ y.tab \in Nat
        /\ y.dispatched \in BOOLEAN /\ y.started \in BOOLEAN
    BY <1>1, <1>2, <1>5, FieldNames DEF Written, LaunchTypes
  <1>9. {y.startRec, y.sample, y.ident, y.ack} \subseteq 0..Len(agent') /\ y.base \in Nat
    <2>1. "startRec" \notin fields => y.startRec \in 0..Len(agent)
      BY <1>1, <1>5, FieldNames DEF LaunchTypes
    <2>2. y.sample \in 0..Len(agent) /\ y.ident \in 0..Len(agent) /\ y.ack \in 0..Len(agent) /\ y.base \in Nat
      BY <1>1, <1>5, FieldNames DEF Written, LaunchTypes
    <2>3. "startRec" \in fields => y.startRec \in 0..Len(agent')
      BY DEF Written
    <2> QED
      BY <1>4, <2>1, <2>2, <2>3
  <1>10. /\ DOMAIN y.look = DOMAIN NoLook /\ y.look.cand \in 0..MaxPanes /\ y.look.made \in BOOLEAN
         /\ y.look.snapshot \in {"present", "absent", "failed"}
    BY <1>1, <1>5, FieldNames DEF Written, LaunchTypes
  <1>11. /\ y.res \in {"none", "reserved", "released", "provisional", "bound", "settled"}
         /\ y.cert \in {"none", "absent", "partial", "unknown"}
    BY <1>1, <1>5, FieldNames DEF Written, LaunchTypes
  <1>12. y.prov \in [seq : Nat, native : 0..Len(agent'), rejected : BOOLEAN]
    <2>1. y.prov \in [seq : Nat, native : 0..Len(agent), rejected : BOOLEAN]
      BY <1>1, <1>5, FieldNames DEF Written, LaunchTypes
    <2> QED
      BY <1>4, <2>1
  <1>13. y.pc \in {"child", "prepare"} => y.todo # <<>>
    BY DEF Written
  <1> QED
    BY <1>6, <1>7, <1>8, <1>9, <1>10, <1>11, <1>12, <1>13 DEF LaunchTypes

RecStates == {"none", "close", "readback", "mark", "relaunch", "relaunched", "failed"}
Shared ==
    /\ cast' = cast /\ cool' \subseteq Records /\ rec' \in RecStates
    /\ trouble' = trouble \/ (trouble > 0 /\ trouble' = trouble - 1)

(* What is typed for the launches that took no part. *)
LEMMA TypesOfOthers ==
    ASSUME TypeInv, HostTypes', Grows, Shared, DOMAIN L' = Launches, DOMAIN run' = Launches,
           NEW l, \A m \in Launches \ {l} : L'[m] = L[m] /\ run'[m] = run[m],
           l \in Launches => LaunchTypes(l)'
    PROVE  TypeInv'
  <1>1. SharedTypes'
    <2>1. trouble' \in 0..MaxTrouble
      BY CastAssumption DEF TypeInv, SharedTypes, Shared
    <2> QED
      BY <2>1 DEF TypeInv, SharedTypes, Shared, RecStates
  <1>2. DOMAIN pane \subseteq DOMAIN pane'
    BY HostShape DEF TypeInv, HostTypes, Grows
  <1>3. /\ Len(agent) \in Nat /\ Len(agent') \in Nat /\ Len(agent) <= Len(agent')
    BY HostShape DEF TypeInv, HostTypes, Grows
  <1>4. \A k : k \in 0..Len(agent) => k \in 0..Len(agent')
    BY <1>3
  <1>5. ASSUME NEW m \in Launches \ {l} PROVE LaunchTypes(m)'
    <2>1. LaunchTypes(m)
      BY DEF TypeInv
    <2> QED
      BY <1>2, <1>4, <2>1 DEF LaunchTypes
  <1> QED
    BY <1>1, <1>5 DEF TypeInv


(* A step that writes typed fields, and leaves the run a run. *)
Typed(l) == (\E fields : Written(l, fields)) /\ IsRun(run'[l]) /\ Shared

LEMMA TypedStep ==
    ASSUME TypeInv, HostTypes', Grows, NEW l \in Launches, Alone(l), Typed(l)
    PROVE  TypeInv'
  <1>1. LaunchTypes(l)'
    BY WrittenTypes DEF Typed
  <1> QED
    BY <1>1, TypesOfOthers DEF Typed, Alone


LEMMA BoundaryTypes ==
    ASSUME TypeInv, HostInv, NEW l \in Launches, Boundary(l)
    PROVE  Typed(l)
  <1>1. DOMAIN L = Launches /\ DOMAIN L[l] = Fields /\ DOMAIN run = Launches /\ LaunchTypes(l)
    BY DEF TypeInv, SharedTypes, LaunchTypes, Fields
  <1>2. Shared /\ run' = run
    BY DEF Boundary, LaunchOnly, Rest, Calm, Trouble, Shared, TypeInv, SharedTypes, RecStates
  <1>3. Changes(l, {"pc"})
    BY <1>1, FieldNames DEF Boundary, LaunchOnly, Put, With, Changes
  <1>4. L'[l].pc \in {"failed", "log"}
    BY <1>1, FieldNames DEF Boundary, LaunchOnly, At, Put, With
  <1>5. Written(l, {"pc"})
    BY <1>1, <1>3, <1>4, FieldNames DEF Written, Changes, LaunchTypes, Codes
  <1> QED
    BY <1>1, <1>2, <1>5 DEF Typed, LaunchTypes

LEMMA LogDecisionTypes ==
    ASSUME TypeInv, HostInv, NEW l \in Launches, LogDecision(l)
    PROVE  Typed(l)
  <1>1. DOMAIN L = Launches /\ DOMAIN L[l] = Fields /\ DOMAIN run = Launches /\ LaunchTypes(l)
    BY DEF TypeInv, SharedTypes, LaunchTypes, Fields
  <1>2. Shared /\ run' = run
    BY DEF LogDecision, LaunchOnly, Verdict, Rest, Calm, Trouble, Shared, TypeInv, SharedTypes, RecStates
  <1>3. Changes(l, {"pc"})
    BY <1>1, FieldNames DEF LogDecision, LaunchOnly, Verdict, Put, With, Changes
  <1>4. L'[l].pc \in {"failed", "abstained", "not_started"} \/ (L'[l].pc = "child" /\ L[l].todo # <<>>)
    BY <1>1, FieldNames DEF LogDecision, LaunchOnly, Verdict, At, Put, With
  <1>5. Written(l, {"pc"})
    BY <1>1, <1>3, <1>4, FieldNames DEF Written, Changes, LaunchTypes, Codes
  <1> QED
    BY <1>1, <1>2, <1>5 DEF Typed, LaunchTypes

LEMMA ShellReadyTypes ==
    ASSUME TypeInv, HostInv, NEW l \in Launches, ShellReady(l)
    PROVE  Typed(l)
  <1>1. DOMAIN L = Launches /\ DOMAIN L[l] = Fields /\ DOMAIN run = Launches /\ LaunchTypes(l)
    BY DEF TypeInv, SharedTypes, LaunchTypes, Fields
  <1>2. Shared /\ run' = run
    BY DEF ShellReady, LaunchOnly, Fails, Rest, Calm, Trouble, Shared, TypeInv, SharedTypes, RecStates
  <1>3. Changes(l, {"pc"})
    BY <1>1, FieldNames DEF ShellReady, LaunchOnly, Fails, Put, With, Changes
  <1>4. L'[l].pc \in {"failing", "attempt"}
    BY <1>1, FieldNames DEF ShellReady, LaunchOnly, Fails, At, Put, With
  <1>5. Written(l, {"pc"})
    BY <1>1, <1>3, <1>4, FieldNames DEF Written, Changes, LaunchTypes, Codes
  <1> QED
    BY <1>1, <1>2, <1>5 DEF Typed, LaunchTypes

LEMMA StartFailedTypes ==
    ASSUME TypeInv, HostInv, NEW l \in Launches, StartFailed(l)
    PROVE  Typed(l)
  <1>1. DOMAIN L = Launches /\ DOMAIN L[l] = Fields /\ DOMAIN run = Launches /\ LaunchTypes(l)
    BY DEF TypeInv, SharedTypes, LaunchTypes, Fields
  <1>2. Shared /\ run' = run
    BY DEF StartFailed, LaunchOnly, Fails, Rest, Calm, Trouble, Shared, TypeInv, SharedTypes, RecStates
  <1>3. Changes(l, {"pc"})
    BY <1>1, FieldNames DEF StartFailed, LaunchOnly, Fails, Put, With, Changes
  <1>4. L'[l].pc \in {"failing", "attempt"}
    BY <1>1, FieldNames DEF StartFailed, LaunchOnly, Fails, At, Put, With
  <1>5. Written(l, {"pc"})
    BY <1>1, <1>3, <1>4, FieldNames DEF Written, Changes, LaunchTypes, Codes
  <1> QED
    BY <1>1, <1>2, <1>5 DEF Typed, LaunchTypes

LEMMA BindExactTypes ==
    ASSUME TypeInv, HostInv, NEW l \in Launches, BindExact(l)
    PROVE  Typed(l)
  <1>1. DOMAIN L = Launches /\ DOMAIN L[l] = Fields /\ DOMAIN run = Launches /\ LaunchTypes(l)
    BY DEF TypeInv, SharedTypes, LaunchTypes, Fields
  <1>2. Shared /\ run' = run
    BY DEF BindExact, LaunchOnly, Fails, Rest, Calm, Trouble, Shared, TypeInv, SharedTypes, RecStates
  <1>3. Changes(l, {"pc", "res"})
    BY <1>1, FieldNames DEF BindExact, LaunchOnly, Fails, Put, With, Changes
  <1>4. L'[l].pc \in {"failing", "prompt"} /\ L'[l].res \in {L[l].res, "bound"}
    BY <1>1, FieldNames DEF BindExact, LaunchOnly, Fails, At, Put, With
  <1>5. Written(l, {"pc", "res"})
    BY <1>1, <1>3, <1>4, FieldNames DEF Written, Changes, LaunchTypes, Codes
  <1> QED
    BY <1>1, <1>2, <1>5 DEF Typed, LaunchTypes

LEMMA ConfirmPromptConsumptionTypes ==
    ASSUME TypeInv, HostInv, NEW l \in Launches, ConfirmPromptConsumption(l)
    PROVE  Typed(l)
  <1>1. DOMAIN L = Launches /\ DOMAIN L[l] = Fields /\ DOMAIN run = Launches /\ LaunchTypes(l)
    BY DEF TypeInv, SharedTypes, LaunchTypes, Fields
  <1>2. Shared /\ run' = run
    BY DEF ConfirmPromptConsumption, Fails, WindowCloses, Rest, Calm, Trouble, Shared, TypeInv, SharedTypes, RecStates
  <1>3. Changes(l, {"pc", "resent"})
    BY <1>1, FieldNames DEF ConfirmPromptConsumption, Fails, WindowCloses, Put, With, Changes
  <1>4. L'[l].pc \in {"launched", "failing", "confirm"}
    BY <1>1, FieldNames DEF ConfirmPromptConsumption, Fails, WindowCloses, At, Put, With
  <1>5. Written(l, {"pc", "resent"})
    BY <1>1, <1>3, <1>4, FieldNames DEF Written, Changes, LaunchTypes, Codes
  <1> QED
    BY <1>1, <1>2, <1>5 DEF Typed, LaunchTypes

LEMMA ReleaseTypes ==
    ASSUME TypeInv, HostInv, NEW l \in Launches, Release(l)
    PROVE  Typed(l)
  <1>1. DOMAIN L = Launches /\ DOMAIN L[l] = Fields /\ DOMAIN run = Launches /\ LaunchTypes(l)
    BY DEF TypeInv, SharedTypes, LaunchTypes, Fields
  <1>2. Shared /\ run' = run
    BY DEF Release, LaunchOnly, Rest, Calm, Trouble, Shared, TypeInv, SharedTypes, RecStates
  <1>3. Changes(l, {"pc", "res"})
    BY <1>1, FieldNames DEF Release, LaunchOnly, Put, With, Changes
  <1>4. L'[l].pc = "failed" /\ L'[l].res \in {L[l].res, "released"}
    BY <1>1, FieldNames DEF Release, LaunchOnly, At, Put, With
  <1>5. Written(l, {"pc", "res"})
    BY <1>1, <1>3, <1>4, FieldNames DEF Written, Changes, LaunchTypes, Codes
  <1> QED
    BY <1>1, <1>2, <1>5 DEF Typed, LaunchTypes


LEMMA OccupantTyped ==
    ASSUME HostTypes, HostInv
    PROVE  \A p : /\ Occupant(p) \in 0..Len(agent)
                  /\ Occupant(p) # NoAgent => agent[Occupant(p)].seq \in Nat /\ Occupant(p) \in Live
  <1> TAKE p
  <1>1. Occupant(p) # NoAgent => Occupant(p) \in Live /\ Occupant(p) \in 1..Len(agent) /\ Len(agent) \in Nat
    BY OccupantIs, HostShape
  <1>2. Occupant(p) # NoAgent => agent[Occupant(p)].seq \in Nat
    BY <1>1, HostShape DEF AgentRec
  <1>3. Len(agent) \in Nat
    BY HostShape
  <1> QED
    BY <1>1, <1>2, <1>3 DEF NoAgent

LEMMA JudgeTypes ==
    ASSUME TypeInv, HostInv, NEW l \in Launches, Judge(l)
    PROVE  Typed(l)
  <1> DEFINE o == Occupant(L[l].pane)
  <1>1. DOMAIN L = Launches /\ DOMAIN L[l] = Fields /\ DOMAIN run = Launches /\ LaunchTypes(l)
    BY DEF TypeInv, SharedTypes, LaunchTypes, Fields
  <1>2. Shared /\ run' = run
    BY DEF Judge, LaunchOnly, Fails, WindowCloses, Rest, Calm, Trouble, Shared, TypeInv, SharedTypes, RecStates
  <1>3. Changes(l, {"pc", "ident"})
    BY <1>1, FieldNames DEF Judge, LaunchOnly, Fails, WindowCloses, Put, With, Changes
  <1>4. o \in 0..Len(agent) /\ (o # NoAgent => agent[o].seq \in Nat)
    BY OccupantTyped DEF TypeInv
  <1>5. L'[l].pc \in {"failing", "bind", "ready"} /\ L'[l].ident \in {L[l].ident, o}
    BY <1>1, FieldNames DEF Judge, LaunchOnly, Fails, WindowCloses, At, Put, With
  <1> HIDE DEF o
  <1>6. Written(l, {"pc", "ident"})
    BY <1>1, <1>3, <1>4, <1>5, FieldNames DEF Written, Changes, LaunchTypes, Codes, NoProvisional, NoAgent
  <1> QED
    BY <1>1, <1>2, <1>6 DEF Typed, LaunchTypes

LEMMA ConfirmAgyNativeSessionTypes ==
    ASSUME TypeInv, HostInv, NEW l \in Launches, ConfirmAgyNativeSession(l)
    PROVE  Typed(l)
  <1> DEFINE o == Occupant(L[l].pane)
  <1>1. DOMAIN L = Launches /\ DOMAIN L[l] = Fields /\ DOMAIN run = Launches /\ LaunchTypes(l)
    BY DEF TypeInv, SharedTypes, LaunchTypes, Fields
  <1>2. Shared /\ run' = run
    BY DEF ConfirmAgyNativeSession, LaunchOnly, Fails, WindowCloses, Rest, Calm, Trouble, Shared, TypeInv, SharedTypes, RecStates
  <1>3. Changes(l, {"pc", "ident"})
    BY <1>1, FieldNames DEF ConfirmAgyNativeSession, LaunchOnly, Fails, WindowCloses, Put, With, Changes
  <1>4. o \in 0..Len(agent) /\ (o # NoAgent => agent[o].seq \in Nat)
    BY OccupantTyped DEF TypeInv
  <1>5. L'[l].pc \in {"failing", "strengthen"} /\ L'[l].ident \in {L[l].ident, o}
    BY <1>1, FieldNames DEF ConfirmAgyNativeSession, LaunchOnly, Fails, WindowCloses, At, Put, With
  <1> HIDE DEF o
  <1>6. Written(l, {"pc", "ident"})
    BY <1>1, <1>3, <1>4, <1>5, FieldNames DEF Written, Changes, LaunchTypes, Codes, NoProvisional, NoAgent
  <1> QED
    BY <1>1, <1>2, <1>6 DEF Typed, LaunchTypes

LEMMA ReconciliationFailsTypes ==
    ASSUME TypeInv, HostInv, NEW l \in Launches, ReconciliationFails(l)
    PROVE  Typed(l)
  <1> DEFINE v == [L[l].prov EXCEPT !.rejected = TRUE]
  <1>1. DOMAIN L = Launches /\ DOMAIN L[l] = Fields /\ DOMAIN run = Launches /\ LaunchTypes(l)
    BY DEF TypeInv, SharedTypes, LaunchTypes, Fields
  <1>2. Shared /\ run' = run
    BY DEF ReconciliationFails, LaunchOnly, MarkProvisionalFailure, Watching, Rest, Calm, Trouble, Shared, TypeInv, SharedTypes, RecStates
  <1>3. Put(l, [prov |-> v])
    BY DEF ReconciliationFails, MarkProvisionalFailure
  <1>4. v \in [seq : Nat, native : 0..Len(agent), rejected : BOOLEAN]
    BY <1>1 DEF LaunchTypes
  <1> HIDE DEF v
  <1>5. L'[l].prov = v /\ L'[l].pc = L[l].pc /\ L'[l].todo = L[l].todo /\ Changes(l, {"prov"})
    BY <1>1, <1>3, FieldNames DEF Put, With, Changes
  <1>6. Written(l, {"prov"})
    BY <1>1, <1>4, <1>5, FieldNames DEF Written, LaunchTypes
  <1> QED
    BY <1>1, <1>2, <1>6 DEF Typed, LaunchTypes

LEMMA SampleTypes ==
    ASSUME TypeInv, HostInv, NEW l \in Launches, Sample(l)
    PROVE  Typed(l)
  <1> DEFINE o == Occupant(L[l].pane)
  <1>1. DOMAIN L = Launches /\ DOMAIN L[l] = Fields /\ DOMAIN run = Launches /\ LaunchTypes(l)
    BY DEF TypeInv, SharedTypes, LaunchTypes, Fields
  <1>2. Shared /\ run' = run
    BY DEF Sample, LaunchOnly, Rest, Calm, Trouble, Shared, TypeInv, SharedTypes, RecStates
  <1>3. Changes(l, {"pc", "sample", "base"})
    BY <1>1, FieldNames DEF Sample, LaunchOnly, Put, With, Changes
  <1>4. o \in 0..Len(agent) /\ (o # NoAgent => agent[o].seq \in Nat)
    BY OccupantTyped DEF TypeInv
  <1>5. L'[l].pc = "judge" /\ L'[l].sample = o /\ L'[l].base = IF o = NoAgent THEN 0 ELSE agent[o].seq
    BY <1>1, FieldNames DEF Sample, LaunchOnly, At, Put, With
  <1> HIDE DEF o
  <1>6. L'[l].sample \in 0..Len(agent) /\ L'[l].base \in Nat
    BY <1>1, <1>4, <1>5 DEF LaunchTypes, NoAgent
  <1>7. Written(l, {"pc", "sample", "base"})
    BY <1>1, <1>3, <1>5, <1>6, FieldNames DEF Written, Changes, LaunchTypes, Codes
  <1> QED
    BY <1>1, <1>2, <1>7 DEF Typed, LaunchTypes

LEMMA ApplyProvisionalSnapshotTypes ==
    ASSUME TypeInv, HostInv, NEW l \in Launches, ApplyProvisionalSnapshot(l)
    PROVE  Typed(l)
  <1> DEFINE o == Occupant(L[l].pane)
  <1>1. DOMAIN L = Launches /\ DOMAIN L[l] = Fields /\ DOMAIN run = Launches /\ LaunchTypes(l)
    BY DEF TypeInv, SharedTypes, LaunchTypes, Fields
  <1>2. Shared /\ run' = run
    BY DEF ApplyProvisionalSnapshot, LaunchOnly, MarkProvisionalFailure, Watching, Rest, Calm, Trouble, Shared, TypeInv, SharedTypes, RecStates
  <1>3. \/ Put(l, [prov |-> [L[l].prov EXCEPT !.rejected = TRUE]])
        \/ Put(l, [prov |-> [L[l].prov EXCEPT !.native = FirstNative(l, o)]])
    BY DEF ApplyProvisionalSnapshot, LaunchOnly, MarkProvisionalFailure, Watching, EventAccepted
  <1>4. ASSUME NEW v, Put(l, [prov |-> v])
        PROVE  /\ L'[l].prov = v /\ L'[l].pc = L[l].pc /\ L'[l].todo = L[l].todo
               /\ Changes(l, {"prov"})
    BY <1>1, <1>4, FieldNames DEF Put, With, Changes
  <1>5. o \in 0..Len(agent) /\ (o # NoAgent => agent[o].seq \in Nat)
    BY OccupantTyped DEF TypeInv
  <1> HIDE DEF o
  <1>6. \/ L'[l].prov = [L[l].prov EXCEPT !.rejected = TRUE]
        \/ L'[l].prov = [L[l].prov EXCEPT !.native = FirstNative(l, o)]
    BY <1>3, <1>4
  <1>7. /\ L'[l].pc = L[l].pc /\ L'[l].todo = L[l].todo
        /\ Changes(l, {"prov"})
    BY <1>3, <1>4
  <1>8. L'[l].prov \in [seq : Nat, native : 0..Len(agent), rejected : BOOLEAN]
    BY <1>1, <1>5, <1>6 DEF LaunchTypes, NoAgent, NoProvisional, FirstNative
  <1>9. Written(l, {"prov"})
    BY <1>1, <1>7, <1>8, FieldNames DEF Written, LaunchTypes
  <1> QED
    BY <1>1, <1>2, <1>9 DEF Typed, LaunchTypes

LEMMA FoldProvisionalTypes ==
    ASSUME TypeInv, HostInv, NEW l \in Launches, FoldProvisional(l)
    PROVE  Typed(l)
  <1> DEFINE o == Occupant(L[l].pane)
  <1>1. DOMAIN L = Launches /\ DOMAIN L[l] = Fields /\ DOMAIN run = Launches /\ LaunchTypes(l)
    BY DEF TypeInv, SharedTypes, LaunchTypes, Fields
  <1>2. Shared /\ run' = run
    BY DEF FoldProvisional, LaunchOnly, MarkProvisionalFailure, Watching, Rest, Calm, Trouble, Shared, TypeInv, SharedTypes, RecStates
  <1>3. \/ Put(l, [prov |-> [L[l].prov EXCEPT !.rejected = TRUE]])
        \/ Put(l, [prov |-> [seq |-> agent[o].seq, native |-> FirstNative(l, o), rejected |-> FALSE]]) /\ o # NoAgent
    BY DEF FoldProvisional, LaunchOnly, MarkProvisionalFailure, Watching, EventAccepted
  <1>4. ASSUME NEW v, Put(l, [prov |-> v])
        PROVE  /\ L'[l].prov = v /\ L'[l].pc = L[l].pc /\ L'[l].todo = L[l].todo
               /\ Changes(l, {"prov"})
    BY <1>1, <1>4, FieldNames DEF Put, With, Changes
  <1>5. o \in 0..Len(agent) /\ (o # NoAgent => agent[o].seq \in Nat)
    BY OccupantTyped DEF TypeInv
  <1> HIDE DEF o
  <1>6. \/ L'[l].prov = [L[l].prov EXCEPT !.rejected = TRUE]
        \/ L'[l].prov = [seq |-> agent[o].seq, native |-> FirstNative(l, o), rejected |-> FALSE] /\ o # NoAgent
    BY <1>3, <1>4
  <1>7. /\ L'[l].pc = L[l].pc /\ L'[l].todo = L[l].todo
        /\ Changes(l, {"prov"})
    BY <1>3, <1>4
  <1>8. L'[l].prov \in [seq : Nat, native : 0..Len(agent), rejected : BOOLEAN]
    <2>1. CASE L'[l].prov = [L[l].prov EXCEPT !.rejected = TRUE]
      BY <1>1, <2>1 DEF LaunchTypes, NoProvisional
    <2>2. CASE L'[l].prov = [seq |-> agent[o].seq, native |-> FirstNative(l, o), rejected |-> FALSE] /\ o # NoAgent
      <3>1. FirstNative(l, o) \in 0..Len(agent)
        BY <1>1, <1>5 DEF LaunchTypes, FirstNative
      <3> QED
        BY <1>5, <2>2, <3>1 DEF NoProvisional
    <2> QED
      BY <1>6, <2>1, <2>2
  <1>9. Written(l, {"prov"})
    BY <1>1, <1>7, <1>8, FieldNames DEF Written, LaunchTypes
  <1> QED
    BY <1>1, <1>2, <1>9 DEF Typed, LaunchTypes

LEMMA BindProvisionalTypes ==
    ASSUME TypeInv, HostInv, NEW l \in Launches, BindProvisional(l)
    PROVE  Typed(l)
  <1> DEFINE o == Occupant(L[l].pane)
             v == [seq |-> L[l].base, rejected |-> FALSE, native |-> IF agent[o].native THEN o ELSE NoAgent]
  <1>1. DOMAIN L = Launches /\ DOMAIN L[l] = Fields /\ DOMAIN run = Launches /\ LaunchTypes(l)
    BY DEF TypeInv, SharedTypes, LaunchTypes, Fields
  <1>2. Shared /\ run' = run
    BY DEF BindProvisional, LaunchOnly, Rest, Calm, Trouble, Shared, TypeInv, SharedTypes, RecStates
  <1>3. Fails(l) \/ Put(l, [pc |-> "prompt", res |-> "provisional", prov |-> v])
    BY DEF BindProvisional, CommitProvisional
  <1>4. o \in 0..Len(agent)
    BY OccupantTyped DEF TypeInv
  <1> HIDE DEF o
  <1>5. v \in [seq : Nat, native : 0..Len(agent), rejected : BOOLEAN]
    BY <1>1, <1>4 DEF LaunchTypes, NoAgent, NoProvisional
  <1> HIDE DEF v
  <1>6. /\ Changes(l, {"pc", "res", "prov"}) /\ L'[l].pc \in {"failing", "prompt"}
        /\ L'[l].res \in {L[l].res, "provisional"} /\ L'[l].prov \in {L[l].prov, v}
    BY <1>1, <1>3, FieldNames DEF Fails, Put, With, Changes
  <1>7. Written(l, {"pc", "res", "prov"})
    BY <1>1, <1>5, <1>6, FieldNames DEF Written, LaunchTypes, Codes
  <1> QED
    BY <1>1, <1>2, <1>7 DEF Typed, LaunchTypes

LEMMA CommitStrengtheningTypes ==
    ASSUME TypeInv, HostInv, NEW l \in Launches, CommitStrengthening(l)
    PROVE  Typed(l)
  <1> DEFINE v == [L[l].prov EXCEPT !.rejected = TRUE]
  <1>1. DOMAIN L = Launches /\ DOMAIN L[l] = Fields /\ DOMAIN run = Launches /\ LaunchTypes(l)
    BY DEF TypeInv, SharedTypes, LaunchTypes, Fields
  <1>2. Shared /\ run' = run
    BY DEF CommitStrengthening, LaunchOnly, Rest, Calm, Trouble, Shared, TypeInv, SharedTypes, RecStates
  <1>3. \/ Put(l, [pc |-> "launched", res |-> "bound"])
        \/ Put(l, [pc |-> "failing", prov |-> v])
    BY DEF CommitStrengthening
  <1>4. v \in [seq : Nat, native : 0..Len(agent), rejected : BOOLEAN]
    BY <1>1 DEF LaunchTypes, NoProvisional
  <1> HIDE DEF v
  <1>5. /\ Changes(l, {"pc", "res", "prov"}) /\ L'[l].pc \in {"failing", "launched"}
        /\ L'[l].res \in {L[l].res, "bound"} /\ L'[l].prov \in {L[l].prov, v}
    BY <1>1, <1>3, FieldNames DEF Put, With, Changes
  <1>6. Written(l, {"pc", "res", "prov"})
    BY <1>1, <1>4, <1>5, FieldNames DEF Written, LaunchTypes, Codes
  <1> QED
    BY <1>1, <1>2, <1>6 DEF Typed, LaunchTypes


-----------------------------------------------------------------------------
(* The same for the steps that compute what they write. *)
LEMMA ReadbackTypes ==
    ASSUME TypeInv, HostInv, NEW l \in Launches, Readback(l)
    PROVE  Typed(l)
  <1>1. DOMAIN L = Launches /\ DOMAIN L[l] = Fields /\ DOMAIN run = Launches /\ LaunchTypes(l)
    BY DEF TypeInv, SharedTypes, LaunchTypes, Fields
  <1>2. Shared /\ run' = run
    BY DEF Readback, LaunchOnly, Rest, Calm, Trouble, Shared, TypeInv, SharedTypes, RecStates
  <1>3. \E found \in BOOLEAN, unread \in BOOLEAN :
          Put(l, [pc |-> "release", cert |-> LaunchEffectCertainty(L[l], found, unread)])
    BY DEF Readback
  <1>4. PICK found \in BOOLEAN, unread \in BOOLEAN :
          Put(l, [pc |-> "release", cert |-> LaunchEffectCertainty(L[l], found, unread)])
    BY <1>3
  <1>5. LaunchEffectCertainty(L[l], found, unread) \in {"absent", "partial", "unknown"}
    BY DEF LaunchEffectCertainty
  <1>6. L'[l].pc = "release" /\ L'[l].cert \in {"absent", "partial", "unknown"} /\ Changes(l, {"pc", "cert"})
    BY <1>1, <1>4, <1>5, FieldNames DEF Put, With, Changes
  <1>7. Written(l, {"pc", "cert"})
    BY <1>1, <1>6, FieldNames DEF Written, LaunchTypes, Codes
  <1> QED
    BY <1>1, <1>2, <1>7 DEF Typed, LaunchTypes

LEMMA ReconcileTypes ==
    ASSUME TypeInv, HostInv, NEW l \in Launches, Reconcile(l)
    PROVE  Typed(l)
  <1> DEFINE new == OpenPanes \ L[l].seen
             cand == IF L[l].pane # NoPane THEN L[l].pane ELSE IF new = {} THEN NoPane ELSE Min(new)
             made == cand \in new \/ (TabIsNew(l, L[l].tab) /\ PanesIn(L[l].tab, OpenPanes) # {})
             found == [cand |-> cand, made |-> made,
                       snapshot |-> IF cand \in OpenPanes THEN "present" ELSE "absent"]
             unread == [NoLook EXCEPT !.cand = L[l].pane]
  <1>1. DOMAIN L = Launches /\ DOMAIN L[l] = Fields /\ DOMAIN run = Launches /\ LaunchTypes(l)
    BY DEF TypeInv, SharedTypes, LaunchTypes, Fields
  <1>2. Shared /\ run' = run
    BY DEF Reconcile, LaunchOnly, Rest, Calm, Trouble, Shared, TypeInv, SharedTypes, RecStates
  <1>3. \/ Put(l, [pc |-> "release", cert |-> "absent"])
        \/ Put(l, [pc |-> "reading", look |-> found])
        \/ Put(l, [pc |-> "reading", look |-> unread])
    BY DEF Reconcile
  <1>4. cand \in 0..MaxPanes
    <2>1. new \in SUBSET Nat /\ \A p \in new : p \in 0..MaxPanes
      BY HostShape DEF TypeInv
    <2>2. new # {} => Min(new) \in new
      <3> HIDE DEF new
      <3> QED
        BY <2>1, FirstNumber
    <2>3. L[l].pane \in 0..MaxPanes /\ NoPane \in 0..MaxPanes
      BY <1>1, HostShape DEF TypeInv, LaunchTypes, NoPane
    <2> HIDE DEF new
    <2> QED
      BY <2>1, <2>2, <2>3
  <1>5. made \in BOOLEAN
    OBVIOUS
  <1> HIDE DEF cand, made
  <1>6. /\ DOMAIN found = DOMAIN NoLook /\ found.cand \in 0..MaxPanes /\ found.made \in BOOLEAN
        /\ found.snapshot \in {"present", "absent", "failed"}
    BY <1>4, <1>5 DEF NoLook
  <1>7. /\ DOMAIN unread = DOMAIN NoLook /\ unread.cand \in 0..MaxPanes /\ unread.made \in BOOLEAN
        /\ unread.snapshot \in {"present", "absent", "failed"}
    BY <1>1 DEF NoLook, LaunchTypes
  <1> HIDE DEF found, unread
  <1>8. /\ L'[l].pc \in {"release", "reading"} /\ L'[l].cert \in {L[l].cert, "absent"}
        /\ L'[l].look \in {L[l].look, found, unread} /\ Changes(l, {"pc", "cert", "look"})
    BY <1>1, <1>3, FieldNames DEF Put, With, Changes
  <1>9. /\ DOMAIN L'[l].look = DOMAIN NoLook /\ L'[l].look.cand \in 0..MaxPanes /\ L'[l].look.made \in BOOLEAN
        /\ L'[l].look.snapshot \in {"present", "absent", "failed"}
    BY <1>1, <1>6, <1>7, <1>8 DEF LaunchTypes
  <1>10. Written(l, {"pc", "cert", "look"})
    BY <1>1, <1>8, <1>9, FieldNames DEF Written, LaunchTypes, Codes
  <1> QED
    BY <1>1, <1>2, <1>10 DEF Typed, LaunchTypes

LEMMA TiersStay ==
    ASSUME NEW floor \in Tiers, NEW asked \in 0..MaxTier, NEW prior, IsRun(prior)
    PROVE  EffectiveStartTier(floor, asked, RecoveryMinimum(prior)) \in Tiers
  <1>1. MaxTier \in Nat \ {0} /\ floor \in 1..MaxTier
    BY RoutingAssumption DEF Tiers
  <1>2. prior.tier \in 0..MaxTier
    BY DEF IsRun
  <1>3. \A t \in 0..MaxTier : NextTier(t) \in 1..MaxTier
    BY <1>1 DEF NextTier
  <1>4. RecoveryMinimum(prior) \in 0..MaxTier
    BY <1>1, <1>2, <1>3 DEF RecoveryMinimum, NoTier
  <1> DEFINE least == RecoveryMinimum(prior)
  <1>5. least \in 0..MaxTier
    BY <1>4
  <1> HIDE DEF least
  <1>6. EffectiveStartTier(floor, asked, least) \in 1..MaxTier
    BY <1>1, <1>3, <1>5 DEF EffectiveStartTier, MaxOf
  <1> QED
    BY <1>6 DEF least, Tiers

LEMMA RouteTypes ==
    ASSUME TypeInv, HostInv, NEW l \in Launches, Route(l)
    PROVE  Typed(l)
  <1>1. DOMAIN L = Launches /\ DOMAIN L[l] = Fields /\ DOMAIN run = Launches /\ LaunchTypes(l)
    BY DEF TypeInv, SharedTypes, LaunchTypes, Fields
  <1>2. Shared /\ run' = run
    BY DEF Route, LaunchOnly, Rest, Calm, Trouble, Shared, TypeInv, SharedTypes, RecStates
  <1>3. \A t \in Tiers : Routes(Routing(ChainIds[t]))
    <2> TAKE t \in Tiers
    <2>1. ChainIds[t] \in Seq(Points)
      BY ChainsAreOfPoints
    <2> QED
      BY <2>1 DEF Routes, Routing, NoRoute
  <1>4. Routes(NoRoute)
    BY DEF Routes, NoRoute
  <1>5. \A t \in Tiers : t \in 0..MaxTier
    BY RoutingAssumption DEF Tiers
  <1>6. \/ \E t \in Tiers : Put(l, [pc |-> "probe", tier |-> t, r |-> Routing(ChainIds[t])])
        \/ Put(l, [pc |-> "boundary", r |-> NoRoute])
    <2>1. CASE Put(l, [pc |-> "boundary", r |-> NoRoute])
      BY <2>1
    <2>2. CASE \E floor \in Tiers : Judged(l, floor)
      <3>1. PICK floor \in Tiers : Judged(l, floor)
        BY <2>2
      <3> DEFINE t == EffectiveStartTier(floor, L[l].asked, RecoveryMinimum(L[l].prior))
      <3>2. t \in Tiers
        BY <1>1, TiersStay DEF LaunchTypes
      <3>3. Put(l, [pc |-> "probe", tier |-> t, r |-> Routing(ChainIds[t])])
        BY <3>1 DEF Judged
      <3> HIDE DEF t
      <3> QED
        BY <3>2, <3>3
    <2> QED
      BY <2>1, <2>2 DEF Route
  <1>7. CASE Put(l, [pc |-> "boundary", r |-> NoRoute])
    <2>1. L'[l].pc = "boundary" /\ L'[l].r = NoRoute /\ Changes(l, {"pc", "r"})
      BY <1>1, <1>7, FieldNames DEF Put, With, Changes
    <2>2. Written(l, {"pc", "r"})
      BY <1>1, <1>4, <2>1, FieldNames DEF Written, LaunchTypes, Codes
    <2> QED
      BY <1>1, <1>2, <2>2 DEF Typed, LaunchTypes
  <1>8. CASE \E t \in Tiers : Put(l, [pc |-> "probe", tier |-> t, r |-> Routing(ChainIds[t])])
    <2>1. PICK t \in Tiers : Put(l, [pc |-> "probe", tier |-> t, r |-> Routing(ChainIds[t])])
      BY <1>8
    <2>2. /\ L'[l].pc = "probe" /\ L'[l].tier = t /\ L'[l].r = Routing(ChainIds[t])
          /\ Changes(l, {"pc", "tier", "r"})
      BY <1>1, <2>1, FieldNames DEF Put, With, Changes
    <2>3. Written(l, {"pc", "tier", "r"})
      BY <1>1, <1>3, <1>5, <2>2, FieldNames DEF Written, LaunchTypes, Codes
    <2> QED
      BY <1>1, <1>2, <2>3 DEF Typed, LaunchTypes
  <1> QED
    BY <1>6, <1>7, <1>8

LEMMA ProbeTypes ==
    ASSUME TypeInv, HostInv, NEW l \in Launches, Probe(l)
    PROVE  Typed(l)
  <1> DEFINE r == L[l].r
             p == Head(r.todo)
  <1>1. DOMAIN L = Launches /\ DOMAIN L[l] = Fields /\ DOMAIN run = Launches /\ LaunchTypes(l)
    BY DEF TypeInv, SharedTypes, LaunchTypes, Fields
  <1>2. Shared /\ run' = run
    BY DEF Probe, LaunchOnly, Rest, Calm, Trouble, Shared, TypeInv, SharedTypes, RecStates
  <1>3. /\ r.chain \in Seq(Points) /\ r.todo \in Seq(Points) /\ r.todo # <<>> /\ DOMAIN r = DOMAIN NoRoute
        /\ L[l].pc = "probe"
    BY DEF TypeInv, LaunchTypes, Routes, Probe, At
  <1>4. \/ Put(l, [r |-> Skipped(r)])
        \/ Put(l, [r |-> Probed(r, p, Status(p))])
        \/ Put(l, [pc |-> "boundary", r |-> NoRoute])
    BY DEF Probe
  <1>5. p \in Points /\ Tail(r.todo) \in Seq(Points)
    BY <1>3
  <1> HIDE DEF r, p
  <1>6. Routes(Skipped(r)) /\ Routes(NoRoute)
    BY <1>3, <1>5 DEF Routes, Skipped, NoRoute
  <1>7. Routes(Probed(r, p, Status(p)))
    <2>1. Append(r.chain, p) \in Seq(Points)
      BY <1>3, <1>5
    <2> QED
      BY <1>3, <1>5, <2>1 DEF Routes, Probed, NoRoute
  <1>8. ASSUME NEW v, Routes(v), Put(l, [r |-> v]) \/ Put(l, [pc |-> "boundary", r |-> v])
        PROVE  Written(l, {"pc", "r"})
    <2>1. L'[l].pc \in {"probe", "boundary"} /\ L'[l].r = v /\ Changes(l, {"pc", "r"})
      BY <1>1, <1>3, <1>8, FieldNames DEF Put, With, Changes
    <2> QED
      BY <1>1, <1>8, <2>1, FieldNames DEF Written, LaunchTypes, Codes
  <1>9. Written(l, {"pc", "r"})
    BY <1>4, <1>6, <1>7, <1>8
  <1> QED
    BY <1>1, <1>2, <1>9 DEF Typed, LaunchTypes

LEMMA RoutedTypes ==
    ASSUME TypeInv, HostInv, NEW l \in Launches, Routed(l)
    PROVE  Typed(l)
  <1>1. DOMAIN L = Launches /\ DOMAIN L[l] = Fields /\ DOMAIN run = Launches /\ LaunchTypes(l)
    BY DEF TypeInv, SharedTypes, LaunchTypes, Fields
  <1>2. Shared /\ run' = run
    BY DEF Routed, LaunchOnly, Rest, Calm, Trouble, Shared, TypeInv, SharedTypes, RecStates
  <1>3. ChainOf(L[l].r, L[l].exact) \in Seq(Points)
    <2>1. L[l].r.chain \in Seq(Points) /\ L[l].exact \in Points \union {NoPoint}
      BY <1>1 DEF LaunchTypes, Routes
    <2>2. CASE L[l].exact = NoPoint
      <3>1. ~Contains(L[l].r.chain, L[l].exact)
        BY <2>1, <2>2, RoutingAssumption DEF Contains
      <3> QED
        BY <2>1, <2>2, <3>1 DEF ChainOf
    <2>3. CASE L[l].exact # NoPoint /\ Contains(L[l].r.chain, L[l].exact)
      <3>1. <<L[l].exact>> \in Seq(Points)
        BY <2>1, <2>3
      <3> QED
        BY <2>3, <3>1 DEF ChainOf
    <2>4. CASE L[l].exact # NoPoint /\ ~Contains(L[l].r.chain, L[l].exact)
      BY <2>4 DEF ChainOf
    <2> QED
      BY <2>2, <2>3, <2>4
  <1>4. /\ L'[l].pc = "boundary" /\ L'[l].todo \in {L[l].todo, ChainOf(L[l].r, L[l].exact)}
        /\ Changes(l, {"pc", "todo"})
    BY <1>1, FieldNames DEF Routed, Put, With, Changes
  <1>5. Written(l, {"pc", "todo"})
    BY <1>1, <1>3, <1>4, FieldNames DEF Written, LaunchTypes, Codes
  <1> QED
    BY <1>1, <1>2, <1>5 DEF Typed, LaunchTypes


LEMMA AttemptTypes ==
    ASSUME TypeInv, HostInv, NEW l \in Launches, Attempt(l)
    PROVE  Typed(l)
  <1> DEFINE todo == L[l].todo
  <1>1. DOMAIN L = Launches /\ DOMAIN L[l] = Fields /\ DOMAIN run = Launches /\ LaunchTypes(l)
    BY DEF TypeInv, SharedTypes, LaunchTypes, Fields
  <1>2. Shared /\ run' = run
    BY DEF Attempt, LaunchOnly, Rest, Calm, Trouble, Shared, TypeInv, SharedTypes, RecStates
  <1>3. /\ L[l].pc = "attempt"
        /\ \/ Fails(l)
           \/ /\ todo # <<>>
              /\ \/ Put(l, [todo |-> Tail(todo)])
                 \/ Put(l, With([todo |-> Tail(todo)], [pc |-> "start", cur |-> Head(todo)]))
    BY DEF Attempt, At
  <1>4. todo \in Seq(Points)
    BY <1>1 DEF LaunchTypes
  <1> HIDE DEF todo
  <1>5. todo # <<>> => Tail(todo) \in Seq(Points) /\ Head(todo) \in Points
    BY <1>4
  <1>6. CASE Fails(l)
    <2>1. L'[l].pc = "failing" /\ Changes(l, {"pc"})
      BY <1>1, <1>6, FieldNames DEF Fails, Put, With, Changes
    <2>2. Written(l, {"pc"})
      BY <2>1 DEF Written, Codes
    <2> QED
      BY <1>1, <1>2, <2>2 DEF Typed, LaunchTypes
  <1>7. CASE todo # <<>> /\ Put(l, [todo |-> Tail(todo)])
    <2>1. L'[l].todo = Tail(todo) /\ L'[l].pc = L[l].pc /\ Changes(l, {"todo"})
      BY <1>1, <1>7, FieldNames DEF Put, With, Changes
    <2>2. Written(l, {"todo"})
      BY <1>3, <1>5, <1>7, <2>1 DEF Written, Codes
    <2> QED
      BY <1>1, <1>2, <2>2 DEF Typed, LaunchTypes
  <1>8. CASE todo # <<>> /\ Put(l, With([todo |-> Tail(todo)], [pc |-> "start", cur |-> Head(todo)]))
    <2>1. L'[l].todo = Tail(todo) /\ L'[l].pc = "start" /\ L'[l].cur = Head(todo) /\ Changes(l, {"pc", "cur", "todo"})
      BY <1>1, <1>8, FieldNames DEF Put, With, Changes
    <2>2. Written(l, {"pc", "cur", "todo"})
      BY <1>5, <1>8, <2>1 DEF Written, Codes
    <2> QED
      BY <1>1, <1>2, <2>2 DEF Typed, LaunchTypes
  <1> QED
    BY <1>3, <1>6, <1>7, <1>8

LEMMA ChildTypes ==
    ASSUME TypeInv, HostInv, NEW l \in Launches, Child(l)
    PROVE  Typed(l)
  <1>1. DOMAIN L = Launches /\ DOMAIN L[l] = Fields /\ DOMAIN run = Launches /\ LaunchTypes(l)
    BY DEF TypeInv, SharedTypes, LaunchTypes, Fields
  <1>2. Shared /\ run' = run /\ L[l].pc = "child"
    BY DEF Child, At, LaunchOnly, Rest, Calm, Trouble, Shared, TypeInv, SharedTypes, RecStates
  <1>3. OpenPanes \subseteq DOMAIN pane
    BY DEF OpenPanes
  <1>4. L[l].todo \in Seq(Points) /\ L[l].todo # <<>>
    BY <1>1, <1>2 DEF LaunchTypes
  <1>5. \/ Put(l, [pc |-> "failed"])
        \/ EarlyFailure(l)
        \/ Put(l, [pc |-> "prepare", seen |-> OpenPanes])
        \/ \E dropped \in 2..Len(L[l].todo) :
             Put(l, [pc |-> "prepare", seen |-> OpenPanes, todo |-> RemoveAt(L[l].todo, dropped)])
    BY DEF Child
  <1>6. CASE Put(l, [pc |-> "failed"]) \/ EarlyFailure(l)
    <2>1. /\ L'[l].pc = "failed" /\ L'[l].cert \in {L[l].cert, "absent"} /\ L'[l].res \in {L[l].res, "released"}
          /\ Changes(l, {"pc", "cert", "res"})
      BY <1>1, <1>6, FieldNames DEF EarlyFailure, Put, With, Changes
    <2>2. Written(l, {"pc", "cert", "res"})
      BY <1>1, <2>1 DEF Written, LaunchTypes, Codes
    <2> QED
      BY <1>1, <1>2, <2>2 DEF Typed, LaunchTypes
  <1>7. CASE Put(l, [pc |-> "prepare", seen |-> OpenPanes])
    <2>1. /\ L'[l].pc = "prepare" /\ L'[l].seen = OpenPanes /\ L'[l].todo = L[l].todo
          /\ Changes(l, {"pc", "seen"})
      BY <1>1, <1>7, FieldNames DEF Put, With, Changes
    <2>2. Written(l, {"pc", "seen"})
      BY <1>3, <1>4, <2>1 DEF Written, Codes
    <2> QED
      BY <1>1, <1>2, <2>2 DEF Typed, LaunchTypes
  <1>8. ASSUME NEW dropped \in 2..Len(L[l].todo),
               Put(l, [pc |-> "prepare", seen |-> OpenPanes, todo |-> RemoveAt(L[l].todo, dropped)])
        PROVE  Typed(l)
    <2>1. RemoveAt(L[l].todo, dropped) \in Seq(Points) /\ RemoveAt(L[l].todo, dropped) # <<>>
      BY <1>4, Dropping
    <2>2. /\ L'[l].pc = "prepare" /\ L'[l].seen = OpenPanes /\ L'[l].todo = RemoveAt(L[l].todo, dropped)
          /\ Changes(l, {"pc", "seen", "todo"})
      BY <1>1, <1>8, FieldNames DEF Put, With, Changes
    <2>3. Written(l, {"pc", "seen", "todo"})
      BY <1>3, <2>1, <2>2 DEF Written, Codes
    <2> QED
      BY <1>1, <1>2, <2>3 DEF Typed, LaunchTypes
  <1> QED
    BY <1>5, <1>6, <1>7, <1>8

LEMMA PrepareTypes ==
    ASSUME TypeInv, HostInv, NEW l \in Launches, Prepare(l)
    PROVE  Typed(l)
  <1> DEFINE persisted == [point |-> Head(L[l].todo), tier |-> L[l].tier, limited |-> FALSE,
                           st |-> "awaiting_handoff"]
  <1>1. DOMAIN L = Launches /\ DOMAIN L[l] = Fields /\ DOMAIN run = Launches /\ LaunchTypes(l)
    BY DEF TypeInv, SharedTypes, LaunchTypes, Fields
  <1>2. Shared /\ L[l].pc = "prepare"
    BY DEF Prepare, At, Rest, Calm, Trouble, Shared, TypeInv, SharedTypes, RecStates
  <1>3. run' = run \/ run' = [run EXCEPT ![l] = persisted]
    BY DEF Prepare
  <1>4. IsRun(run'[l])
    <2>1. Head(L[l].todo) \in Points /\ L[l].tier \in 0..MaxTier
      BY <1>1, <1>2 DEF LaunchTypes
    <2>2. IsRun(persisted)
      BY <2>1, RoutingAssumption DEF IsRun, NoRun, NoPrior, RunStates
    <2>3. IsRun(run[l])
      BY <1>1 DEF LaunchTypes
    <2> HIDE DEF persisted
    <2> QED
      BY <1>1, <1>3, <2>2, <2>3
  <1>5. Put(l, [pc |-> "place", res |-> "reserved"]) \/ EarlyFailure(l)
    BY DEF Prepare
  <1>6. /\ L'[l].pc \in {"place", "failed"} /\ L'[l].res \in {"reserved", "released"}
        /\ L'[l].cert \in {L[l].cert, "absent"} /\ Changes(l, {"pc", "res", "cert"})
    BY <1>1, <1>5, FieldNames DEF EarlyFailure, Put, With, Changes
  <1>7. Written(l, {"pc", "res", "cert"})
    BY <1>1, <1>6 DEF Written, LaunchTypes, Codes
  <1> QED
    BY <1>2, <1>4, <1>7 DEF Typed

LEMMA PlaceTypes ==
    ASSUME TypeInv, HostInv, NEW l \in Launches, Place(l)
    PROVE  Typed(l)
  <1> DEFINE tab == SelectWorkloadTab(l)
  <1>1. DOMAIN L = Launches /\ DOMAIN L[l] = Fields /\ DOMAIN run = Launches /\ LaunchTypes(l)
    BY DEF TypeInv, SharedTypes, LaunchTypes, Fields
  <1>2. Shared /\ run' = run
    BY DEF Place, Rest, Calm, Trouble, Shared, TypeInv, SharedTypes, RecStates
  <1>3. \/ Fails(l)
        \/ Put(l, With([dispatched |-> TRUE], [pc |-> "failing"]))
        \/ Len(pane) < MaxPanes /\ Put(l, With(PlacedRefs(l), [pc |-> "shell", dispatched |-> TRUE]))
        \/ Put(l, With(With(TabRef(l), [dispatched |-> TRUE]), [pc |-> "failing"]))
    BY DEF Place, Failing
  <1>4. tab \in Nat
    BY TabIsNumber
  <1>5. Len(pane) < MaxPanes => Len(pane) + 1 \in 0..MaxPanes
    BY HostShape DEF TypeInv
  <1> HIDE DEF tab
  <1>7. /\ L'[l].pc \in {"failing", "shell"} /\ L'[l].dispatched \in {L[l].dispatched, TRUE}
        /\ L'[l].tab \in {L[l].tab, tab}
        /\ L'[l].pane = L[l].pane \/ (Len(pane) < MaxPanes /\ L'[l].pane = Len(pane) + 1)
        /\ Changes(l, {"pc", "dispatched", "pane", "tab"})
    <2>1. CASE Fails(l)
      BY <1>1, <2>1, FieldNames DEF Fails, Put, With, Changes
    <2>2. CASE Put(l, With([dispatched |-> TRUE], [pc |-> "failing"]))
      BY <1>1, <2>2, FieldNames DEF Put, With, Changes
    <2>3. CASE Len(pane) < MaxPanes /\ Put(l, With(PlacedRefs(l), [pc |-> "shell", dispatched |-> TRUE]))
      BY <1>1, <2>3, FieldNames DEF Put, With, Changes, PlacedRefs, tab
    <2>4. CASE Put(l, With(With(TabRef(l), [dispatched |-> TRUE]), [pc |-> "failing"]))
      BY <1>1, <2>4, FieldNames DEF Put, With, Changes, TabRef, tab
    <2> QED
      BY <1>3, <2>1, <2>2, <2>3, <2>4
  <1>8. L'[l].tab \in Nat /\ L'[l].pane \in 0..MaxPanes /\ L'[l].dispatched \in BOOLEAN
    BY <1>1, <1>4, <1>5, <1>7 DEF LaunchTypes
  <1>9. Written(l, {"pc", "dispatched", "pane", "tab"})
    BY <1>7, <1>8 DEF Written, Codes
  <1> QED
    BY <1>1, <1>2, <1>9 DEF Typed, LaunchTypes


(* What a failure or a limit adds to the cooldown log is a record. *)
LEMMA RecordsAreTyped ==
    ASSUME cool \subseteq Records, NEW p \in Points
    PROVE  /\ \A code : Recorded(p, code) \subseteq Records
           /\ \A signaled \in BOOLEAN : RecordedLimit(p, signaled, TRUE) \subseteq Records
  <1>1. \A class \in Classes, signaled \in BOOLEAN, active \in BOOLEAN :
          NewRecord(p, class, signaled, active) \in Records
    BY DEF NewRecord, Records
  <1>2. \A code : ClassifyLaunchFailure(code) \in Classes
    BY DEF ClassifyLaunchFailure, Classes
  <1>3. "quota" \in Classes
    BY DEF Classes
  <1>4. \A code : NewRecord(p, ClassifyLaunchFailure(code), FALSE, TRUE) \in Records
    BY <1>1, <1>2
  <1>5. \A signaled \in BOOLEAN : NewRecord(p, "quota", signaled, TRUE \/ ~signaled) \in Records
    BY <1>1, <1>3
  <1> QED
    BY <1>4, <1>5 DEF Recorded, RecordedLimit

LEMMA StartTypes ==
    ASSUME IInv, NEW l \in Launches, Start(l)
    PROVE  Typed(l)
  <1>0. TypeInv /\ HostInv /\ ChildInv(l)
    BY DEF IInv, LaunchesInv, ChildrenInv
  <1>1. DOMAIN L = Launches /\ DOMAIN L[l] = Fields /\ DOMAIN run = Launches /\ LaunchTypes(l)
    BY <1>0 DEF TypeInv, SharedTypes, LaunchTypes, Fields
  <1>2. L[l].cur \in Points
    BY <1>0 DEF Start, At, ChildInv
  <1>3. cool' \subseteq Records
    <2>1. cool \subseteq Records
      BY <1>0 DEF TypeInv, SharedTypes
    <2>2. cool' = cool \/ \E code : cool' = Recorded(L[l].cur, code)
      BY <1>0, StartDoes
    <2> QED
      BY <1>2, <2>1, <2>2, RecordsAreTyped
  <1>4. trouble' = trouble \/ (trouble > 0 /\ trouble' = trouble - 1)
    BY DEF Start, StartAnswered, Calm, Trouble
  <1>5. Shared /\ run' = run
    BY <1>0, <1>3, <1>4 DEF Start, Rest, Shared, TypeInv, SharedTypes, RecStates
  <1>6. L'[l].startRec \in 0..Len(agent')
    <2>1. HostTypes' /\ Grows /\ HostTypes
      BY <1>0, StartKeeps DEF TypeInv
    <2>2. Len(agent) \in Nat /\ Len(agent') \in Nat /\ Len(agent) <= Len(agent')
      BY <2>1, HostShape DEF Grows, HostTypes
    <2>3. L[l].startRec \in 0..Len(agent)
      BY <1>1 DEF LaunchTypes
    <2>4. CASE L'[l].startRec \in {L[l].startRec, NoAgent}
      BY <2>2, <2>3, <2>4 DEF NoAgent
    <2>5. CASE L'[l].startRec = Len(agent) + 1 /\ L'[l].pc = "select"
      <3>1. agent' = Spawned(l)
        BY <1>0, <2>5, StartDoes
      <3>2. Len(agent') = Len(agent) + 1
        BY <2>1, <3>1 DEF Spawned, Started, HostTypes
      <3> QED
        BY <2>2, <2>5, <3>2
    <2> QED
      BY <1>0, <2>4, <2>5, StartDoes
  <1>7. /\ L'[l].pc \in {"select", "start_failed", "failing"} /\ L'[l].dispatched = TRUE
        /\ L'[l].started \in BOOLEAN /\ Changes(l, {"pc", "dispatched", "started", "startRec"})
    BY <1>0, StartDoes
  <1>8. Written(l, {"pc", "dispatched", "started", "startRec"})
    BY <1>6, <1>7 DEF Written, Codes
  <1> QED
    BY <1>1, <1>5, <1>8 DEF Typed, LaunchTypes

LEMMA SelectTypes ==
    ASSUME TypeInv, HostInv, NEW l \in Launches, ChildInv(l), Select(l)
    PROVE  Typed(l)
  <1>1. DOMAIN L = Launches /\ DOMAIN L[l] = Fields /\ DOMAIN run = Launches /\ LaunchTypes(l)
    BY DEF TypeInv, SharedTypes, LaunchTypes, Fields
  <1>2. Shared
    BY DEF Select, Fails, Rest, Calm, Trouble, Shared, TypeInv, SharedTypes, RecStates
  <1>3. L[l].cur \in Points
    BY DEF Select, At, ChildInv, Begun
  <1>4. run' = run \/ run' = [run EXCEPT ![l] = SelectCandidate(run[l], L[l].cur)]
    BY DEF Select
  <1>5. IsRun(run[l])
    BY <1>1 DEF LaunchTypes
  <1>6. IsRun(SelectCandidate(run[l], L[l].cur))
    BY <1>3, <1>5, RoutingAssumption DEF IsRun, SelectCandidate, NoRun, NoPrior
  <1>7. IsRun(run'[l])
    <2>1. run'[l] = run[l] \/ run'[l] = SelectCandidate(run[l], L[l].cur)
      BY <1>1, <1>4
    <2> QED
      BY <1>5, <1>6, <2>1
  <1>8. L'[l].pc \in {"ready", "failing"} /\ Changes(l, {"pc"})
    BY <1>1, FieldNames DEF Select, Fails, Put, With, Changes
  <1>9. Written(l, {"pc"})
    BY <1>8 DEF Written, Codes
  <1> QED
    BY <1>2, <1>7, <1>9 DEF Typed

LEMMA PromptTypes ==
    ASSUME TypeInv, HostInv, NEW l \in Launches, Prompt(l)
    PROVE  Typed(l)
  <1>1. DOMAIN L = Launches /\ DOMAIN L[l] = Fields /\ DOMAIN run = Launches /\ LaunchTypes(l)
    BY DEF TypeInv, SharedTypes, LaunchTypes, Fields
  <1>2. Shared /\ run' = run
    BY DEF Prompt, Failing, Rest, Calm, Trouble, Shared, TypeInv, SharedTypes, RecStates
  <1>3. L'[l].ack \in 0..Len(agent)
    <2>1. L'[l].ack \in {L[l].ack, Occupant(L[l].pane)}
      BY PromptDoes
    <2>2. Occupant(L[l].pane) \in 0..Len(agent)
      BY OccupantTyped DEF TypeInv
    <2> QED
      BY <1>1, <2>1, <2>2 DEF LaunchTypes
  <1>4. L'[l].pc \in {"confirm", "failing"} /\ Changes(l, {"pc", "hook", "submitted", "ack"})
    BY PromptDoes
  <1>5. Written(l, {"pc", "hook", "submitted", "ack"})
    BY <1>3, <1>4 DEF Written, Codes
  <1> QED
    BY <1>1, <1>2, <1>5 DEF Typed, LaunchTypes

LEMMA ConcludeTypes ==
    ASSUME TypeInv, HostInv, NEW l \in Launches, Conclude(l)
    PROVE  Typed(l)
  <1>1. DOMAIN L = Launches /\ DOMAIN L[l] = Fields /\ DOMAIN run = Launches /\ LaunchTypes(l)
    BY DEF TypeInv, SharedTypes, LaunchTypes, Fields
  <1>2. Shared /\ L' = L
    BY DEF Conclude, Rest, Calm, Shared, TypeInv, SharedTypes, RecStates
  <1>3. IsRun(run[l]) /\ run[l].st = "awaiting_handoff"
    BY <1>1 DEF LaunchTypes, Conclude
  <1>4. PICK st \in {"handed_off", "recovery_pending"} : run' = [run EXCEPT ![l].st = st]
    BY DEF Conclude
  <1>5. run'[l] = [run[l] EXCEPT !.st = st]
    BY <1>1, <1>4
  <1>6. IsRun(run'[l])
    BY <1>3, <1>5 DEF IsRun, NoRun, NoPrior, RunStates, Terminal
  <1>7. Written(l, {})
    BY <1>1, <1>2 DEF Written, Changes, LaunchTypes
  <1> QED
    BY <1>2, <1>6, <1>7 DEF Typed


(* A supervised child has a point, and so has its run. *)
LEMMA SupervisedHasPoint ==
    ASSUME NEW l \in Launches, ChildInv(l), PromptInv(l), L[l].res = "bound"
    PROVE  L[l].ident # NoAgent /\ L[l].cur \in Points /\ run[l].point \in Points
  <1>1. L[l].ident # NoAgent
    BY DEF PromptInv, Bound
  <1> QED
    BY <1>1 DEF ChildInv

(* How a run with a point may end. *)
LEMMA EndedIsRun ==
    ASSUME NEW r, IsRun(r), r.point \in Points
    PROVE  /\ \A st \in RunStates : IsRun([r EXCEPT !.st = st])
           /\ IsRun([r EXCEPT !.st = "failed", !.limited = TRUE])
  BY RoutingAssumption DEF IsRun, NoRun, NoPrior, RunStates, Terminal

LEMMA CompletionSignalTypes ==
    ASSUME TypeInv, HostInv, NEW l \in Launches, ChildInv(l), PromptInv(l), CompletionSignal(l)
    PROVE  Typed(l)
  <1>1. DOMAIN L = Launches /\ DOMAIN L[l] = Fields /\ DOMAIN run = Launches /\ LaunchTypes(l)
    BY DEF TypeInv, SharedTypes, LaunchTypes, Fields
  <1>2. cool' \subseteq Records
    <2>1. cool \subseteq Records
      BY DEF TypeInv, SharedTypes
    <2>2. cool' = cool \/ \E signaled \in BOOLEAN : cool' = RecordedLimit(L[l].cur, signaled, TRUE)
      BY DEF CompletionSignal
    <2>3. L[l].cur \in Points
      BY SupervisedHasPoint DEF CompletionSignal
    <2> QED
      BY <2>1, <2>2, <2>3, RecordsAreTyped
  <1>3. Shared /\ run' = run
    BY <1>2 DEF CompletionSignal, Rest, Calm, Trouble, Shared, TypeInv, SharedTypes, RecStates
  <1>4. Changes(l, {"limited"})
    BY <1>1, FieldNames DEF CompletionSignal, Put, With, Changes
  <1>5. Written(l, {"limited"})
    BY <1>1, <1>4, FieldNames DEF Written, Changes, LaunchTypes
  <1> QED
    BY <1>1, <1>3, <1>5 DEF Typed, LaunchTypes

LEMMA SettleTypes ==
    ASSUME TypeInv, HostInv, NEW l \in Launches, ChildInv(l), PromptInv(l), Settle(l)
    PROVE  Typed(l)
  <1>1. DOMAIN L = Launches /\ DOMAIN L[l] = Fields /\ DOMAIN run = Launches /\ LaunchTypes(l)
    BY DEF TypeInv, SharedTypes, LaunchTypes, Fields
  <1>2. Shared
    BY DEF Settle, Rest, Calm, Trouble, Shared, TypeInv, SharedTypes, RecStates
  <1>3. \/ run' = run
        \/ run' = [run EXCEPT ![l].st = "failed", ![l].limited = TRUE]
        \/ run' = [run EXCEPT ![l].st = "cancelled"]
    BY DEF Settle
  <1>4. IsRun(run[l]) /\ run[l].point \in Points
    BY <1>1, SupervisedHasPoint DEF LaunchTypes, Settle
  <1>5. \/ run'[l] = run[l]
        \/ run'[l] = [run[l] EXCEPT !.st = "failed", !.limited = TRUE]
        \/ run'[l] = [run[l] EXCEPT !.st = "cancelled"]
    BY <1>1, <1>3
  <1>6. "cancelled" \in RunStates
    BY DEF RunStates, Terminal
  <1>7. IsRun(run'[l])
    <2>1. IsRun([run[l] EXCEPT !.st = "cancelled"])
      BY <1>4, <1>6, EndedIsRun
    <2>2. IsRun([run[l] EXCEPT !.st = "failed", !.limited = TRUE])
      BY <1>4, EndedIsRun
    <2> QED
      BY <1>4, <1>5, <2>1, <2>2
  <1>8. Changes(l, {"res"}) /\ L'[l].res = "settled"
    BY <1>1, FieldNames DEF Settle, Put, With, Changes
  <1>9. Written(l, {"res"})
    BY <1>1, <1>8, FieldNames DEF Written, Changes, LaunchTypes
  <1> QED
    BY <1>2, <1>7, <1>9 DEF Typed

LEMMA RecoveryMarksTypes ==
    ASSUME TypeInv, RecoveryInv, ChildInv(1), RecoveryMarks
    PROVE  Typed(1)
  <1>0. 1 \in Launches
    BY HostAssumption
  <1>1. DOMAIN L = Launches /\ DOMAIN L[1] = Fields /\ DOMAIN run = Launches /\ LaunchTypes(1)
    BY <1>0 DEF TypeInv, SharedTypes, LaunchTypes, Fields
  <1>2. Shared /\ L' = L
    BY DEF RecoveryMarks, Rest, Calm, Trouble, Shared, TypeInv, SharedTypes, RecStates
  <1>3. run' = run \/ run' = [run EXCEPT ![1].st = "failed", ![1].limited = TRUE]
    BY DEF RecoveryMarks
  <1>4. IsRun(run[1]) /\ run[1].point \in Points
    BY <1>1 DEF LaunchTypes, RecoveryMarks, RecoveryInv, ChildInv
  <1>5. run'[1] = run[1] \/ run'[1] = [run[1] EXCEPT !.st = "failed", !.limited = TRUE]
    BY <1>0, <1>1, <1>3
  <1>6. IsRun(run'[1])
    BY <1>4, <1>5, EndedIsRun
  <1>7. Written(1, {})
    BY <1>1, <1>2 DEF Written, Changes, LaunchTypes
  <1> QED
    BY <1>2, <1>6, <1>7 DEF Typed

LEMMA AbortTypes ==
    ASSUME TypeInv, NEW l \in Launches, Trouble("aborts"), Rest, UNCHANGED <<hostVars, cool, run, rec>>,
           Put(l, [aborted |-> TRUE])
    PROVE  Typed(l)
  <1>1. DOMAIN L = Launches /\ DOMAIN L[l] = Fields /\ DOMAIN run = Launches /\ LaunchTypes(l)
    BY DEF TypeInv, SharedTypes, LaunchTypes, Fields
  <1>2. Shared /\ run' = run
    BY DEF Rest, Trouble, Shared, TypeInv, SharedTypes, RecStates
  <1>4. Changes(l, {"aborted"})
    BY <1>1, FieldNames DEF Put, With, Changes
  <1>5. Written(l, {"aborted"})
    BY <1>1, <1>4, FieldNames DEF Written, Changes, LaunchTypes
  <1> QED
    BY <1>1, <1>2, <1>5 DEF Typed, LaunchTypes

LEMMA ResolvesTypes ==
    ASSUME TypeInv, NEW l \in Launches, NEW of \in {0} \union Launches, NEW asked \in 0..MaxTier,
           NEW exact \in Points \union {NoPoint}, NEW internal, Shared, run' = run,
           Resolves(l, [of |-> of, asked |-> asked, exact |-> exact, internal |-> internal])
    PROVE  Typed(l)
  <1>1. DOMAIN L = Launches /\ DOMAIN L[l] = Fields /\ DOMAIN run = Launches /\ LaunchTypes(l)
    BY DEF TypeInv, SharedTypes, LaunchTypes, Fields
  <1>2. IsRun(PriorOf(of))
    <2>1. IsRun(NoPrior)
      BY RoutingAssumption DEF IsRun, NoRun, NoPrior, RunStates, NoTier
    <2>2. \A m \in Launches : IsRun(run[m])
      BY DEF TypeInv, LaunchTypes
    <2>3. of # 0 => of \in Launches
      OBVIOUS
    <2> QED
      BY <2>1, <2>2, <2>3 DEF PriorOf
  <1> DEFINE prior == PriorOf(of)
             fields == [of |-> of, asked |-> asked, exact |-> exact, internal |-> internal]
  <1>3. \/ Put(l, With(fields, [pc |-> "refused", cert |-> "absent"]))
        \/ Put(l, With(fields, [pc |-> "refused"]))
        \/ Put(l, With(fields, [pc |-> "route", prior |-> prior]))
    BY DEF Resolves, Unusable
  <1> HIDE DEF prior
  <1>4. /\ L'[l].pc \in {"refused", "route"} /\ L'[l].of = of /\ L'[l].asked = asked /\ L'[l].exact = exact
        /\ L'[l].cert \in {L[l].cert, "absent"} /\ L'[l].prior \in {L[l].prior, prior}
        /\ Changes(l, {"pc", "of", "asked", "exact", "internal", "cert", "prior"})
    BY <1>1, <1>3, FieldNames DEF Put, With, Changes
  <1>5. IsRun(prior) /\ IsRun(L[l].prior)
    BY <1>1, <1>2 DEF LaunchTypes, prior
  <1>6. IsRun(L'[l].prior)
    BY <1>4, <1>5
  <1>7. Written(l, {"pc", "of", "asked", "exact", "internal", "cert", "prior"})
    BY <1>1, <1>4, <1>6 DEF Written, LaunchTypes, Codes
  <1> QED
    BY <1>1, <1>7 DEF Typed, LaunchTypes

LEMMA RequestTypes ==
    ASSUME TypeInv, NEW l \in Launches, Request(l)
    PROVE  Typed(l)
  <1>1. PICK asked \in {NoTier} \union Tiers, exact \in Points \union {NoPoint}, of \in {0, 1} :
          Resolves(l, [of |-> of, asked |-> asked, exact |-> exact, internal |-> FALSE])
    BY DEF Request
  <1>2. Shared /\ run' = run
    BY <1>1 DEF Request, Resolves, Unusable, LaunchOnly, Rest, Calm, Trouble, Shared, TypeInv, SharedTypes, RecStates
  <1>3. asked \in 0..MaxTier /\ of \in {0} \union Launches
    BY HostAssumption, RoutingAssumption DEF NoTier, Tiers
  <1> QED
    BY <1>1, <1>2, <1>3, ResolvesTypes

LEMMA RecoveryRelaunchesTypes ==
    ASSUME TypeInv, RecoveryRelaunches
    PROVE  Typed(2)
  <1>1. {1, 2} \subseteq Launches
    BY HostAssumption
  <1>2. L[1].asked \in 0..MaxTier
    BY <1>1 DEF TypeInv, LaunchTypes
  <1>3. Shared /\ run' = run
    BY DEF RecoveryRelaunches, Resolves, Unusable, Rest, Calm, Trouble, Shared, TypeInv, SharedTypes, RecStates
  <1>4. Resolves(2, [of |-> 1, asked |-> L[1].asked, exact |-> NoPoint, internal |-> TRUE])
    BY DEF RecoveryRelaunches
  <1> QED
    BY <1>1, <1>2, <1>3, <1>4, ResolvesTypes


-----------------------------------------------------------------------------
(* What a step of one launch keeps, the recovery aside. *)
Kept(l) ==
    /\ TypeInv' /\ HostInv' /\ LaunchesInv' /\ Grows
    /\ Alone(l) /\ WaitSoft(l) /\ \A k \in Launches : Stable(k)

LEMMA SoftKept ==
    ASSUME IInv, NEW l \in Launches, Soft(l), Typed(l)
    PROVE  Kept(l)
  <1>1. LaunchesInv' /\ HostInv' /\ HostTypes' /\ Grows /\ \A k \in Launches : Stable(k)
    BY SoftKeeps
  <1>2. Alone(l) /\ WaitSoft(l)
    BY DEF Soft
  <1>3. TypeInv'
    BY <1>1, <1>2, TypedStep DEF IInv
  <1> QED
    BY <1>1, <1>2, <1>3 DEF Kept

(* The three steps that act on the host. *)
LEMMA HostActionsKept ==
    ASSUME IInv, NEW l \in Launches, Place(l) \/ Start(l) \/ Prompt(l)
    PROVE  Kept(l)
  <1>1. TypeInv /\ HostInv
    BY DEF IInv
  <1>2. HostTypes' /\ HostInv' /\ Grows /\ LaunchesInv' /\ \A k \in Launches : Stable(k)
    BY PlaceKeeps, StartKeeps, PromptKeeps
  <1>3. Alone(l)
    BY <1>1, PlaceDoes, StartDoes, PromptDoes
  <1>4. Typed(l)
    BY <1>1, PlaceTypes, StartTypes, PromptTypes
  <1>5. TypeInv'
    BY <1>1, <1>2, <1>3, <1>4, TypedStep
  <1>6. L[l].pc # "none"
    BY <1>1, PlaceDoes, StartDoes, PromptDoes
  <1> QED
    BY <1>2, <1>3, <1>5, <1>6 DEF Kept, WaitSoft

(* A launch's own steps keep what holds of every launch. *)
LEMMA LaunchStepKept ==
    ASSUME IInv, NEW l \in Launches, LaunchStep(l)
    PROVE  Kept(l) /\ rec' = rec /\ cast' = cast
  <1>1. TypeInv /\ HostInv /\ OwnInv(l) /\ ChildInv(l) /\ PromptInv(l)
    BY PartsOf DEF IInv, OwnParts
  <1>2. CASE Request(l)
    <2>1. Soft(l)
      BY <1>1, <1>2, RequestIsSoft
    <2>2. Typed(l)
      BY <1>1, <1>2, RequestTypes
    <2>3. rec' = rec /\ cast' = cast
      BY <1>2 DEF Request, LaunchOnly, Rest
    <2> QED
      BY <2>1, <2>2, <2>3, SoftKept
  <1>3. CASE Route(l)
    <2>1. Soft(l)
      BY <1>1, <1>3, RouteIsSoft
    <2>2. Typed(l)
      BY <1>1, <1>3, RouteTypes
    <2>3. rec' = rec /\ cast' = cast
      BY <1>3 DEF Route, LaunchOnly, Rest
    <2> QED
      BY <2>1, <2>2, <2>3, SoftKept
  <1>4. CASE Probe(l)
    <2>1. Soft(l)
      BY <1>1, <1>4, ProbeIsSoft
    <2>2. Typed(l)
      BY <1>1, <1>4, ProbeTypes
    <2>3. rec' = rec /\ cast' = cast
      BY <1>4 DEF Probe, LaunchOnly, Rest
    <2> QED
      BY <2>1, <2>2, <2>3, SoftKept
  <1>5. CASE Routed(l)
    <2>1. Soft(l)
      BY <1>1, <1>5, RoutedIsSoft
    <2>2. Typed(l)
      BY <1>1, <1>5, RoutedTypes
    <2>3. rec' = rec /\ cast' = cast
      BY <1>5 DEF Routed, LaunchOnly, Rest
    <2> QED
      BY <2>1, <2>2, <2>3, SoftKept
  <1>6. CASE Boundary(l)
    <2>1. Soft(l)
      BY <1>1, <1>6, BoundaryIsSoft
    <2>2. Typed(l)
      BY <1>1, <1>6, BoundaryTypes
    <2>3. rec' = rec /\ cast' = cast
      BY <1>6 DEF Boundary, LaunchOnly, Rest
    <2> QED
      BY <2>1, <2>2, <2>3, SoftKept
  <1>7. CASE LogDecision(l)
    <2>1. Soft(l)
      BY <1>1, <1>7, LogDecisionIsSoft
    <2>2. Typed(l)
      BY <1>1, <1>7, LogDecisionTypes
    <2>3. rec' = rec /\ cast' = cast
      BY <1>7 DEF LogDecision, LaunchOnly, Rest
    <2> QED
      BY <2>1, <2>2, <2>3, SoftKept
  <1>8. CASE Child(l)
    <2>1. Soft(l)
      BY <1>1, <1>8, ChildIsSoft
    <2>2. Typed(l)
      BY <1>1, <1>8, ChildTypes
    <2>3. rec' = rec /\ cast' = cast
      BY <1>8 DEF Child, LaunchOnly, Rest
    <2> QED
      BY <2>1, <2>2, <2>3, SoftKept
  <1>9. CASE Prepare(l)
    <2>1. Soft(l)
      BY <1>1, <1>9, PrepareIsSoft
    <2>2. Typed(l)
      BY <1>1, <1>9, PrepareTypes
    <2>3. rec' = rec /\ cast' = cast
      BY <1>9 DEF Prepare, LaunchOnly, Rest
    <2> QED
      BY <2>1, <2>2, <2>3, SoftKept
  <1>10. CASE ShellReady(l)
    <2>1. Soft(l)
      BY <1>1, <1>10, ShellReadyIsSoft
    <2>2. Typed(l)
      BY <1>1, <1>10, ShellReadyTypes
    <2>3. rec' = rec /\ cast' = cast
      BY <1>10 DEF ShellReady, LaunchOnly, Rest
    <2> QED
      BY <2>1, <2>2, <2>3, SoftKept
  <1>11. CASE Attempt(l)
    <2>1. Soft(l)
      BY <1>1, <1>11, AttemptIsSoft
    <2>2. Typed(l)
      BY <1>1, <1>11, AttemptTypes
    <2>3. rec' = rec /\ cast' = cast
      BY <1>11 DEF Attempt, LaunchOnly, Rest
    <2> QED
      BY <2>1, <2>2, <2>3, SoftKept
  <1>12. CASE StartFailed(l)
    <2>1. Soft(l)
      BY <1>1, <1>12, StartFailedIsSoft
    <2>2. Typed(l)
      BY <1>1, <1>12, StartFailedTypes
    <2>3. rec' = rec /\ cast' = cast
      BY <1>12 DEF StartFailed, LaunchOnly, Rest
    <2> QED
      BY <2>1, <2>2, <2>3, SoftKept
  <1>13. CASE Select(l)
    <2>1. Soft(l)
      BY <1>1, <1>13, SelectIsSoft
    <2>2. Typed(l)
      BY <1>1, <1>13, SelectTypes
    <2>3. rec' = rec /\ cast' = cast
      BY <1>13 DEF Select, LaunchOnly, Rest
    <2> QED
      BY <2>1, <2>2, <2>3, SoftKept
  <1>14. CASE Sample(l)
    <2>1. Soft(l)
      BY <1>1, <1>14, SampleIsSoft
    <2>2. Typed(l)
      BY <1>1, <1>14, SampleTypes
    <2>3. rec' = rec /\ cast' = cast
      BY <1>14 DEF Sample, LaunchOnly, Rest
    <2> QED
      BY <2>1, <2>2, <2>3, SoftKept
  <1>15. CASE Judge(l)
    <2>1. Soft(l)
      BY <1>1, <1>15, JudgeIsSoft
    <2>2. Typed(l)
      BY <1>1, <1>15, JudgeTypes
    <2>3. rec' = rec /\ cast' = cast
      BY <1>15 DEF Judge, LaunchOnly, Rest
    <2> QED
      BY <2>1, <2>2, <2>3, SoftKept
  <1>16. CASE BindExact(l)
    <2>1. Soft(l)
      BY <1>1, <1>16, BindExactIsSoft
    <2>2. Typed(l)
      BY <1>1, <1>16, BindExactTypes
    <2>3. rec' = rec /\ cast' = cast
      BY <1>16 DEF BindExact, LaunchOnly, Rest
    <2> QED
      BY <2>1, <2>2, <2>3, SoftKept
  <1>17. CASE BindProvisional(l)
    <2>1. Soft(l)
      BY <1>1, <1>17, BindProvisionalIsSoft
    <2>2. Typed(l)
      BY <1>1, <1>17, BindProvisionalTypes
    <2>3. rec' = rec /\ cast' = cast
      BY <1>17 DEF BindProvisional, LaunchOnly, Rest
    <2> QED
      BY <2>1, <2>2, <2>3, SoftKept
  <1>18. CASE FoldProvisional(l)
    <2>1. Soft(l)
      BY <1>1, <1>18, FoldProvisionalIsSoft
    <2>2. Typed(l)
      BY <1>1, <1>18, FoldProvisionalTypes
    <2>3. rec' = rec /\ cast' = cast
      BY <1>18 DEF FoldProvisional, LaunchOnly, Rest
    <2> QED
      BY <2>1, <2>2, <2>3, SoftKept
  <1>19. CASE ApplyProvisionalSnapshot(l)
    <2>1. Soft(l)
      BY <1>1, <1>19, ApplyProvisionalSnapshotIsSoft
    <2>2. Typed(l)
      BY <1>1, <1>19, ApplyProvisionalSnapshotTypes
    <2>3. rec' = rec /\ cast' = cast
      BY <1>19 DEF ApplyProvisionalSnapshot, LaunchOnly, Rest
    <2> QED
      BY <2>1, <2>2, <2>3, SoftKept
  <1>20. CASE ReconciliationFails(l)
    <2>1. Soft(l)
      BY <1>1, <1>20, ReconciliationFailsIsSoft
    <2>2. Typed(l)
      BY <1>1, <1>20, ReconciliationFailsTypes
    <2>3. rec' = rec /\ cast' = cast
      BY <1>20 DEF ReconciliationFails, LaunchOnly, Rest
    <2> QED
      BY <2>1, <2>2, <2>3, SoftKept
  <1>21. CASE ConfirmPromptConsumption(l)
    <2>1. Soft(l)
      BY <1>1, <1>21, ConfirmPromptConsumptionIsSoft
    <2>2. Typed(l)
      BY <1>1, <1>21, ConfirmPromptConsumptionTypes
    <2>3. rec' = rec /\ cast' = cast
      BY <1>21 DEF ConfirmPromptConsumption, LaunchOnly, Rest
    <2> QED
      BY <2>1, <2>2, <2>3, SoftKept
  <1>22. CASE ConfirmAgyNativeSession(l)
    <2>1. Soft(l)
      BY <1>1, <1>22, ConfirmAgyNativeSessionIsSoft
    <2>2. Typed(l)
      BY <1>1, <1>22, ConfirmAgyNativeSessionTypes
    <2>3. rec' = rec /\ cast' = cast
      BY <1>22 DEF ConfirmAgyNativeSession, LaunchOnly, Rest
    <2> QED
      BY <2>1, <2>2, <2>3, SoftKept
  <1>23. CASE CommitStrengthening(l)
    <2>1. Soft(l)
      BY <1>1, <1>23, CommitStrengtheningIsSoft
    <2>2. Typed(l)
      BY <1>1, <1>23, CommitStrengtheningTypes
    <2>3. rec' = rec /\ cast' = cast
      BY <1>23 DEF CommitStrengthening, LaunchOnly, Rest
    <2> QED
      BY <2>1, <2>2, <2>3, SoftKept
  <1>24. CASE Reconcile(l)
    <2>1. Soft(l)
      BY <1>1, <1>24, ReconcileIsSoft
    <2>2. Typed(l)
      BY <1>1, <1>24, ReconcileTypes
    <2>3. rec' = rec /\ cast' = cast
      BY <1>24 DEF Reconcile, LaunchOnly, Rest
    <2> QED
      BY <2>1, <2>2, <2>3, SoftKept
  <1>25. CASE Readback(l)
    <2>1. Soft(l)
      BY <1>1, <1>25, ReadbackIsSoft
    <2>2. Typed(l)
      BY <1>1, <1>25, ReadbackTypes
    <2>3. rec' = rec /\ cast' = cast
      BY <1>25 DEF Readback, LaunchOnly, Rest
    <2> QED
      BY <2>1, <2>2, <2>3, SoftKept
  <1>26. CASE Release(l)
    <2>1. Soft(l)
      BY <1>1, <1>26, ReleaseIsSoft
    <2>2. Typed(l)
      BY <1>1, <1>26, ReleaseTypes
    <2>3. rec' = rec /\ cast' = cast
      BY <1>26 DEF Release, LaunchOnly, Rest
    <2> QED
      BY <2>1, <2>2, <2>3, SoftKept
  <1>27. CASE Place(l)
    <2>1. rec' = rec /\ cast' = cast
      BY <1>27 DEF Place, Rest
    <2> QED
      BY <1>27, <2>1, HostActionsKept
  <1>28. CASE Start(l)
    <2>1. rec' = rec /\ cast' = cast
      BY <1>28 DEF Start, Rest
    <2> QED
      BY <1>28, <2>1, HostActionsKept
  <1>29. CASE Prompt(l)
    <2>1. rec' = rec /\ cast' = cast
      BY <1>29 DEF Prompt, Rest
    <2> QED
      BY <1>29, <2>1, HostActionsKept
  <1> QED
    BY <1>2, <1>3, <1>4, <1>5, <1>6, <1>7, <1>8, <1>9, <1>10, <1>11, <1>12, <1>13, <1>14, <1>15,
       <1>16, <1>17, <1>18, <1>19, <1>20, <1>21, <1>22, <1>23, <1>24, <1>25, <1>26, <1>27, <1>28,
       <1>29 DEF LaunchStep


(* And the recovery: it waits for the second launch, which then waits too. *)
LEMMA LaunchKeepsRecovery ==
    ASSUME IInv, NEW l \in Launches, Kept(l), cast' = cast,
           \/ rec' = rec
           \/ rec' = "close" /\ l = 1 /\ L[2].pc = "none" /\ "auto" \in cast /\ L[1].ident # NoAgent
    PROVE  IInv'
  <1>1. {1, 2} \subseteq Launches
    BY HostAssumption
  <1>2. /\ TypeInv /\ RecoveryInv /\ OwnInv(1) /\ ChildInv(1)
    BY <1>1, PartsOf DEF IInv, OwnParts
  <1>3. HostTypes' /\ Grows /\ Stable(1)
    BY <1>1 DEF Kept, TypeInv
  <1>4. rec' # "none" => L[1].ident # NoAgent
    BY <1>2 DEF RecoveryInv
  <1>5. rec' \in Recovering => L[2].pc = "none" /\ "auto" \in cast
    BY <1>2 DEF RecoveryInv, Recovering
  <1>6. rec' \in Recovering => L'[2].pc = "none" /\ "auto" \in cast'
    <2>1. rec' \in Recovering => l # 2
      BY <1>5 DEF Kept, WaitSoft, Recovering
    <2> QED
      BY <1>1, <1>5, <2>1 DEF Kept, Alone
  <1>7. rec' = "mark" => L[1].pane \notin OpenPanes
    BY <1>2 DEF RecoveryInv
  <1>8. RecoveryInv'
    BY <1>2, <1>3, <1>4, <1>6, <1>7, RecoveryKeeps
  <1> QED
    BY <1>8 DEF Kept, IInv

LEMMA LaunchStepKeeps ==
    ASSUME IInv, NEW l \in Launches, LaunchStep(l)
    PROVE  IInv'
  BY LaunchStepKept, LaunchKeepsRecovery

LEMMA CompletionSignalKeeps ==
    ASSUME IInv, NEW l \in Launches, CompletionSignal(l)
    PROVE  IInv'
  <1>1. TypeInv /\ HostInv /\ OwnInv(l) /\ ChildInv(l) /\ PromptInv(l)
    BY PartsOf DEF IInv, OwnParts
  <1>2. Kept(l)
    BY <1>1, CompletionSignalIsSoft, CompletionSignalTypes, SoftKept
  <1>3. cast' = cast /\ L[l].ident # NoAgent
    BY <1>1, SupervisedHasPoint DEF CompletionSignal, Rest
  <1>4. rec' = rec \/ (rec' = "close" /\ l = 1 /\ L[2].pc = "none" /\ "auto" \in cast)
    BY DEF CompletionSignal, AutoRecovers
  <1> QED
    BY <1>2, <1>3, <1>4, LaunchKeepsRecovery

LEMMA SettleKeeps ==
    ASSUME IInv, NEW l \in Launches, Settle(l)
    PROVE  IInv'
  <1>1. TypeInv /\ HostInv /\ OwnInv(l) /\ ChildInv(l) /\ PromptInv(l)
    BY PartsOf DEF IInv, OwnParts
  <1>2. Kept(l)
    BY <1>1, SettleIsSoft, SettleTypes, SoftKept
  <1>3. cast' = cast /\ rec' = rec
    BY DEF Settle, Rest
  <1> QED
    BY <1>2, <1>3, LaunchKeepsRecovery

LEMMA ConcludeKeeps ==
    ASSUME IInv, NEW l \in Launches, Conclude(l)
    PROVE  IInv'
  <1>1. TypeInv /\ HostInv /\ OwnInv(l) /\ ChildInv(l)
    BY PartsOf DEF IInv, OwnParts
  <1>2. Kept(l)
    BY <1>1, ConcludeIsSoft, ConcludeTypes, SoftKept
  <1>3. cast' = cast /\ rec' = rec
    BY DEF Conclude, Rest
  <1> QED
    BY <1>2, <1>3, LaunchKeepsRecovery

LEMMA AbortKeeps ==
    ASSUME IInv, NEW l \in Launches, Trouble("aborts"), Rest, UNCHANGED <<hostVars, cool, run, rec>>,
           L[l].pc # "none", Put(l, [aborted |-> TRUE])
    PROVE  IInv'
  <1>1. TypeInv /\ HostInv /\ OwnInv(l) /\ ChildInv(l)
    BY PartsOf DEF IInv, OwnParts
  <1>2. Kept(l)
    BY <1>1, AbortIsSoft, AbortTypes, SoftKept
  <1>3. cast' = cast /\ rec' = rec
    BY DEF Rest
  <1> QED
    BY <1>2, <1>3, LaunchKeepsRecovery

-----------------------------------------------------------------------------
(* The recovery's steps. *)
LEMMA RecoveryMarksKeeps ==
    ASSUME IInv, RecoveryMarks
    PROVE  IInv'
  <1>1. {1, 2} \subseteq Launches
    BY HostAssumption
  <1>2. /\ TypeInv /\ HostInv /\ RecoveryInv /\ OwnInv(1) /\ ChildInv(1)
    BY <1>1, PartsOf DEF IInv, OwnParts
  <1>3. Kept(1)
    BY <1>1, <1>2, RecoveryMarksIsSoft, RecoveryMarksTypes, SoftKept
  <1>4. rec = "mark" /\ rec' \in {"relaunch", "failed"} /\ cast' = cast /\ L' = L
    BY DEF RecoveryMarks, Rest
  <1>5. L[1].ident # NoAgent /\ L[2].pc = "none" /\ "auto" \in cast
    BY <1>2, <1>4 DEF RecoveryInv
  <1>6. HostTypes' /\ Grows /\ Stable(1)
    BY <1>1, <1>3 DEF Kept, TypeInv
  <1>7. RecoveryInv'
    BY <1>2, <1>4, <1>5, <1>6, RecoveryKeeps
  <1> QED
    BY <1>3, <1>7 DEF Kept, IInv

LEMMA RecoveryRelaunchesKeeps ==
    ASSUME IInv, RecoveryRelaunches
    PROVE  IInv'
  <1>1. {1, 2} \subseteq Launches
    BY HostAssumption
  <1>2. /\ TypeInv /\ RecoveryInv /\ OwnInv(1) /\ ChildInv(1) /\ OwnInv(2)
    BY <1>1, PartsOf DEF IInv, OwnParts
  <1>3. Kept(2)
    BY <1>1, <1>2, RecoveryRelaunchesIsSoft, RecoveryRelaunchesTypes, SoftKept
  <1>4. rec = "relaunch" /\ rec' = "relaunched"
    BY DEF RecoveryRelaunches
  <1>5. L[1].ident # NoAgent
    BY <1>2, <1>4 DEF RecoveryInv
  <1>6. HostTypes' /\ Grows /\ Stable(1)
    BY <1>1, <1>3 DEF Kept, TypeInv
  <1>7. RecoveryInv'
    BY <1>2, <1>4, <1>5, <1>6, RecoveryKeeps DEF Recovering
  <1> QED
    BY <1>3, <1>7 DEF Kept, IInv

(* Steps that leave every launch and every run as they are. *)
LEMMA UnlaunchedTypes ==
    ASSUME TypeInv, HostTypes', Grows, Shared, UNCHANGED <<L, run>>
    PROVE  TypeInv'
  <1>1. DOMAIN L' = Launches /\ DOMAIN run' = Launches
    BY DEF TypeInv, SharedTypes
  <1>2. Stranger \notin Launches
    BY HostAssumption DEF Stranger
  <1>3. \A m \in Launches \ {Stranger} : L'[m] = L[m] /\ run'[m] = run[m]
    OBVIOUS
  <1> QED
    BY <1>1, <1>2, <1>3, TypesOfOthers

LEMMA UnlaunchedKeeps ==
    ASSUME IInv, HostTypes', HostInv', Grows, LaunchesInv', \A k \in Launches : Stable(k),
           Shared, UNCHANGED <<L, run>>,
           rec' # "none" => rec # "none",
           rec' \in Recovering => rec \in Recovering,
           rec' = "mark" => L[1].pane \notin OpenPanes
    PROVE  IInv'
  <1>1. {1, 2} \subseteq Launches
    BY HostAssumption
  <1>2. /\ TypeInv /\ RecoveryInv /\ OwnInv(1) /\ ChildInv(1)
    BY <1>1, PartsOf DEF IInv, OwnParts
  <1>3. TypeInv'
    BY <1>2, UnlaunchedTypes
  <1>4. rec' # "none" => L[1].ident # NoAgent
    BY <1>2 DEF RecoveryInv
  <1>5. rec' \in Recovering => L'[2].pc = "none" /\ "auto" \in cast'
    BY <1>2 DEF RecoveryInv, Recovering, Shared
  <1>6. RecoveryInv'
    BY <1>1, <1>2, <1>4, <1>5, RecoveryKeeps
  <1> QED
    BY <1>3, <1>6 DEF IInv

(* The host is left as it is. *)
LEMMA StillHost ==
    ASSUME IInv, UNCHANGED <<hostVars, L, run>>
    PROVE  HostTypes' /\ HostInv' /\ Grows /\ LaunchesInv' /\ \A k \in Launches : Stable(k)
  <1>1. TypeInv /\ HostTypes /\ HostInv
    BY DEF IInv, TypeInv
  <1>2. Quiet
    BY <1>1 DEF hostVars, Quiet, HostTypes
  <1>3. HostTypes' /\ HostInv' /\ Grows /\ \A m \in Launches : Spares(m)
    BY <1>1, <1>2, QuietHost
  <1> QED
    BY <1>3, SparingKeeps

LEMMA RecoveryClosesKeeps ==
    ASSUME IInv, RecoveryCloses
    PROVE  IInv'
  <1>1. Shared
    BY DEF RecoveryCloses, Rest, Calm, Trouble, Shared, RecStates, IInv, TypeInv, SharedTypes
  <1>2. rec = "close" /\ rec' \in {"readback", "failed"} /\ UNCHANGED <<L, run>>
    BY DEF RecoveryCloses
  <1>3. \/ L[1].pane \in OpenPanes /\ ClosePane(L[1].pane)
        \/ UNCHANGED hostVars
        \/ L[1].pane \in OpenPanes /\ UNCHANGED <<pane, agent>> /\ late' \subseteq late \union {CloseRequest(1)}
    BY DEF RecoveryCloses
  <1>4. HostTypes' /\ HostInv' /\ Grows /\ LaunchesInv' /\ \A k \in Launches : Stable(k)
    BY <1>2, <1>3, ClosingKeeps, StillHost, CloseHeld
  <1> QED
    BY <1>1, <1>2, <1>4, UnlaunchedKeeps DEF Recovering

LEMMA RecoveryReadsBackKeeps ==
    ASSUME IInv, RecoveryReadsBack
    PROVE  IInv'
  <1>1. Shared
    BY DEF RecoveryReadsBack, Rest, Calm, Trouble, Shared, RecStates, IInv, TypeInv, SharedTypes
  <1>2. rec = "readback" /\ rec' \in {"mark", "failed"} /\ UNCHANGED <<hostVars, L, run>>
    BY DEF RecoveryReadsBack
  <1>3. rec' = "mark" => L[1].pane \notin OpenPanes
    BY DEF RecoveryReadsBack, CloseProven
  <1>4. HostTypes' /\ HostInv' /\ Grows /\ LaunchesInv' /\ \A k \in Launches : Stable(k)
    BY <1>2, StillHost
  <1> QED
    BY <1>1, <1>2, <1>3, <1>4, UnlaunchedKeeps DEF Recovering


-----------------------------------------------------------------------------
(* The steps of everyone else. *)
LEMMA HostStepKeeps ==
    ASSUME IInv, HostStep
    PROVE  IInv'
  <1>1. Shared
    BY DEF HostStep, Unlaunched, Rest, Calm, Shared, RecStates, IInv, TypeInv, SharedTypes
  <1>2. UNCHANGED <<L, run>> /\ rec' = rec
    BY DEF HostStep, Unlaunched
  <1>3. (\E a \in Live : AgentBoots(a) \/ AgentWorks(a) \/ AgentRests(a)) \/ ServeLate
    BY DEF HostStep
  <1>4. HostTypes' /\ HostInv' /\ Grows /\ LaunchesInv' /\ \A k \in Launches : Stable(k)
    BY <1>2, <1>3, AgentsKeep, ServesKeep
  <1>5. rec' = "mark" => L[1].pane \notin OpenPanes
    BY <1>2 DEF IInv, RecoveryInv
  <1> QED
    BY <1>1, <1>2, <1>4, <1>5, UnlaunchedKeeps

LEMMA LapseKeepsRecords ==
    ASSUME cool \subseteq Records, Lapse
    PROVE  cool' \subseteq Records
  <1>1. PICK r \in cool :
          \E s \in {[r EXCEPT !.recent = FALSE, !.active = r.active /\ r.signaled],
                    [r EXCEPT !.active = r.active /\ ~r.signaled]} :
             cool' = (cool \ {r}) \union (IF s.active \/ s.recent THEN {s} ELSE {})
    BY DEF Lapse
  <1>2. r \in Records
    BY <1>1
  <1>3. /\ [r EXCEPT !.recent = FALSE, !.active = r.active /\ r.signaled] \in Records
        /\ [r EXCEPT !.active = r.active /\ ~r.signaled] \in Records
    BY <1>2 DEF Records
  <1>4. \A s \in Records : (cool \ {r}) \union (IF s.active \/ s.recent THEN {s} ELSE {}) \subseteq Records
    OBVIOUS
  <1>5. PICK s \in {[r EXCEPT !.recent = FALSE, !.active = r.active /\ r.signaled],
                    [r EXCEPT !.active = r.active /\ ~r.signaled]} :
          cool' = (cool \ {r}) \union (IF s.active \/ s.recent THEN {s} ELSE {})
    BY <1>1
  <1>6. s \in Records
    BY <1>3, <1>5
  <1> QED
    BY <1>4, <1>5, <1>6

LEMMA DisturbanceKeeps ==
    ASSUME IInv, Disturbance
    PROVE  IInv'
  <1>1. rec = "mark" => L[1].pane \notin OpenPanes
    BY DEF IInv, RecoveryInv
  <1>2. CASE /\ Unlaunched
             /\ \/ Trouble("limits") /\ \E a \in Live : AgentLimited(a)
                \/ Trouble("exits") /\ \E a \in Live : AgentExits(a)
                \/ Trouble("closes") /\ \E p \in OpenPanes : SomeoneCloses(p)
                \/ Trouble("strangers") /\ StrangerOpensPane
                \/ Trouble("strangers") /\ \E p \in OpenPanes, point \in Points : StrangerStartsAgent(p, point)
    <2>1. Shared
      BY <1>2 DEF Unlaunched, Rest, Trouble, Shared, RecStates, IInv, TypeInv, SharedTypes
    <2>2. UNCHANGED <<L, run>> /\ rec' = rec
      BY <1>2 DEF Unlaunched
    <2>3. \/ \E a \in Live : AgentLimited(a) \/ AgentExits(a)
          \/ \E p \in OpenPanes : ClosePane(p)
          \/ StrangerOpensPane
          \/ \E p \in OpenPanes, point \in Points : StrangerStartsAgent(p, point)
      BY <1>2 DEF SomeoneCloses
    <2>4. HostTypes' /\ HostInv' /\ Grows /\ LaunchesInv' /\ \A k \in Launches : Stable(k)
      BY <2>2, <2>3, AgentsKeep, ClosingKeeps, StrangersKeep
    <2> QED
      BY <1>1, <2>1, <2>2, <2>4, UnlaunchedKeeps
  <1>3. CASE /\ Trouble("aborts") /\ Rest /\ UNCHANGED <<hostVars, cool, run, rec>>
             /\ \E l \in Launches : L[l].pc \notin Ended \union {"none"} /\ ~L[l].internal /\ Put(l, [aborted |-> TRUE])
    BY <1>3, AbortKeeps
  <1>4. CASE /\ "freezes" \in cast /\ (Trouble("freezes") \/ (frozen /\ Calm)) /\ frozen' = ~frozen
             /\ UNCHANGED <<hostVars, cool, L, run, rec, cast>>
    <2>1. Shared
      BY <1>4 DEF Calm, Trouble, Shared, RecStates, IInv, TypeInv, SharedTypes
    <2> QED
      BY <1>1, <1>4, <2>1, StillHost, UnlaunchedKeeps
  <1>5. CASE Lapse /\ "lapses" \in cast /\ Calm /\ Rest /\ UNCHANGED <<hostVars, L, run, rec>>
    <2>1. cool' \subseteq Records
      BY <1>5, LapseKeepsRecords DEF IInv, TypeInv, SharedTypes
    <2>2. Shared
      BY <1>5, <2>1 DEF Calm, Rest, Shared, RecStates, IInv, TypeInv, SharedTypes
    <2> QED
      BY <1>1, <1>5, <2>2, StillHost, UnlaunchedKeeps
  <1> QED
    BY <1>2, <1>3, <1>4, <1>5 DEF Disturbance

LEMMA StutterKeeps ==
    ASSUME IInv, UNCHANGED vars
    PROVE  IInv'
  <1>1. Shared
    BY DEF vars, Shared, RecStates, IInv, TypeInv, SharedTypes
  <1>2. UNCHANGED <<hostVars, L, run>> /\ rec' = rec
    BY DEF vars, hostVars
  <1>3. rec' = "mark" => L[1].pane \notin OpenPanes
    BY <1>2 DEF IInv, RecoveryInv
  <1> QED
    BY <1>1, <1>2, <1>3, StillHost, UnlaunchedKeeps

-----------------------------------------------------------------------------
LEMMA InitHolds ==
    ASSUME Init
    PROVE  IInv
  <1>1. /\ pane = <<>> /\ agent = <<>> /\ late = {} /\ cool = {}
        /\ L = [l \in Launches |-> Fresh] /\ run = [l \in Launches |-> NoRun]
        /\ rec = "none" /\ cast \in Casts
    BY DEF Init, HostInit, CoolInit
  <1>2. OpenPanes = {} /\ Live = {}
    BY <1>1 DEF OpenPanes, Live
  <1>3. HostTypes
    BY <1>1, HostAssumption DEF HostTypes
  <1>4. trouble \in 0..MaxTrouble
    BY CastAssumption DEF Init
  <1>5. SharedTypes
    BY <1>1, <1>4 DEF SharedTypes
  <1>6. IsRun(NoRun)
    BY RoutingAssumption DEF IsRun, NoRun, NoPrior, RunStates, NoTier
  <1>7. ASSUME NEW l \in Launches
        PROVE  LaunchTypes(l) /\ OwnParts(l)
    <2>1. L[l] = Fresh /\ run[l] = NoRun
      BY <1>1
    <2>2. Routes(NoRoute)
      BY DEF Routes, NoRoute
    <2>3. LaunchTypes(l)
      <3>1. /\ Fresh.pc = "none" /\ Fresh.of = 0 /\ Fresh.prior = NoRun /\ Fresh.exact = NoPoint /\ Fresh.asked = 0
            /\ Fresh.tier = 0 /\ Fresh.r = NoRoute /\ Fresh.todo = <<>> /\ Fresh.cur = NoPoint /\ Fresh.seen = {}
            /\ Fresh.pane = 0 /\ Fresh.tab = 0
            /\ Fresh.startRec = 0 /\ Fresh.sample = 0 /\ Fresh.ident = 0 /\ Fresh.ack = 0 /\ Fresh.base = 0
            /\ Fresh.look = NoLook /\ Fresh.res = "none" /\ Fresh.prov = NoProvisional /\ Fresh.cert = "none"
        BY DEF Fresh, NoTier, NoPane, NoTab, NoAgent, NoRun
      <3>2. Fresh.pc \in Codes /\ Fresh.pc \notin {"child", "prepare"}
        BY <3>1 DEF Codes
      <3>3. NoLook.cand = 0 /\ NoLook.snapshot = "failed"
        BY DEF NoLook, NoPane
      <3>4. MaxPanes \in Nat /\ MaxTier \in Nat /\ Len(agent) = 0
        BY <1>1, HostAssumption, RoutingAssumption
      <3>5. IsRun(L[l].prior) /\ IsRun(run[l]) /\ Routes(L[l].r)
        BY <1>6, <2>1, <2>2, <3>1
      <3> DEFINE x == L[l]
      <3>6. /\ x.pc \in Codes /\ x.of \in Launches \union {0} /\ x.exact \in Points \union {NoPoint}
            /\ x.asked \in 0..MaxTier /\ x.tier \in 0..MaxTier /\ x.pc \notin {"child", "prepare"}
        BY <2>1, <3>1, <3>2, <3>4
      <3>7. /\ x.todo \in Seq(Points) /\ x.cur \in Points \union {NoPoint} /\ x.seen \subseteq DOMAIN pane
            /\ x.pane \in 0..MaxPanes /\ x.tab \in Nat
        BY <2>1, <3>1, <3>4
      <3>8. {x.startRec, x.sample, x.ident, x.ack} \subseteq 0..Len(agent) /\ x.base \in Nat
        BY <2>1, <3>1, <3>4
      <3>9. DOMAIN x.look = DOMAIN NoLook /\ x.look.cand \in 0..MaxPanes /\ x.look.snapshot \in {"present", "absent", "failed"}
        BY <2>1, <3>1, <3>3, <3>4
      <3>10. /\ x.res \in {"none", "reserved", "released", "provisional", "bound", "settled"}
             /\ x.cert \in {"none", "absent", "partial", "unknown"}
             /\ x.prov \in [seq : Nat, native : 0..Len(agent), rejected : BOOLEAN]
        <4>1. x.res = "none" /\ x.prov = NoProvisional /\ x.cert = "none"
          BY <2>1, <3>1
        <4>2. NoProvisional \in [seq : Nat, native : 0..Len(agent), rejected : BOOLEAN]
          BY <3>4 DEF NoProvisional, NoAgent
        <4> QED
          BY <4>1, <4>2
      <3>11. DOMAIN x = DOMAIN Fresh
        BY <2>1
      <3>12. x.dispatched \in BOOLEAN /\ x.started \in BOOLEAN
        BY <2>1 DEF Fresh
      <3>13. x.look.made \in BOOLEAN
        <4>1. NoLook.made \in BOOLEAN
          BY DEF NoLook
        <4>2. x.look = NoLook
          BY <2>1, <3>1
        <4> QED
          BY <4>1, <4>2, Zenon
      <3> QED
        BY <3>5, <3>6, <3>7, <3>8, <3>9, <3>10, <3>11, <3>12, <3>13 DEF LaunchTypes
    <2>4. OwnInv(l)
      BY <1>1, <2>1 DEF OwnInv, Untouched, Fresh, NoPane, Placed
    <2>5. ChildInv(l)
      BY <1>1, <2>1 DEF ChildInv, Fresh, Begun, Identified, NoAgent
    <2>6. PromptInv(l)
      BY <1>1, <2>1 DEF PromptInv, Unheard, Fresh, Bound, Supervised
    <2>7. ReportInv(l)
      BY <2>1 DEF ReportInv, Fresh
    <2>8. RunInv(l)
      BY <2>1 DEF RunInv, NoRun, NoPrior
    <2>9. RouteInv(l)
      <3>1. L[l].prior.st = "none" /\ L[l].prior.point = NoPoint
        BY <2>1 DEF Fresh, NoPrior
      <3> QED
        BY <3>1 DEF RouteInv
    <2> QED
      BY <2>3, <2>4, <2>5, <2>6, <2>7, <2>8, <2>9 DEF OwnParts
  <1>8. TypeInv
    BY <1>3, <1>5, <1>7 DEF TypeInv
  <1>9. HostInv
    BY <1>1, <1>2 DEF HostInv
  <1>10. LaunchesInv
    BY <1>7 DEF OwnParts, LaunchesInv, OwnsInv, ChildrenInv, PromptsInv, ReportsInv, RunsInv, RoutesInv
  <1>11. RecoveryInv
    BY <1>1 DEF RecoveryInv
  <1> QED
    BY <1>8, <1>9, <1>10, <1>11 DEF IInv

(* The invariant is kept by every step, of a launch or around it. *)
LEMMA StepKeeps ==
    ASSUME IInv, [Next]_vars
    PROVE  IInv'
  <1>1. CASE \E l \in Launches : LaunchStep(l) \/ CompletionSignal(l) \/ Settle(l) \/ Conclude(l)
    BY <1>1, LaunchStepKeeps, CompletionSignalKeeps, SettleKeeps, ConcludeKeeps
  <1>2. CASE RecoveryStep
    BY <1>2, RecoveryClosesKeeps, RecoveryReadsBackKeeps, RecoveryMarksKeeps, RecoveryRelaunchesKeeps
       DEF RecoveryStep
  <1>3. CASE HostStep
    BY <1>3, HostStepKeeps
  <1>4. CASE Disturbance
    BY <1>4, DisturbanceKeeps
  <1>5. CASE UNCHANGED vars
    BY <1>5, StutterKeeps
  <1> QED
    BY <1>1, <1>2, <1>3, <1>4, <1>5 DEF Next

(* Every part of the invariant holds in every behaviour of the launches. *)
THEOREM Invariance == Spec => []IInv
  <1>1. Init => IInv
    BY InitHolds
  <1>2. IInv /\ [Next]_vars => IInv'
    BY StepKeeps
  <1> QED
    BY <1>1, <1>2, PTL DEF Spec


-----------------------------------------------------------------------------
(* Every variable has its shape: the host's panes, agents and held requests, *)
(* the launches' states, the runs and the cooldown log.                      *)
THEOREM TypeCorrectness == Spec => []TypeOK
  <1>1. ASSUME IInv PROVE TypeOK
    <2>1. HostTypes /\ SharedTypes /\ \A l \in Launches : LaunchTypes(l)
      BY <1>1 DEF IInv, TypeInv
    <2>2. HostTypeOK
      BY <2>1 DEF HostTypes, HostTypeOK, PaneRec, AgentRec, LateRec
    <2>3. ASSUME NEW l \in Launches
          PROVE  /\ DOMAIN L[l] = DOMAIN Fresh
                 /\ L[l].pane \in 0..MaxPanes /\ L[l].ident \in 0..MaxAgents /\ L[l].ack \in 0..MaxAgents
                 /\ L[l].res \in {"none", "reserved", "released", "provisional", "bound", "settled"}
                 /\ L[l].prov \in [seq : Nat, native : 0..MaxAgents, rejected : BOOLEAN]
                 /\ L[l].cert \in {"none", "absent", "partial", "unknown"}
                 /\ run[l].st \in Terminal \union {"none", "awaiting_handoff"}
      <3>1. \A k : k \in 0..Len(agent) => k \in 0..MaxAgents
        BY <2>1, HostShape
      <3>2. L[l].ident \in 0..MaxAgents /\ L[l].ack \in 0..MaxAgents
        BY <2>1, <3>1 DEF LaunchTypes
      <3>3. L[l].prov \in [seq : Nat, native : 0..MaxAgents, rejected : BOOLEAN]
        BY <2>1, <3>1 DEF LaunchTypes
      <3>4. run[l].st \in Terminal \union {"none", "awaiting_handoff"}
        BY <2>1 DEF LaunchTypes, IsRun, RunStates
      <3> QED
        BY <2>1, <3>2, <3>3, <3>4 DEF LaunchTypes
    <2> QED
      BY <2>1, <2>2, <2>3 DEF TypeOK, SharedTypes
  <1> QED
    BY <1>1, Invariance, PTL

(* A launch is reported launched only for the child it started, from the    *)
(* point its record names, under bound supervision, and that child alone    *)
(* has received its assignment, once (launch.ts, readiness, the comparison  *)
(* of the acknowledgement, and the confirmation).                           *)
THEOREM LaunchedIsTheOne == Spec => []LaunchedIsWhole
  <1>1. ASSUME IInv PROVE LaunchedIsWhole
    <2>1. ASSUME NEW l \in Launches, At(l, "launched")
          PROVE  /\ agent[L[l].ident].by = l /\ agent[L[l].ident].point = L[l].cur
                 /\ run[l].point = L[l].cur
                 /\ L[l].res \in {"bound", "settled"}
                 /\ \A b \in DOMAIN agent : agent[b].heard[l] = IF b = L[l].ident THEN 1 ELSE 0
      <3>1. ChildInv(l) /\ PromptInv(l) /\ L[l].pc = "launched"
        BY <1>1, <2>1, PartsOf DEF IInv, OwnParts, At
      <3> QED
        BY <3>1 DEF ChildInv, PromptInv, Identified
    <2> QED
      BY <2>1 DEF LaunchedIsWhole
  <1> QED
    BY <1>1, Invariance, PTL

(* A launch that failed with certainty absent has no pane, no agent and no  *)
(* held request; one that does not tell its caller to preserve an           *)
(* unconfirmed assignment has told nobody, and will not (launch.ts,         *)
(* launchEffectCertainty, diagnosticRecovery).                              *)
THEOREM FailureIsTrue == Spec => []FailureIsReportedTruly
  <1>1. ASSUME IInv PROVE FailureIsReportedTruly
    <2>1. ASSUME NEW l \in Launches, At(l, "failed")
          PROVE  /\ L[l].cert = "absent" =>
                      /\ \A p \in OpenPanes : pane[p].by # l
                      /\ \A a \in Live : agent[a].by # l
                      /\ \A e \in late : e.by # l
                 /\ DiagnosticRecovery(L[l]) # "preserveUnconfirmed" =>
                      /\ \A a \in DOMAIN agent : agent[a].heard[l] = 0
                      /\ \A e \in late : ~(e.by = l /\ e.op = "prompt")
      <3>1. PromptInv(l) /\ ReportInv(l)
        BY <1>1, PartsOf DEF IInv, OwnParts
      <3>2. DiagnosticRecovery(L[l]) # "preserveUnconfirmed" => L[l].res \notin Bound
        <4>1. L[l].res \in Bound => AssignmentUnconfirmed(L[l])
          BY DEF AssignmentUnconfirmed, Bound
        <4>2. AssignmentUnconfirmed(L[l]) => DiagnosticRecovery(L[l]) = "preserveUnconfirmed"
          BY DEF DiagnosticRecovery
        <4> QED
          BY <4>1, <4>2
      <3> QED
        BY <3>1, <3>2 DEF PromptInv, ReportInv, Unheard, Gone
    <2> QED
      BY <2>1 DEF FailureIsReportedTruly
  <1> QED
    BY <1>1, Invariance, PTL

(* What recovers a failed or cancelled run works beside no child of it, and *)
(* not on the provider of the child that failed (launch.ts,                 *)
(* resolveRecoveryOf; router.ts, the points a recovery leaves out).         *)
THEOREM RecoveryIsApart == Spec => []RecoveryFollowsTheEnd
  <1>1. ASSUME IInv PROVE RecoveryFollowsTheEnd
    <2>1. ASSUME NEW l \in Launches, L[l].prior.st \in {"failed", "cancelled"},
                 NEW a \in DOMAIN agent, NEW b \in DOMAIN agent,
                 agent[a].by = L[l].of, agent[b].by = l
          PROVE  /\ a \notin Live
                 /\ a = L[L[l].of].ident => Provider[agent[a].point] # Provider[agent[b].point]
      <3>1. RouteInv(l) /\ LaunchTypes(l)
        BY <1>1, PartsOf DEF IInv, OwnParts, TypeInv
      <3>2. /\ L[l].of \in Launches /\ L[L[l].of].ident # NoAgent /\ L[L[l].of].ident \notin Live
            /\ L[l].prior.point = L[L[l].of].cur
        BY <2>1, <3>1 DEF RouteInv
      <3>3. ChildInv(L[l].of)
        BY <1>1, <3>2, PartsOf DEF IInv, OwnParts
      <3>4. a \notin Live
        BY <2>1, <3>2, <3>3 DEF ChildInv
      <3>5. L[l].prior.point # NoPoint
        BY <2>1, <3>1 DEF LaunchTypes, IsRun
      <3>6. Provider[agent[b].point] # Provider[L[l].prior.point]
        BY <2>1, <3>1, <3>5 DEF RouteInv, Elsewhere
      <3>7. a = L[L[l].of].ident => agent[a].point = L[l].prior.point
        BY <3>2, <3>3 DEF ChildInv
      <3> QED
        BY <3>4, <3>6, <3>7
    <2> QED
      BY <2>1 DEF RecoveryFollowsTheEnd
  <1> QED
    BY <1>1, Invariance, PTL
=============================================================================
