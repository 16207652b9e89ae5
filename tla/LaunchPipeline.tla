---------------------------- MODULE LaunchPipeline ----------------------------
(***************************************************************************)
(* Launches from the request to the confirmed prompt, what a failed one    *)
(* leaves behind and says about it (src/src/tools/launch.ts), and the      *)
(* automatic recovery of a child its provider stopped.  Two launches share *)
(* the host, the cooldown log and the run records.                         *)
(***************************************************************************)
EXTENDS LaunchPrompt

-----------------------------------------------------------------------------
(* The catch block: what did the failed launch leave behind? *)

TabIsNew(l, t) == t # NoTab /\ \A p \in L[l].seen : pane[p].tab # t

(* The snapshot: the known pane, or else the first pane the baseline lacks. *)
Reconcile(l) ==
    /\ At(l, "failing") /\ LaunchOnly
    /\ LET new == OpenPanes \ L[l].seen
           cand == IF L[l].pane # NoPane THEN L[l].pane ELSE IF new = {} THEN NoPane ELSE Min(new)
           tabThere == TabIsNew(l, L[l].tab) /\ PanesIn(L[l].tab, OpenPanes) # {}
       IN  \/ ~L[l].dispatched /\ Calm /\ Put(l, [pc |-> "release", cert |-> "absent"])
           \/ /\ L[l].dispatched /\ Calm
              /\ Put(l, [pc |-> "reading",
                         look |-> [cand |-> cand, made |-> cand \in new \/ tabThere,
                                   snapshot |-> IF cand \in OpenPanes THEN "present" ELSE "absent"]])
           \/ /\ L[l].dispatched /\ Trouble("faults")
              /\ Put(l, [pc |-> "reading", look |-> [NoLook EXCEPT !.cand = L[l].pane]])

(* Mutant: a snapshot without a new pane proves that nothing was created. *)
CertaintyWithoutCandidate(launch, found, unread) ==
    IF found \/ launch.look.made THEN "partial"
    ELSE IF unread \/ launch.started \/ launch.submitted THEN "unknown"
    ELSE IF launch.look.snapshot = "absent" THEN "absent" ELSE "unknown"

(* launchEffectCertainty: absence needs an identified pane and an authority   *)
(* that no longer lists it.                                                   *)
LaunchEffectCertainty(launch, found, unread) ==
    IF found \/ launch.look.made THEN "partial"
    ELSE IF unread \/ launch.started \/ launch.submitted THEN "unknown"
    ELSE IF launch.look.snapshot = "absent" /\ launch.look.cand # NoPane THEN "absent" ELSE "unknown"

(* pane get and agent get of the candidate; a pane that is gone answers with  *)
(* null or with an error.                                                     *)
Readback(l) ==
    /\ At(l, "reading") /\ LaunchOnly
    /\ LET cand == L[l].look.cand
           asked == cand # NoPane
           found == asked /\ (Occupant(cand) # NoAgent \/ (cand \in OpenPanes /\ cand \notin L[l].seen))
       IN  \/ /\ Calm
              /\ \E unread \in {L[l].look.snapshot = "failed", asked /\ cand \notin OpenPanes} :
                   Put(l, [pc |-> "release",
                           cert |-> LaunchEffectCertainty(L[l], found, unread \/ L[l].look.snapshot = "failed")])
           \/ /\ asked /\ Trouble("faults")
              /\ Put(l, [pc |-> "release", cert |-> LaunchEffectCertainty(L[l], FALSE, TRUE)])

(* A reservation that never bound is released; a bound one outlives the call. *)
Release(l) ==
    /\ At(l, "release") /\ Calm /\ LaunchOnly
    /\ Put(l, [pc |-> "failed", res |-> IF L[l].res = "reserved" THEN "released" ELSE L[l].res])

(* Supervision was bound, and the assignment may be out. *)
AssignmentUnconfirmed(launch) == launch.res \in {"provisional", "bound", "settled"}

(* The advice a failed launch gives to its caller. *)
DiagnosticRecovery(launch) ==
    IF AssignmentUnconfirmed(launch) \/ launch.submitted THEN "preserveUnconfirmed"
    ELSE IF launch.cert = "absent" /\ ~launch.dispatched THEN "noEffect"
    ELSE IF launch.cert = "unknown" THEN "unknownEffect" ELSE "inspectBeforeRetry"

-----------------------------------------------------------------------------
(* The bound supervisor: the limit signal and the end of the run. *)

(* The first turn's proven standstill on a Claude point of an ordinary task. *)
AutoRecovers(l) ==
    LET a == L[l].ident
    IN  /\ agent[a].limit = "zero" /\ agent[a].turns = 1
        /\ Kind[agent[a].point] = "claude" /\ L[l].exact = NoPoint
        /\ l = 1 /\ "auto" \in cast /\ rec = "none" /\ L[2].pc = "none"

(* A typed limit is recorded against the point, whoever is told. *)
CompletionSignal(l) ==
    /\ L[l].res = "bound" /\ L[l].hook /\ ~L[l].limited
    /\ agent[L[l].ident].limit # "no" /\ agent[L[l].ident].st # "working"
    /\ Put(l, [limited |-> TRUE])
    /\ rec' = IF AutoRecovers(l) THEN "close" ELSE rec
    /\ \/ Calm /\ \E signaled \in BOOLEAN : cool' = RecordedLimit(L[l].cur, signaled, TRUE)
       \/ Trouble("faults") /\ UNCHANGED cool
    /\ Rest /\ UNCHANGED <<hostVars, run>>

CloseRequest(l) == [op |-> "close", by |-> l, pane |-> L[l].pane, tab |-> NoTab, point |-> NoPoint]

(* closeWithReadback: only a snapshot without the pane proves the close. *)
RecoveryCloses ==
    /\ rec = "close"
    /\ LET p == L[1].pane
       IN  \/ p \in OpenPanes /\ Calm /\ rec' = "readback" /\ ClosePane(p)
           \/ p \notin OpenPanes /\ Calm /\ rec' = "readback" /\ UNCHANGED hostVars
           \/ /\ p \in OpenPanes /\ Trouble("faults") /\ rec' = "readback" /\ UNCHANGED <<pane, agent>>
              /\ late' \in {late, late \union {CloseRequest(1)}}
           \/ Trouble("faults") /\ rec' = "failed" /\ UNCHANGED hostVars
    /\ Rest /\ UNCHANGED <<L, run, cool>>

(* Mutant: the close command's answer is the proof. *)
CloseAssumed == TRUE

CloseProven == L[1].pane \notin OpenPanes

RecoveryReadsBack ==
    /\ rec = "readback"
    /\ \/ CloseProven /\ Calm /\ rec' = "mark"
       \/ ~CloseProven /\ Calm /\ rec' = "failed"
       \/ Trouble("faults") /\ rec' = "failed"
    /\ Rest /\ UNCHANGED <<hostVars, cool, L, run>>

RecoveryMarks ==
    /\ rec = "mark"
    /\ \/ /\ Calm /\ rec' = "relaunch"
          /\ run' = [run EXCEPT ![1].st = "failed", ![1].limited = TRUE]
       \/ Trouble("faults") /\ rec' = "failed" /\ UNCHANGED run
    /\ Rest /\ UNCHANGED <<hostVars, cool, L>>

(* The same task again, as an ordinary recovery with an identity of its own. *)
RecoveryRelaunches ==
    /\ rec = "relaunch" /\ rec' = "relaunched"
    /\ Resolves(2, [of |-> 1, asked |-> L[1].asked, exact |-> NoPoint, internal |-> TRUE])
    /\ Rest /\ UNCHANGED <<hostVars, cool, run>>

(* The supervisor's chain waits for its completion signal. *)
Signalling(l) == l = 1 /\ (rec \in {"close", "readback", "mark", "relaunch"}
                           \/ (rec = "relaunched" /\ L[2].pc \notin Ended))

(* The child is gone: the artifact decides, then a recorded limit. *)
Settle(l) ==
    /\ L[l].res = "bound" /\ ~Signalling(l)
    /\ Occupant(L[l].pane) # L[l].ident
    /\ L[l].hook /\ agent[L[l].ident].limit # "no" => L[l].limited
    /\ Put(l, [res |-> "settled"])
    /\ \/ /\ Calm
          /\ run' = CASE run[l].st = "handed_off" /\ ~L[l].limited -> run
                      [] L[l].limited -> [run EXCEPT ![l].st = "failed", ![l].limited = TRUE]
                      [] OTHER -> [run EXCEPT ![l].st = "cancelled"]
       \/ Trouble("faults") /\ UNCHANGED run
    /\ Rest /\ UNCHANGED <<hostVars, cool, rec>>

(* The handoff gate accepts the artifact of a rested child, or the daemon's   *)
(* shutdown leaves the run to a later recovery.                               *)
Conclude(l) ==
    /\ "concludes" \in cast
    /\ L[l].res = "bound" /\ run[l].st = "awaiting_handoff" /\ Occupant(L[l].pane) = L[l].ident
    /\ \E st \in {"handed_off", "recovery_pending"} :
         /\ st = "handed_off" => agent[L[l].ident].st = "idle" /\ agent[L[l].ident].turns > 0
         /\ run' = [run EXCEPT ![l].st = st]
    /\ Calm /\ Rest /\ UNCHANGED <<hostVars, cool, L, rec>>

-----------------------------------------------------------------------------

LaunchStep(l) ==
    \/ Request(l) \/ Route(l) \/ Probe(l) \/ Routed(l) \/ Boundary(l) \/ LogDecision(l)
    \/ Child(l) \/ Prepare(l) \/ Place(l) \/ ShellReady(l)
    \/ Attempt(l) \/ Start(l) \/ StartFailed(l) \/ Select(l)
    \/ Sample(l) \/ Judge(l) \/ BindExact(l) \/ BindProvisional(l)
    \/ FoldProvisional(l) \/ ApplyProvisionalSnapshot(l) \/ ReconciliationFails(l) \/ Prompt(l)
    \/ ConfirmPromptConsumption(l) \/ ConfirmAgyNativeSession(l) \/ CommitStrengthening(l)
    \/ Reconcile(l) \/ Readback(l) \/ Release(l)

RecoveryStep ==
    RecoveryCloses \/ RecoveryReadsBack \/ RecoveryMarks \/ RecoveryRelaunches

Unlaunched == Rest /\ UNCHANGED <<cool, L, run, rec>>

(* Agents at work, and the server catching up. *)
HostStep ==
    /\ Unlaunched /\ Calm
    /\ \/ \E a \in Live : AgentBoots(a) \/ AgentWorks(a) \/ AgentRests(a)
       \/ ServeLate

(* Whatever else may happen around the launches. *)
Disturbance ==
    \/ /\ Unlaunched
       /\ \/ Trouble("limits") /\ \E a \in Live : AgentLimited(a)
          \/ Trouble("exits") /\ \E a \in Live : AgentExits(a)
          \/ Trouble("closes") /\ \E p \in OpenPanes : SomeoneCloses(p)
          \/ Trouble("strangers") /\ StrangerOpensPane
          \/ Trouble("strangers") /\ \E p \in OpenPanes, point \in Points : StrangerStartsAgent(p, point)
    \/ /\ Trouble("aborts") /\ Rest /\ UNCHANGED <<hostVars, cool, run, rec>>
       /\ \E l \in Launches : L[l].pc \notin Ended \union {"none"} /\ ~L[l].internal /\ Put(l, [aborted |-> TRUE])
    \/ /\ "freezes" \in cast /\ (Trouble("freezes") \/ (frozen /\ Calm)) /\ frozen' = ~frozen
       /\ UNCHANGED <<hostVars, cool, L, run, rec, cast>>
    \/ Lapse /\ "lapses" \in cast /\ Calm /\ Rest /\ UNCHANGED <<hostVars, L, run, rec>>

Next ==
    \/ \E l \in Launches : LaunchStep(l) \/ CompletionSignal(l) \/ Settle(l) \/ Conclude(l)
    \/ RecoveryStep
    \/ HostStep
    \/ Disturbance

Spec == Init /\ [][Next]_vars

-----------------------------------------------------------------------------
(* Properties. *)

(* Every variable has its shape. *)
TypeOK ==
    /\ HostTypeOK /\ cool \subseteq Records
    /\ \A l \in Launches :
         /\ DOMAIN L[l] = DOMAIN Fresh
         /\ L[l].pane \in 0..MaxPanes /\ L[l].ident \in 0..MaxAgents /\ L[l].ack \in 0..MaxAgents
         /\ L[l].res \in {"none", "reserved", "released", "provisional", "bound", "settled"}
         /\ L[l].prov \in [seq : Nat, native : 0..MaxAgents, rejected : BOOLEAN]
         /\ L[l].cert \in {"none", "absent", "partial", "unknown"}
         /\ run[l].st \in Terminal \union {"none", "awaiting_handoff"}
    /\ rec \in {"none", "close", "readback", "mark", "relaunch", "relaunched", "failed"}
    /\ trouble \in 0..MaxTrouble /\ cast \in Casts

(* A launch is reported launched only for a child it started itself, from the *)
(* point its record names, under bound supervision, and only that child ever  *)
(* received its assignment, once: whatever was started late, replaced or      *)
(* answered in its place (launch.ts, readiness, acknowledgement comparison    *)
(* and confirmation).                                                         *)
LaunchedIsWhole ==
    \A l \in Launches :
        At(l, "launched") =>
            LET a == L[l].ident
            IN  /\ agent[a].by = l /\ agent[a].point = L[l].cur
                /\ run[l].point = L[l].cur
                /\ L[l].res \in {"bound", "settled"}
                /\ \A b \in DOMAIN agent : agent[b].heard[l] = IF b = a THEN 1 ELSE 0

(* A failed launch says what is true of the host.  Reported without effect    *)
(* (certainty absent, on which a caller may simply launch again) it left no   *)
(* pane and no agent behind, and no request the server still holds can bring  *)
(* one; and unless it tells the caller not to launch again, no agent heard    *)
(* its assignment and none will (launch.ts, launchEffectCertainty,            *)
(* diagnosticRecovery and partialError).                                      *)
FailureIsReportedTruly ==
    \A l \in Launches :
        At(l, "failed") =>
            /\ L[l].cert = "absent" =>
                 /\ \A p \in OpenPanes : pane[p].by # l
                 /\ \A a \in Live : agent[a].by # l
                 /\ \A e \in late : e.by # l
            /\ DiagnosticRecovery(L[l]) # "preserveUnconfirmed" =>
                 /\ \A a \in DOMAIN agent : agent[a].heard[l] = 0
                 /\ \A e \in late : ~(e.by = l /\ e.op = "prompt")

(* A recovery of a failed or cancelled run works beside no child of that run  *)
(* and never on the provider of the child that failed (resolveRecoveryOf,     *)
(* providerLimitRecovery, selectCandidate).                                   *)
RecoveryFollowsTheEnd ==
    \A l \in Launches :
        L[l].prior.st \in {"failed", "cancelled"} =>
            \A a \in DOMAIN agent, b \in DOMAIN agent :
                agent[a].by = L[l].of /\ agent[b].by = l =>
                    /\ a \notin Live
                    /\ a = L[L[l].of].ident => Provider[agent[a].point] # Provider[agent[b].point]
=============================================================================
