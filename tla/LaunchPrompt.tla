----------------------------- MODULE LaunchPrompt -----------------------------
(***************************************************************************)
(* The started agent is proven ready, supervision is bound to it, and the  *)
(* prompt is delivered and seen consumed (src/src/tools/launch.ts;         *)
(* src/src/supervision/supervisor.ts for the two ways to bind).  AGY names *)
(* its native session only with its first turn: it is bound provisionally, *)
(* watched, and the binding strengthened once the session is known.        *)
(***************************************************************************)
EXTENDS LaunchStart

IsAgy(l) == Kind[L[l].cur] = "agy"
HostUnchanged == UNCHANGED hostVars

(* Name, kind and terminal agree; the native session tells the agents of a    *)
(* pane apart once both have one.                                             *)
SameIdentity(a, b) ==
    \/ a = b
    \/ /\ agent[a].by = agent[b].by /\ Kind[agent[a].point] = Kind[agent[b].point]
       /\ ~(agent[a].native /\ agent[b].native)

(* AGY before its session: the name and the kind in the pane's terminal. *)
ProvisionalContinuity(l, o) ==
    o # NoAgent /\ agent[o].by = l /\ Kind[agent[o].point] = "agy"

-----------------------------------------------------------------------------
(* Readiness. *)

(* A sample reads the snapshot first, the agent and the pane after. *)
Sample(l) ==
    /\ At(l, "ready")
    /\ LET o == Occupant(L[l].pane)
       IN  Put(l, [pc |-> "judge", sample |-> o, base |-> IF o = NoAgent THEN 0 ELSE agent[o].seq])
    /\ Calm /\ LaunchOnly

SampleRecords(l) == {L[l].sample, Occupant(L[l].pane)} \ {NoAgent}

(* Another name, another kind, or not the session of the start record. *)
ReplacedIdentity(l, a) ==
    \/ agent[a].by # l \/ Kind[agent[a].point] # Kind[L[l].cur]
    \/ ~IsAgy(l) /\ L[l].startRec # NoAgent /\ ~SameIdentity(a, L[l].startRec)

Contradictory(l) ==
    \/ \E a \in SampleRecords(l) : ReplacedIdentity(l, a)
    \/ \E a, b \in SampleRecords(l) : ~SameIdentity(a, b)

(* Every read found the agent, with all of its identity. *)
CompleteIdentity(l, o) ==
    /\ NoAgent \notin {L[l].sample, o} /\ Cardinality(SampleRecords(l)) = 1
    /\ agent[o].native \/ IsAgy(l)

(* The baseline of the confirmation is an idle agent, and no read of the      *)
(* sample shows another lifecycle.                                            *)
IdleBaseline(o) == agent[o].st = "idle"
NoLifecycleSkew(l, o) == agent[o].seq = L[l].base

Ready(l, o) == CompleteIdentity(l, o) /\ IdleBaseline(o) /\ NoLifecycleSkew(l, o)

(* The read window: the caller's abort ends it, its deadline may. *)
WindowOpen(l) == ~L[l].aborted
WindowCloses(l) == Calm /\ Fails(l)

Judge(l) ==
    /\ At(l, "judge") /\ LaunchOnly
    /\ LET o == Occupant(L[l].pane)
       IN  \/ Contradictory(l) /\ Calm /\ Fails(l)
           \/ ~Contradictory(l) /\ Ready(l, o) /\ WindowOpen(l) /\ Calm /\ Put(l, [pc |-> "bind", ident |-> o])
           \/ /\ ~Contradictory(l) /\ ~Ready(l, o) /\ WindowOpen(l) /\ L[l].pane \in OpenPanes /\ Calm
              /\ Put(l, [pc |-> "ready"])
           \/ (~Ready(l, o) \/ ~WindowOpen(l)) /\ WindowCloses(l)
           \/ Ready(l, o) /\ Trouble("faults") /\ Fails(l)

-----------------------------------------------------------------------------
(* Supervision. *)

(* bind takes a snapshot of its own: the child must still be there. *)
BindExact(l) ==
    /\ At(l, "bind") /\ ~IsAgy(l) /\ LaunchOnly
    /\ LET o == Occupant(L[l].pane)
           proven == o # NoAgent /\ SameIdentity(o, L[l].ident)
       IN  \/ proven /\ Calm /\ Put(l, [pc |-> "prompt", res |-> "bound"])
           \/ ~proven /\ Calm /\ Fails(l)
           \/ proven /\ Trouble("faults") /\ Fails(l)

(* bindProvisional also wants the lifecycle of the sample unchanged. *)
BaselineUnchanged(l, o) == agent[o].st = "idle" /\ agent[o].seq = L[l].base

CommitProvisional(l, o) ==
    Put(l, [pc |-> "prompt", res |-> "provisional",
            prov |-> [seq |-> L[l].base, rejected |-> FALSE,
                      native |-> IF agent[o].native THEN o ELSE NoAgent]])

BindProvisional(l) ==
    /\ At(l, "bind") /\ IsAgy(l) /\ LaunchOnly
    /\ LET o == Occupant(L[l].pane)
           proven == ProvisionalContinuity(l, o) /\ BaselineUnchanged(l, o)
       IN  \/ proven /\ Calm /\ CommitProvisional(l, o)
           \/ ~proven /\ Calm /\ Fails(l)
           \/ proven /\ Trouble("faults") /\ Fails(l)

Watching(l) == L[l].res = "provisional" /\ ~L[l].prov.rejected

(* The first rejected evidence is the one that counts. *)
MarkProvisionalFailure(l) == Put(l, [prov |-> [L[l].prov EXCEPT !.rejected = TRUE]])

(* The native session seen first is retained; a session that differs, or one  *)
(* that is gone again, contradicts it.                                        *)
NativeAgrees(l, o) ==
    L[l].prov.native # NoAgent => agent[o].native /\ o = L[l].prov.native
FirstNative(l, o) == IF agent[o].native THEN o ELSE L[l].prov.native

(* A pane event: kind, session and a lifecycle that never goes back.  The     *)
(* event of a pane whose agent left carries none of them.                     *)
EventAccepted(l, o) ==
    o # NoAgent /\ Kind[agent[o].point] = "agy" /\ NativeAgrees(l, o) /\ agent[o].seq >= L[l].prov.seq

FoldProvisional(l) ==
    /\ Watching(l) /\ Calm /\ LaunchOnly
    /\ LET o == Occupant(L[l].pane)
       IN  \/ ~EventAccepted(l, o) /\ MarkProvisionalFailure(l)
           \/ /\ EventAccepted(l, o)
              /\ Put(l, [prov |-> [seq |-> agent[o].seq, native |-> FirstNative(l, o), rejected |-> FALSE]])

(* A reconnect or periodic snapshot, and a snapshot that could not be read. *)
ApplyProvisionalSnapshot(l) ==
    /\ Watching(l) /\ Calm /\ LaunchOnly
    /\ LET o == Occupant(L[l].pane)
           accepted == ProvisionalContinuity(l, o) /\ NativeAgrees(l, o)
       IN  \/ ~accepted /\ MarkProvisionalFailure(l)
           \/ accepted /\ Put(l, [prov |-> [L[l].prov EXCEPT !.native = FirstNative(l, o)]])

ReconciliationFails(l) ==
    Watching(l) /\ Trouble("faults") /\ MarkProvisionalFailure(l) /\ LaunchOnly

-----------------------------------------------------------------------------
(* The prompt. *)

PromptRequest(l) == [op |-> "prompt", by |-> l, pane |-> L[l].pane, tab |-> NoTab, point |-> NoPoint]

(* Mutant: the acknowledgement is not compared. *)
AnyAck(l, a) == TRUE

(* The acknowledgement must name the captured identity. *)
AckMatches(l, a) == IF IsAgy(l) THEN ProvisionalContinuity(l, a) ELSE SameIdentity(a, L[l].ident)

(* The limit reader is registered before the prompt can be answered; the      *)
(* prompt goes to whatever agent the pane holds.                              *)
Prompt(l) ==
    /\ At(l, "prompt")
    /\ LET o == Occupant(L[l].pane)
           hooked == [hook |-> HasLimitReader(L[l].cur)]
       IN  \/ L[l].aborted /\ Calm /\ Failing(l, hooked) /\ HostUnchanged
           \/ /\ ~L[l].aborted /\ TakesPrompt(o) /\ UNCHANGED <<pane, late>>
              /\ \E text \in TextsOf(o) : agent' = Prompted(o, l, text)
              /\ \/ AckMatches(l, o) /\ Calm /\ Put(l, With(hooked, [pc |-> "confirm", submitted |-> TRUE, ack |-> o]))
                 \/ ~AckMatches(l, o) /\ Calm /\ Failing(l, hooked)
                 \/ Trouble("faults") /\ Failing(l, hooked)
           \/ ~L[l].aborted /\ ~TakesPrompt(o) /\ Calm /\ Failing(l, hooked) /\ HostUnchanged
           \/ /\ ~L[l].aborted /\ Trouble("faults") /\ Failing(l, hooked) /\ UNCHANGED <<pane, agent>>
              /\ late' \in {late} \union {late \union {PromptRequest(l)} : p \in {L[l].pane} \intersect OpenPanes}
    /\ Rest /\ UNCHANGED <<cool, run, rec>>

(* classifyPromptObservation: a lifecycle past the baseline, of an agent with *)
(* all of its identity.                                                       *)
Consumed(l, o) == agent[o].native /\ agent[o].seq > L[l].base

(* A Devin that stays idle to the deadline gets one look at its composer and  *)
(* a second window.                                                           *)
SubmitIfUnsent(o) ==
    agent' \in {agent} \union {[agent EXCEPT ![a].text = "sent"] : a \in {b \in {o} : agent[b].text = "unsent"}}

ConfirmPromptConsumption(l) ==
    /\ At(l, "confirm") /\ ~IsAgy(l)
    /\ LET o == Occupant(L[l].pane)
           known == o # NoAgent /\ SameIdentity(o, L[l].ack)
           seen == known /\ WindowOpen(l)
           look == Kind[L[l].cur] = "devin" /\ ~L[l].resent
       IN  \/ seen /\ Consumed(l, o) /\ Calm /\ Put(l, [pc |-> "launched"]) /\ HostUnchanged
           \/ ~seen /\ Calm /\ Fails(l) /\ HostUnchanged
           \/ seen /\ ~Consumed(l, o) /\ ~look /\ WindowCloses(l) /\ HostUnchanged
           \/ /\ seen /\ ~Consumed(l, o) /\ look /\ Calm
              /\ Put(l, [resent |-> TRUE]) /\ SubmitIfUnsent(o) /\ UNCHANGED <<pane, late>>
           \/ seen /\ Consumed(l, o) /\ Trouble("faults") /\ Fails(l) /\ HostUnchanged
    /\ Rest /\ UNCHANGED <<cool, run, rec>>

(* AGY: the identity is complete only with the session of its first turn. *)
ConfirmAgyNativeSession(l) ==
    /\ At(l, "confirm") /\ IsAgy(l) /\ LaunchOnly
    /\ LET o == Occupant(L[l].pane)
           seen == ProvisionalContinuity(l, o) /\ WindowOpen(l)
       IN  \/ seen /\ Consumed(l, o) /\ Calm /\ Put(l, [pc |-> "strengthen", ident |-> o])
           \/ ~seen /\ Calm /\ Fails(l)
           \/ seen /\ ~Consumed(l, o) /\ WindowCloses(l)
           \/ seen /\ Consumed(l, o) /\ Trouble("faults") /\ Fails(l)

(* The lifecycle moved on from the baseline and not back from what was folded. *)
Advanced(l, o) == agent[o].seq > L[l].base /\ agent[o].seq >= L[l].prov.seq

(* The snapshot shows the confirmed session and nothing seen so far speaks    *)
(* against it; an earlier event that is drained only now goes back from it.   *)
CommitStrengthening(l) ==
    /\ At(l, "strengthen") /\ LaunchOnly
    /\ LET o == Occupant(L[l].pane)
           proven == /\ Watching(l) /\ ProvisionalContinuity(l, o) /\ Advanced(l, o)
                     /\ NativeAgrees(l, o) /\ o = L[l].ident
           rejected == [pc |-> "failing", prov |-> [L[l].prov EXCEPT !.rejected = TRUE]]
       IN  \/ proven /\ Calm /\ Put(l, [pc |-> "launched", res |-> "bound"])
           \/ ~proven /\ Calm /\ Put(l, rejected)
           \/ proven /\ agent[o].seq > L[l].prov.seq + 1 /\ Calm /\ Put(l, rejected)
           \/ proven /\ Trouble("faults") /\ Put(l, rejected)
=============================================================================
