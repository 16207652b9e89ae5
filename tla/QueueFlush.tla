------------------------------ MODULE QueueFlush ------------------------------
(***************************************************************************)
(* The writers of prompts and of completing Enters.  A prompt resolves its *)
(* target, takes the pane's write lock, proves the target afresh, writes   *)
(* and releases (src/src/tools/communicate.ts; the wakes of                *)
(* supervision/notify.ts and the initial prompt of tools/launch.ts ride    *)
(* the same section, as do the hints of IdleHints).  A prompt written to   *)
(* a busy Devin schedules a flush in its host; a launch's prompt that is   *)
(* not seen consumed gets one Enter of its own                             *)
(* (src/src/messages/devin-queue-flush.ts).                                *)
(***************************************************************************)
EXTENDS PaneWorld

MaxPresses == 2     \* DEVIN_QUEUE_FLUSH_MAX_PRESSES

VARIABLES
    send,       \* the delivery of each prompt
    flush,      \* each host's flush queue for the pane
    key         \* each writer's locked proof-and-key section

flushVars == <<send, flush, key>>

NoSend == [pc |-> "idle", host |-> Nothing, occ |-> 0, busy |-> FALSE]
NoFlush == [waiting |-> Nothing, running |-> Nothing, pending |-> Nothing, presses |-> 0,
            last |-> {}, occ |-> 0]
NoKey == [pc |-> "idle", cand |-> <<{}, {}>>, occ |-> 0]

SendStates ==
    [pc: {"idle", "resolved", "locked", "verified", "written", "acked", "unsent", "done"},
     host: Hosts \cup {Nothing}, occ: 0..MaxOccupants, busy: BOOLEAN]
FlushStates ==
    [waiting: Messages \cup {Nothing}, running: Messages \cup {Nothing},
     pending: Messages \cup {Nothing}, presses: 0..MaxPresses,
     last: SUBSET Interiors, occ: 0..MaxOccupants]
KeyStates ==
    [pc: {"idle", "locked", "candidate", "drained", "joined", "final", "checked", "recorded", "sent"},
     cand: Interiors, occ: 0..MaxOccupants]

FlushTypeOK ==
    /\ send \in [Messages -> SendStates]
    /\ flush \in [Hosts -> FlushStates]
    /\ key \in [Messages \cup Hosts -> KeyStates]

FlushInit ==
    /\ send = [m \in Messages |-> NoSend]
    /\ flush = [h \in Hosts |-> NoFlush]
    /\ key = [w \in Messages \cup Hosts |-> NoKey]

-----------------------------------------------------------------------------
(* Prompts. *)

StepSend(m, pc) == send' = [send EXCEPT ![m].pc = pc]

(* resolve_target and pre_state: the target as one snapshot and its reads show it. *)
ResolveTarget(m, h) ==
    /\ {m, h} \subseteq cast /\ m \notin Hints
    /\ send[m].pc = "idle"
    /\ Joins(pane.occ)
    /\ send' = [send EXCEPT ![m] = [pc |-> "resolved", host |-> h, occ |-> pane.occ, busy |-> FALSE]]
    /\ UNCHANGED <<worldVars, flush, key>>

(* The user at the keyboard, or a client that is not herdr-tools, writes the  *)
(* text: it takes no lock and schedules no flush.                             *)
RawWrite(m) ==
    /\ {RawClients, m} \subseteq cast /\ m \notin Hints
    /\ send[m].pc = "idle"
    /\ Joins(pane.occ)
    /\ TextLands(m)
    /\ StepSend(m, "done")
    /\ UNCHANGED <<landed, lane, lock, fence, repeated, faults, lapsed, flush, key>>

(* Mutant of EnterSection: a delivery path that does not ride the lock. *)
SectionSkipped(m) ==
    /\ send[m].pc = "resolved"
    /\ StepSend(m, "locked")
    /\ UNCHANGED <<worldVars, flush, key>>

(* writeSection *)
EnterSection(m) ==
    /\ send[m].pc = "resolved"
    /\ TakeLock(m)
    /\ StepSend(m, "locked")
    /\ UNCHANGED <<pane, turns, landed, lane, fence, pressed, repeated, faults, lapsed, flush, key>>

(* The lock wait ran out: the delivery fails before it wrote. *)
SectionRefused(m) ==
    /\ send[m].pc = "resolved"
    /\ lock # Nothing
    /\ StepSend(m, "done")
    /\ UNCHANGED <<worldVars, flush, key>>

(* verifyFreshPromptTarget: the fresh reads must join with the snapshot's.   *)
(* The state it proves, not a later one, decides whether a flush is needed.  *)
VerifyFreshPromptTarget(m) ==
    /\ send[m].pc = "locked"
    /\ Joins(send[m].occ)
    /\ send' = [send EXCEPT ![m].pc = "verified", ![m].busy = pane.status = "working"]
    /\ UNCHANGED <<worldVars, flush, key>>

FreshTargetRefused(m) ==
    /\ send[m].pc = "locked"
    /\ ~Joins(send[m].occ)
    /\ StepSend(m, "written")
    /\ UNCHANGED <<worldVars, flush, key>>

(* agent.prompt.  The acknowledgement counts only when it names the proven    *)
(* identity; a lost one leaves the text in the pane and nothing scheduled.    *)
WritePrompt(m) ==
    /\ send[m].pc = "verified"
    /\ Joins(pane.occ)
    /\ TextLands(m)
    /\ landed' = landed \cup {m}
    /\ \/ pane.occ = send[m].occ /\ StepSend(m, "acked")
       \/ StepSend(m, "written")
    /\ UNCHANGED <<lane, lock, fence, repeated, faults, lapsed, flush, key>>

PromptRejected(m) ==
    /\ send[m].pc = "verified"
    /\ ~Joins(pane.occ)
    /\ StepSend(m, "written")
    /\ UNCHANGED <<worldVars, flush, key>>

(* schedule: an acknowledgement joins the cycle that still waits, or the one  *)
(* pending behind it, or becomes the pending one.                             *)
Schedule(f, m, occ) ==
    IF f.waiting # Nothing THEN [f EXCEPT !.waiting = m, !.occ = occ]
    ELSE [f EXCEPT !.pending = m]

(* lease.release, then queueFlushEligible and schedule. *)
LeaveSection(m) ==
    /\ send[m].pc \in {"written", "acked"}
    /\ DropLock(m)
    /\ StepSend(m, IF send[m].pc = "acked" /\ m \in LaunchPrompts THEN "unsent" ELSE "done")
    /\ flush' = IF send[m].pc = "acked" /\ send[m].busy /\ m \notin LaunchPrompts
                THEN [flush EXCEPT ![send[m].host] = Schedule(@, m, send[m].occ)]
                ELSE flush
    /\ UNCHANGED <<pane, turns, landed, lane, fence, pressed, repeated, faults, lapsed, key>>

(* confirmPromptConsumption saw the launch's prompt consumed, or gave up. *)
ConsumptionSeen(m) ==
    /\ send[m].pc = "unsent" /\ key[m] = NoKey
    /\ StepSend(m, "done")
    /\ UNCHANGED <<worldVars, flush, key>>

-----------------------------------------------------------------------------
(* Flush cycles: chained on the host's tail, one pending behind the running. *)

(* runCycle starts: the pending cycle waits for the agent to go idle. *)
CycleStarts(h) ==
    /\ flush[h].pending # Nothing /\ flush[h].waiting = Nothing /\ flush[h].running = Nothing
    /\ flush' = [flush EXCEPT ![h] =
                   [NoFlush EXCEPT !.waiting = flush[h].pending,
                                   !.occ = send[flush[h].pending].occ]]
    /\ UNCHANGED <<worldVars, send, key>>

(* agent wait returns on an idle agent. *)
WaitReturns(h) ==
    /\ flush[h].waiting # Nothing
    /\ pane.open /\ pane.status = "idle"
    /\ flush' = [flush EXCEPT ![h].running = flush[h].waiting, ![h].waiting = Nothing]
    /\ UNCHANGED <<worldVars, send, key>>

(* agent wait timed out or failed, or the cycle's budget or session ended. *)
WaitFails(h) ==
    /\ flush[h].waiting # Nothing
    /\ flush' = [flush EXCEPT ![h] = [NoFlush EXCEPT !.pending = flush[h].pending]]
    /\ UNCHANGED <<worldVars, send, key>>

CycleOver(h) == [NoFlush EXCEPT !.pending = flush[h].pending]

-----------------------------------------------------------------------------
(* The locked proof-and-key section: of a host's running cycle (pressOnce) or *)
(* of a launch's prompt (submitIfUnsent).                                     *)

StepKey(w, pc) == key' = [key EXCEPT ![w].pc = pc]

Expected(w) == IF w \in Hosts THEN flush[w].occ ELSE send[w].occ

WantsKey(w) ==
    IF w \in Hosts THEN flush[w].running # Nothing ELSE send[w].pc = "unsent"

TakeKeySection(w) ==
    /\ key[w] = NoKey
    /\ WantsKey(w)
    /\ TakeLock(w)
    /\ StepKey(w, "locked")
    /\ UNCHANGED <<pane, turns, landed, lane, fence, pressed, repeated, faults, lapsed, send, flush>>

(* What each caller takes for unsent content; a flush presses only a queued   *)
(* row above an untouched input line.                                         *)
Unsent(w, c) == IF w \in Hosts THEN c.queued /\ c.inputEmpty ELSE c.queued \/ ~c.inputEmpty

(* The candidate read; a flush that sees a drained composer goes on to rearm. *)
ReadCandidate(w) ==
    /\ key[w].pc = "locked"
    /\ Joins(pane.occ)
    /\ LET c == Composer(pane) IN
       \/ /\ Unsent(w, c)
          /\ key' = [key EXCEPT ![w].pc = "candidate", ![w].cand = c.interior]
       \/ /\ w \in Hosts /\ ~c.queued /\ c.inputEmpty
          /\ key' = [key EXCEPT ![w].pc = "drained", ![w].cand = c.interior]
    /\ UNCHANGED <<worldVars, send, flush>>

(* The fresh join of the occupant, and for a flush its idle state; an interior *)
(* the cycle has just pressed is repaint lag.                                  *)
JoinOccupant(w) ==
    /\ key[w].pc = "candidate"
    /\ Joins(Expected(w))
    /\ w \in Hosts => pane.status = "idle" /\ key[w].cand \notin flush[w].last
    /\ key' = [key EXCEPT ![w].pc = "joined", ![w].occ = pane.occ]
    /\ UNCHANGED <<worldVars, send, flush>>

RearmFence(w) ==
    /\ key[w].pc = "drained"
    /\ Joins(Expected(w)) /\ pane.status = "idle"
    /\ fence' = Rearmed(pane.occ)
    /\ StepKey(w, "sent")
    /\ UNCHANGED <<pane, turns, landed, lane, lock, pressed, repeated, faults, lapsed, send, flush>>

(* provenEnter: the second read equals the candidate and is still unsent. *)
ReadFinal(w) ==
    /\ key[w].pc = "joined"
    /\ Joins(pane.occ)
    /\ Interior(pane) = key[w].cand
    /\ Unsent(w, Composer(pane))
    /\ StepKey(w, "final")
    /\ UNCHANGED <<worldVars, send, flush>>

(* Mutant of CheckFence: the lease is not checked again before the key. *)
CheckFenceOnly(w) ==
    /\ key[w].pc = "final"
    /\ ~IsSpent(key[w].occ, key[w].cand)
    /\ StepKey(w, "checked")
    /\ UNCHANGED <<worldVars, send, flush>>

(* isSpent, then lease.check. *)
CheckFence(w) ==
    /\ key[w].pc = "final"
    /\ ~IsSpent(key[w].occ, key[w].cand)
    /\ LeaseHolds(w)
    /\ StepKey(w, "checked")
    /\ UNCHANGED <<worldVars, send, flush>>

(* fence.record, durable before the key is sent. *)
RecordSpent(w) ==
    /\ key[w].pc = "checked"
    /\ Recordable(key[w].occ, key[w].cand)
    /\ fence' = Recorded(key[w].occ, key[w].cand)
    /\ StepKey(w, "recorded")
    /\ UNCHANGED <<pane, turns, landed, lane, lock, pressed, repeated, faults, lapsed, send, flush>>

(* agent send-keys enter *)
SendEnter(w) ==
    /\ key[w].pc = "recorded"
    /\ EnterLands(key[w].cand)
    /\ repeated' = (repeated \/ key[w].cand \in pressed)
    /\ StepKey(w, "sent")
    /\ flush' = IF w \in Hosts
                THEN [flush EXCEPT ![w].presses = @ + 1, ![w].last = {key[w].cand}]
                ELSE flush
    /\ UNCHANGED <<landed, lane, lock, fence, faults, lapsed, send>>

(* Whether the section ended without a key: any proof above that did not hold. *)
Refused(w) ==
    \/ key[w].pc = "locked" /\
         (~Joins(pane.occ) \/ ~(Unsent(w, Composer(pane)) \/ (w \in Hosts /\ Interior(pane) = <<{}, {}>>)))
    \/ key[w].pc \in {"candidate", "drained"} /\
         (~Joins(Expected(w))
            \/ (w \in Hosts /\ (pane.status # "idle" \/ (key[w].pc = "candidate" /\ key[w].cand \in flush[w].last))))
    \/ key[w].pc = "joined" /\
         (~Joins(pane.occ) \/ Interior(pane) # key[w].cand \/ ~Unsent(w, Composer(pane)))
    \/ key[w].pc = "final" /\ (IsSpent(key[w].occ, key[w].cand) \/ ~LeaseHolds(w))
    \/ key[w].pc = "checked" /\ ~Recordable(key[w].occ, key[w].cand)

(* The finally of both callers.  A flush goes on only after a key it sent,    *)
(* and never past its presses; a launch's prompt gets one.                    *)
LeaveKeySection(w) ==
    /\ Refused(w) \/ key[w].pc = "sent"
    /\ DropLock(w)
    /\ key' = [key EXCEPT ![w] = NoKey]
    /\ IF w \in Hosts
       THEN /\ flush' = IF key[w].pc = "sent" /\ flush[w].last = {key[w].cand}
                             /\ flush[w].presses < MaxPresses
                        THEN flush ELSE [flush EXCEPT ![w] = CycleOver(w)]
            /\ UNCHANGED send
       ELSE StepSend(w, "done") /\ UNCHANGED flush
    /\ UNCHANGED <<pane, turns, landed, lane, fence, pressed, repeated, faults, lapsed>>

(* The lock wait of a key section ran out. *)
KeySectionRefused(w) ==
    /\ key[w] = NoKey
    /\ WantsKey(w)
    /\ lock # Nothing
    /\ IF w \in Hosts
       THEN flush' = [flush EXCEPT ![w] = CycleOver(w)] /\ UNCHANGED send
       ELSE StepSend(w, "done") /\ UNCHANGED flush
    /\ UNCHANGED <<worldVars, key>>

-----------------------------------------------------------------------------
(* Faults. *)

(* A host process dies: its deliveries, its flush and its lock holder with it. *)
(* What it had recorded spent stays spent.                                     *)
CrashHost(h) ==
    LET own == {m \in Messages : send[m].host = h /\ send[m].pc # "done"} IN
    /\ own \cup {m \in Messages : flush[h] # NoFlush} # {}
    /\ Fault
    /\ send' = [m \in Messages |-> IF m \in own THEN [send[m] EXCEPT !.pc = "done"] ELSE send[m]]
    /\ flush' = [flush EXCEPT ![h] = NoFlush]
    /\ key' = [w \in Messages \cup Hosts |-> IF w \in own \cup {h} THEN NoKey ELSE key[w]]
    /\ lock' = IF lock \in own \cup {h} THEN Nothing ELSE lock
    /\ UNCHANGED <<pane, turns, landed, lane, fence, pressed, repeated, lapsed>>

(* Writers past their last look at the lease: a prompt never looks, and a    *)
(* flush that comes to read a drained composer rearms without looking.        *)
PastItsCheck(w) ==
    \/ w \in Messages /\ send[w].pc \in {"locked", "verified"}
    \/ w \in Hosts /\ key[w].pc = "locked"
    \/ w \in Messages \cup Hosts /\ key[w].pc \in {"drained", "checked", "recorded"}

FlushStep ==
    \/ \E m \in Messages :
         \/ \E h \in Hosts : ResolveTarget(m, h)
         \/ RawWrite(m) \/ EnterSection(m) \/ SectionRefused(m) \/ VerifyFreshPromptTarget(m)
         \/ FreshTargetRefused(m) \/ WritePrompt(m) \/ PromptRejected(m) \/ LeaveSection(m)
         \/ ConsumptionSeen(m)
    \/ \E h \in Hosts : CycleStarts(h) \/ WaitReturns(h) \/ WaitFails(h) \/ CrashHost(h)
    \/ \E w \in Messages \cup Hosts :
         \/ TakeKeySection(w) \/ KeySectionRefused(w) \/ ReadCandidate(w) \/ JoinOccupant(w)
         \/ RearmFence(w) \/ ReadFinal(w) \/ CheckFence(w) \/ RecordSpent(w) \/ SendEnter(w)
         \/ LeaveKeySection(w)

=============================================================================
