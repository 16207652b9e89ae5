-------------------------- MODULE SupervisionProofs --------------------------
(***************************************************************************)
(* What holds of one supervisor, its job and the gate of its run for every *)
(* set of casts and contents and every bound on turns, panes, reads, drops,*)
(* faults, writes, repairs, records and daemon processes.                  *)
(*                                                                         *)
(* The synchronous methods of the supervisor are operators on its memory,  *)
(* so they have lemmas of their own: each gives a memory again (IsSup),   *)
(* keeps what it has no business with (Same), and does to the cadence, the *)
(* verdicts and the cycle only what Folded allows.                         *)
(***************************************************************************)
EXTENDS Supervision, FiniteSetTheorems, SequenceTheorems, WellFoundedInduction, TLAPS

-----------------------------------------------------------------------------
(* The memory of a supervisor. *)

AtRec ==
    [pc: {"none", "move", "consume", "leave", "signal", "limit", "validate", "accept", "record",
          "repair", "prompt"},
     outcome: Outcomes, content: Contents \cup {"none"}, n: Nat]

SomeEndpoint == [rev: Nat, status: Statuses \cup {"unknown"}, seq: Nat]

Fields ==
    {"state", "bind", "published", "queued", "pane", "moved", "ends", "seq0", "gen", "rev",
     "seq", "status", "last", "lastTo", "run", "timer", "retired", "stopped", "paused",
     "stream", "recon", "fails", "announced", "signal", "attempts", "retry", "recorded",
     "held", "deliver", "managed", "open", "life", "accepted", "marking", "todo", "at",
     "outcome", "base", "completed", "due", "woken", "limited", "late", "gaps", "cycles"}

IsSup(s) ==
    /\ DOMAIN s = Fields
    /\ s.state \in {"starting", "active", "settled"}
    /\ s.bind \in {"no", "reading", "drain", "done", "failed"}
    /\ s.published \in BOOLEAN /\ s.timer \in BOOLEAN /\ s.retired \in BOOLEAN
    /\ s.stopped \in BOOLEAN /\ s.paused \in BOOLEAN /\ s.stream \in BOOLEAN
    /\ s.recon \in BOOLEAN /\ s.announced \in BOOLEAN /\ s.signal \in BOOLEAN
    /\ s.retry \in BOOLEAN /\ s.recorded \in BOOLEAN /\ s.held \in BOOLEAN
    /\ s.deliver \in BOOLEAN /\ s.managed \in BOOLEAN /\ s.open \in BOOLEAN
    /\ s.queued \in Seq(Event)
    /\ s.pane \in 0..MaxPanes
    /\ s.moved \in Event \cup {NoEvent}
    /\ s.ends \in Seq(Endpoint)
    /\ s.seq0 \in Nat /\ s.gen \in Nat /\ s.rev \in Nat /\ s.seq \in Nat /\ s.run \in Nat
    /\ s.attempts \in Nat /\ s.marking \in Nat /\ s.base \in Nat /\ s.completed \in Nat
    /\ s.due \in Nat /\ s.woken \in Nat /\ s.limited \in Nat /\ s.late \in Nat /\ s.gaps \in Nat
    /\ s.cycles \in Nat
    /\ s.status \in Statuses \cup {"unknown"}
    /\ s.last \in SomeEndpoint
    /\ s.lastTo \in Statuses \cup {"none"}
    /\ s.fails \in 0..Threshold
    /\ s.life \in Lives
    /\ s.accepted \in Contents \cup {"none"}
    /\ s.todo \in Seq({"completion", "handoff"})
    /\ s.at \in AtRec
    /\ s.outcome \in Outcomes

ReviewRec ==
    [pc: {"none", "reading", "building", "judging", "storing"}, run: Nat, gen: Nat,
     window: {review.window}]

EvidenceRec ==
    [cursor: {evidence.cursor}, degraded: BOOLEAN, fails: 0..Threshold, announced: BOOLEAN,
     windows: {evidence.windows}, passed: {evidence.passed}]

TraceRec ==
    [source: Sources, records: Seq(Entry), tail: {"none", "fits", "long"}, written: 0..MaxRecords]

(* Verdicts that are due were sent, or are the one that is held; what was     *)
(* sent beside them are late limits, and a cycle has one limit at most.       *)
Waiting(s) == IF s.held /\ s.deliver THEN 1 ELSE 0
Even(s) == s.woken + Waiting(s) = s.due + s.late
Latched(s) ==
    /\ s.late <= s.limited
    /\ s.limited <= s.cycles + (IF s.recorded THEN 1 ELSE 0)
Sent(s) == Even(s) /\ Latched(s)

(* Where a cycle of a run that was handed off is under way, it is open: only  *)
(* a settlement accepts an artifact while the child works.                    *)
Reopened(s) ==
    /\ s.retired => s.managed
    /\ s.retired /\ s.status = "working" =>
          s.open \/ Over(s) \/ (s.at.pc = "record" /\ s.at.outcome # "none")

(* The task in hand. *)
Tasks(s) ==
    /\ s.at.pc = "none" => s.at = Idle
    /\ s.at.pc = "move" => s.moved # NoEvent /\ s.gen > 0
    /\ s.at.pc \in {"validate", "accept", "record", "repair", "prompt"} => s.managed
    /\ s.at.pc = "consume" => s.at.outcome # "none"
    /\ s.at.pc \in {"signal", "leave"} => ~s.recorded
    /\ IsSettled(s) /\ ~s.stopped => s.at = Idle
    /\ s.at.pc = "accept" => s.at.content \in Contents
    /\ s.at.pc \notin {"accept", "record"} => s.at.content = "none"
    /\ s.at.pc \in {"validate", "accept", "record"} /\ s.at.outcome = "none" => s.status \in Terminal
    /\ s.at.pc = "record" /\ s.at.content # "none" => ~s.open

(* Before the anchor nothing was folded, and before the binding no run is     *)
(* mirrored; what is bound is published, and what is stopped is settled.      *)
Binding(s) ==
    /\ s.bind = "done" => s.published
    /\ s.bind # "done" => s.published = FALSE
    /\ s.stopped => s.state = "settled"
    /\ s.bind = "no" => s.managed = FALSE
    /\ s.bind \in {"no", "reading"} =>
          s.at = Idle /\ ~s.retired /\ s.status = "unknown" /\ ~s.published

Armed(s) == s.timer => s.published /\ (Over(s) => s.stopped /\ s.gen > 0)

SupInv(s) ==
    /\ IsSup(s)
    /\ s.moved = NoEvent <=> s.ends = <<>>
    /\ Armed(s)
    /\ ~s.stopped => Sent(s)
    /\ Reopened(s)
    /\ Tasks(s)
    /\ Binding(s)

-----------------------------------------------------------------------------
(* The inductive invariant. *)

WorldInv ==
    /\ WorldTypeOK
    /\ link.next > 0

DaemonInv ==
    /\ daemon \in [pc: {"up", "flushing", "stopping", "down"}, boot: Nat]
    /\ review \in ReviewRec /\ evidence \in EvidenceRec
    /\ evidence.announced => evidence.degraded

(* The records of a trace are out of order by less than the slack. *)
Ordered(s) ==
    \A i, j \in 1..Len(s) : i < j /\ s[j].at # 0 => s[i].at < s[j].at + Slack

TraceInv ==
    /\ trace \in TraceRec
    /\ Ordered(trace.records)
    /\ trace.tail # "none" => trace.written < MaxRecords
    /\ store \in [nodes: Seq(Node), head: Nat]
    /\ StoreTypeOK

(* An artifact that was read, or only written, is not yet a version of its own. *)
Reading(s) == s.at.pc = "accept"
Expected == IF Reading(sup) THEN sup.at.content ELSE sidecar.sha
ToAccept == IF Expected # sidecar.sha THEN 1 ELSE 0
ToRead == IF artifact \in Contents /\ artifact # Expected THEN 1 ELSE 0

Prompted == {v \in Versions : prompts[v] > 0}
ToPrompt == IF sup.at.pc = "prompt" THEN 1 ELSE 0

GateInv ==
    /\ GateTypeOK
    /\ sidecar.version + ToAccept + ToRead <= writes
    /\ \A v \in Versions : prompts[v] <= 1
    /\ \A v \in Versions :
          prompts[v] > 0 => v <= sidecar.version /\ (v = sidecar.version => sidecar.fence = v)
    /\ Cardinality(Prompted) + ToPrompt <= sidecar.attempts
    /\ sup.at.pc = "prompt" =>
          /\ sup.at.n = sidecar.version /\ sidecar.fence = sidecar.version
          /\ prompts[sidecar.version] = 0

(* The acceptance of this daemon is of the cycle that is not open. *)
CycleInv ==
    /\ since.boot <= daemon.boot
    /\ Alive /\ since.boot = daemon.boot /\ sidecar.sha # "none" =>
          /\ sup.managed
          /\ ~sup.open => since.cycle = sup.cycles
    /\ sup.at.pc = "record" /\ sup.at.content # "none" => sidecar.sha # "none"
    /\ AcceptedInItsCycle

JobInv ==
    /\ RegTypeOK
    /\ port[Job] = "active" <=> sup.state = "active"
    /\ port[Job] = "settled" => sup.state = "settled"
    /\ answer[Job] # "none" => sup.state = "settled"
    /\ LiveChildHasRunningJob
    /\ \A c \in Callers : call[c].pc # "idle" => call[c].job = Job /\ rec[Job].phase # "running"
    /\ prep[Job] # NoPrep => rec[Job].listed /\ prep[Job].how = "exact"
    /\ ~Alive => /\ answer[Job] = "none" /\ sup.state = "starting" /\ sup.at = Idle
                 /\ \A c \in Callers : call[c].pc = "idle"
                 /\ review = NoReview

(* Only a child that is published is reviewed. *)
Cadence == CadenceNeverStarves /\ (review.pc # "none" => sup.published)

IInv ==
    /\ WorldInv /\ DaemonInv /\ TraceInv
    /\ SupInv(sup)
    /\ GateInv
    /\ CycleInv
    /\ JobInv
    /\ Cadence

-----------------------------------------------------------------------------
(* Folding: what the synchronous methods do to a supervisor's memory. *)

Same(s, t) ==
    /\ t.state = s.state /\ t.bind = s.bind /\ t.published = s.published /\ t.queued = s.queued
    /\ t.retired = s.retired /\ t.stopped = s.stopped /\ t.signal = s.signal
    /\ t.managed = s.managed /\ t.life = s.life /\ t.accepted = s.accepted
    /\ t.outcome = s.outcome /\ t.at = s.at
    /\ t.limited = s.limited /\ t.late = s.late

Placed(s, t) == t.moved = s.moved /\ t.ends = s.ends /\ t.gen = s.gen

Calm(s) == (s.retired => s.managed) /\ (s.retired /\ s.status = "working" => s.open)

(* The cadence of a run that lives on is what it was, or is armed. *)
Cadent(s, t) ==
    /\ s.published => t.published
    /\ t.published /\ RunLive(t) =>
          t.timer \/ (s.published /\ RunLive(s) /\ t.run = s.run /\ t.timer = s.timer)

(* A new cycle is open, where there is a run to keep it. *)
Cycled(s, t) ==
    \/ t.cycles = s.cycles /\ t.open = s.open
    \/ t.open = s.managed

Folded(s, t) ==
    /\ IsSup(t)
    /\ Same(s, t)
    /\ Calm(s) => Calm(t)
    /\ Calm(s) /\ Sent(s) => Sent(t)
    /\ t.timer => s.timer \/ s.published
    /\ Cadent(s, t)
    /\ Cycled(s, t)

(* The fields the cadence, the verdicts and the cycles are about.          *)
Untouched(s, t) ==
    /\ Same(s, t)
    /\ t.status = s.status /\ t.run = s.run /\ t.timer = s.timer
    /\ t.held = s.held /\ t.deliver = s.deliver /\ t.due = s.due /\ t.woken = s.woken
    /\ t.open = s.open /\ t.cycles = s.cycles /\ t.recorded = s.recorded

LEMMA UntouchedFolds ==
    ASSUME NEW s, NEW t, IsSup(t), Untouched(s, t)
    PROVE  Folded(s, t)
  <1>0. Same(s, t)
    BY DEF Untouched
  <1>1. /\ t.retired = s.retired /\ t.managed = s.managed /\ t.status = s.status /\ t.open = s.open
        /\ t.published = s.published /\ t.stopped = s.stopped /\ t.state = s.state
        /\ t.run = s.run /\ t.timer = s.timer /\ t.cycles = s.cycles
    BY DEF Untouched, Same
  <1>2. Calm(s) => Calm(t)
    BY <1>1 DEF Calm
  <1>3. Sent(s) => Sent(t)
    BY DEF Untouched, Same, Sent, Even, Waiting, Latched
  <1>4. Cadent(s, t)
    BY <1>1 DEF Cadent, RunLive, Over, IsSettled
  <1>5. Cycled(s, t) /\ (t.timer => s.timer)
    BY <1>1 DEF Cycled
  <1> QED
    BY <1>0, <1>2, <1>3, <1>4, <1>5 DEF Folded

LEMMA GapFolds ==
    ASSUME NEW s, IsSup(s) PROVE IsSup(Gap(s)) /\ Untouched(s, Gap(s)) /\ Placed(s, Gap(s))
  <1> DEFINE n == s.gaps + 1
  <1>0. DOMAIN s = Fields /\ s.gaps \in Nat
    BY DEF IsSup
  <1>1. DOMAIN s = Fields /\ n \in Nat
    BY <1>0
  <1>2. Gap(s) = [s EXCEPT !.gaps = n]
    BY DEF Gap
  <1> HIDE DEF n
  <1>3. IsSup([s EXCEPT !.gaps = n])
    BY <1>1 DEF IsSup, Fields
  <1>4. Untouched(s, [s EXCEPT !.gaps = n]) /\ Placed(s, [s EXCEPT !.gaps = n])
    BY <1>1 DEF Fields, Untouched, Same, Placed
  <1> QED
    BY <1>2, <1>3, <1>4

LEMMA CompletionFolds ==
    ASSUME NEW s, IsSup(s)
    PROVE  LET t == ScheduleCompletion(s) IN IsSup(t) /\ Untouched(s, t) /\ Placed(s, t)
  <1> DEFINE t == [s EXCEPT !.todo = Append(@, "completion")]
  <1>1. IsSup(t) /\ Untouched(s, t) /\ Placed(s, t)
    BY DEF IsSup, Fields, Untouched, Same, Placed
  <1>2. IsSup(s) /\ Untouched(s, s) /\ Placed(s, s)
    BY DEF Untouched, Same, Placed
  <1> QED
    BY <1>1, <1>2 DEF ScheduleCompletion

(* The types of single fields. *)
LEMMA SupNumbers ==
    ASSUME NEW s, IsSup(s)
    PROVE  /\ s.woken \in Nat /\ s.due \in Nat /\ s.completed \in Nat /\ s.cycles \in Nat
           /\ s.run \in Nat /\ s.gen \in Nat /\ s.marking \in Nat /\ s.attempts \in Nat
           /\ s.limited \in Nat /\ s.late \in Nat /\ s.seq \in Nat /\ s.rev \in Nat /\ s.seq0 \in Nat /\ s.fails \in 0..Threshold
  BY DEF IsSup

LEMMA SupFlags ==
    ASSUME NEW s, IsSup(s)
    PROVE  /\ s.published \in BOOLEAN /\ s.timer \in BOOLEAN /\ s.retired \in BOOLEAN
           /\ s.stopped \in BOOLEAN /\ s.announced \in BOOLEAN /\ s.signal \in BOOLEAN
           /\ s.retry \in BOOLEAN /\ s.recorded \in BOOLEAN /\ s.held \in BOOLEAN
           /\ s.deliver \in BOOLEAN /\ s.managed \in BOOLEAN /\ s.open \in BOOLEAN
           /\ s.stream \in BOOLEAN
  BY DEF IsSup

LEMMA SupPlaces ==
    ASSUME NEW s, IsSup(s)
    PROVE  /\ s.pane \in 0..MaxPanes /\ s.moved \in Event \cup {NoEvent} /\ s.ends \in Seq(Endpoint)
           /\ s.at \in AtRec /\ s.todo \in Seq({"completion", "handoff"}) /\ s.queued \in Seq(Event)
           /\ s.status \in Statuses \cup {"unknown"} /\ s.life \in Lives /\ s.outcome \in Outcomes
           /\ s.state \in {"starting", "active", "settled"} /\ s.accepted \in Contents \cup {"none"}
           /\ s.bind \in {"no", "reading", "drain", "done", "failed"}
  BY DEF IsSup

LEMMA HandoffFolds ==
    ASSUME NEW s, IsSup(s)
    PROVE  LET t == ScheduleHandoff(s) IN IsSup(t) /\ Untouched(s, t) /\ Placed(s, t)
  <1> DEFINE t == [s EXCEPT !.todo = Append(@, "handoff")]
  <1>1. IsSup(t) /\ Untouched(s, t) /\ Placed(s, t)
    BY DEF IsSup, Fields, Untouched, Same, Placed
  <1>2. IsSup(s) /\ Untouched(s, s) /\ Placed(s, s)
    BY DEF Untouched, Same, Placed
  <1> QED
    BY <1>1, <1>2 DEF ScheduleHandoff

LEMMA WakeShape ==
    ASSUME NEW s, IsSup(s)
    PROVE  LET t == Wake(s) IN
           /\ IsSup(t) /\ Same(s, t) /\ Placed(s, t)
           /\ t.status = s.status /\ t.run = s.run /\ t.timer = s.timer
           /\ t.held = s.held /\ t.deliver = s.deliver /\ t.due = s.due
           /\ t.open = s.open /\ t.cycles = s.cycles
           /\ t.woken = IF s.deliver THEN s.woken + 1 ELSE s.woken
           /\ t.recorded = s.recorded /\ t.limited = s.limited /\ t.lastTo = s.lastTo /\ t.attempts = s.attempts
  <1> DEFINE w == IF s.deliver THEN s.woken + 1 ELSE s.woken
  <1>1. w \in Nat
    BY SupNumbers
  <1> HIDE DEF w
  <1>2. Wake(s) = [s EXCEPT !.woken = w]
    BY DEF Wake, w
  <1>3. LET t == [s EXCEPT !.woken = w] IN
        /\ IsSup(t) /\ Same(s, t) /\ Placed(s, t)
        /\ t.status = s.status /\ t.run = s.run /\ t.timer = s.timer
        /\ t.held = s.held /\ t.deliver = s.deliver /\ t.due = s.due
        /\ t.open = s.open /\ t.cycles = s.cycles
        /\ t.woken = w
        /\ t.recorded = s.recorded /\ t.limited = s.limited /\ t.lastTo = s.lastTo /\ t.attempts = s.attempts
    BY <1>1 DEF IsSup, Fields, Same, Placed
  <1> QED
    BY <1>2, <1>3 DEF w

LEMMA SupDomain == ASSUME NEW s, IsSup(s) PROVE DOMAIN s = Fields
  BY DEF IsSup

(* What the rest of a transition does not look at. *)
Beside(s, t) ==
    /\ IsSup(t) /\ Same(s, t) /\ Placed(s, t)
    /\ t.status = s.status

LEMMA FlushShape ==
    ASSUME NEW s, IsSup(s)
    PROVE  LET t == Flush(s) IN
           /\ Beside(s, t)
           /\ t.run = s.run /\ t.timer = s.timer /\ t.deliver = s.deliver /\ t.due = s.due
           /\ t.open = s.open /\ t.cycles = s.cycles /\ t.recorded = s.recorded
           /\ t.held = FALSE /\ t.woken = s.woken + Waiting(s)
  <1>1. CASE ~s.held
    <2>1. Flush(s) = s /\ Waiting(s) = 0
      BY <1>1 DEF Flush, Waiting
    <2>2. s.held = FALSE /\ s.woken + 0 = s.woken
      BY <1>1, SupFlags, SupNumbers
    <2> QED
      BY <2>1, <2>2 DEF Same, Placed, Beside
  <1>2. CASE s.held
    <2> DEFINE n == s.completed + 1
    <2>0. n \in Nat
      BY SupNumbers
    <2> HIDE DEF n
    <2> DEFINE a == [s EXCEPT !.held = FALSE, !.completed = n]
    <2>1. IsSup(a)
      BY <2>0 DEF IsSup, Fields
    <2>5. Same(s, a) /\ Placed(s, a)
      BY SupDomain DEF Fields, Same, Placed
    <2>2. /\ a.status = s.status /\ a.run = s.run /\ a.timer = s.timer /\ a.deliver = s.deliver
          /\ a.due = s.due /\ a.open = s.open /\ a.cycles = s.cycles /\ a.held = FALSE
          /\ a.woken = s.woken /\ a.recorded = s.recorded
      BY SupDomain DEF Fields
    <2>3. Flush(s) = Wake(a)
      BY <1>2 DEF Flush, n
    <2>4. Waiting(s) = (IF s.deliver THEN 1 ELSE 0)
      BY <1>2 DEF Waiting
    <2> HIDE DEF a
    <2> QED
      BY <2>1, <2>2, <2>3, <2>4, <2>5, SupNumbers, WakeShape DEF Beside, Same, Placed
  <1> QED
    BY <1>1, <1>2

LEMMA EnterShape ==
    ASSUME NEW s, IsSup(s)
    PROVE  LET t == EnterStatus(s) IN
           /\ Beside(s, t)
           /\ t.held = s.held /\ t.deliver = s.deliver /\ t.due = s.due /\ t.woken = s.woken
           /\ t.open = s.open /\ t.cycles = s.cycles /\ t.recorded = s.recorded
           /\ t.timer = (s.published /\ s.status = "working" /\ ~s.retired)
           /\ t.timer \/ t.run = s.run \/ s.retired
  <1> DEFINE n == s.run + 1
             r == ~s.retired
  <1>0. n \in Nat /\ r \in BOOLEAN
    BY SupNumbers
  <1> HIDE DEF n, r
  <1> DEFINE a == [s EXCEPT !.timer = FALSE]
             b == [s EXCEPT !.run = n, !.timer = r]
  <1>1. Beside(s, a) /\ Beside(s, b)
    <2>1. IsSup(a) /\ IsSup(b)
      BY <1>0 DEF IsSup, Fields
    <2> QED
      BY <2>1, SupDomain DEF Fields, Same, Placed, Beside
  <1>2. /\ a.held = s.held /\ a.deliver = s.deliver /\ a.due = s.due /\ a.woken = s.woken
        /\ a.open = s.open /\ a.cycles = s.cycles /\ a.recorded = s.recorded
        /\ a.timer = FALSE /\ a.run = s.run
    BY SupDomain DEF Fields
  <1>3. /\ b.held = s.held /\ b.deliver = s.deliver /\ b.due = s.due /\ b.woken = s.woken
        /\ b.open = s.open /\ b.cycles = s.cycles /\ b.recorded = s.recorded
        /\ b.timer = r
    BY SupDomain DEF Fields
  <1>4. EnterStatus(s) = IF ~s.published \/ s.status # "working" THEN a ELSE b
    BY DEF EnterStatus, n, r
  <1> HIDE DEF a, b
  <1> QED
    BY <1>1, <1>2, <1>3, <1>4, SupFlags DEF r

LEMMA OpenShape ==
    ASSUME NEW s, IsSup(s)
    PROVE  LET t == OpenCycle(s) IN
           /\ Beside(s, t)
           /\ t.held = s.held /\ t.deliver = s.deliver /\ t.due = s.due /\ t.woken = s.woken
           /\ t.run = s.run /\ t.timer = s.timer
           /\ t.open = s.managed /\ t.cycles = s.cycles + 1 /\ t.recorded = FALSE
  <1> DEFINE m == IF s.managed /\ s.life = "handed_off" THEN s.marking + 1 ELSE s.marking
             n == s.cycles + 1
  <1>1. m \in Nat /\ n \in Nat /\ s.managed \in BOOLEAN
    BY SupNumbers, SupFlags
  <1> HIDE DEF m, n
  <1>2. OpenCycle(s) = [s EXCEPT !.recorded = FALSE, !.cycles = n, !.open = s.managed, !.marking = m]
    BY DEF OpenCycle, m, n
  <1> DEFINE t == [s EXCEPT !.recorded = FALSE, !.cycles = n, !.open = s.managed, !.marking = m]
  <1>3. Beside(s, t)
    <2>1. IsSup(t)
      BY <1>1 DEF IsSup, Fields
    <2> QED
      BY <2>1, SupDomain DEF Fields, Same, Placed, Beside
  <1>4. /\ t.held = s.held /\ t.deliver = s.deliver /\ t.due = s.due /\ t.woken = s.woken
        /\ t.run = s.run /\ t.timer = s.timer
        /\ t.open = s.managed /\ t.cycles = n /\ t.recorded = FALSE
    BY SupDomain DEF Fields
  <1> QED
    BY <1>2, <1>3, <1>4 DEF n

LEMMA TellShape ==
    ASSUME NEW s, IsSup(s), NEW from, s.held = FALSE
    PROVE  LET t == TellTransition(s, from) IN
           /\ Beside(s, t)
           /\ t.run = s.run /\ t.timer = s.timer /\ t.deliver = s.deliver
           /\ t.open = s.open /\ t.cycles = s.cycles /\ t.recorded = s.recorded
           /\ (s.woken = s.due + s.late /\ (Material(from, s.status) = "work_cycle_completed" /\ from = "working" => s.deliver)) => Even(t)
  <1>1. CASE Material(from, s.status) # "work_cycle_completed" \/ (s.signal /\ s.recorded)
    <2>1. TellTransition(s, from) = s
      BY <1>1 DEF TellTransition
    <2>2. s.woken = s.due + s.late => Even(s)
      BY SupNumbers DEF Even, Waiting
    <2> QED
      BY <2>1, <2>2 DEF Beside, Same, Placed
  <1>2. CASE ~(Material(from, s.status) # "work_cycle_completed" \/ (s.signal /\ s.recorded))
    <2> DEFINE n == IF from = "working" \/ s.deliver THEN s.due + 1 ELSE s.due
               c == s.completed + 1
               e == IF from = "working" \/ s.deliver THEN [s EXCEPT !.due = @ + 1] ELSE s
    <2>1. n \in Nat /\ c \in Nat
      BY SupNumbers
    <2> HIDE DEF n, c
    <2>4. /\ Beside(s, e)
          /\ e.run = s.run /\ e.timer = s.timer /\ e.deliver = s.deliver
          /\ e.open = s.open /\ e.cycles = s.cycles /\ e.held = FALSE /\ e.woken = s.woken /\ e.due = n
          /\ e.recorded = s.recorded /\ e.late = s.late
          /\ e.completed = s.completed
      <3>1. CASE from = "working" \/ s.deliver
        <4>1. e = [s EXCEPT !.due = n]
          BY <3>1 DEF n
        <4> HIDE DEF e
        <4>2. IsSup([s EXCEPT !.due = n])
          BY <2>1 DEF IsSup, Fields
        <4> QED
          BY <4>1, <4>2, SupDomain DEF Fields, Same, Placed, Beside
      <3>2. CASE ~(from = "working" \/ s.deliver)
        BY <3>2 DEF Beside, Same, Placed, n
      <3> QED
        BY <3>1, <3>2
    <2>3. IsSup(e)
      BY <2>4 DEF Beside
    <2> HIDE DEF e
    <2> DEFINE g == [e EXCEPT !.held = TRUE]
               h == [e EXCEPT !.completed = c]
    <2>5. IsSup(g) /\ IsSup(h)
      BY <2>1, <2>3 DEF IsSup, Fields
    <2>6. /\ Beside(s, g)
          /\ g.run = s.run /\ g.timer = s.timer /\ g.deliver = s.deliver
          /\ g.open = s.open /\ g.cycles = s.cycles /\ g.held = TRUE /\ g.woken = s.woken /\ g.due = n
          /\ g.recorded = s.recorded /\ g.late = s.late
      BY <2>3, <2>4, <2>5, SupDomain DEF Fields, Same, Placed, Beside
    <2>7. /\ Beside(s, h)
          /\ h.run = s.run /\ h.timer = s.timer /\ h.deliver = s.deliver
          /\ h.open = s.open /\ h.cycles = s.cycles /\ h.held = FALSE /\ h.woken = s.woken /\ h.due = n
          /\ h.recorded = s.recorded /\ h.late = s.late
      BY <2>3, <2>4, <2>5, SupDomain DEF Fields, Same, Placed, Beside
    <2>8. TellTransition(s, from) = IF s.signal THEN g ELSE Wake(h)
      BY <1>2, <2>4 DEF TellTransition, c, e
    <2> HIDE DEF g, h
    <2>9. CASE s.signal
      <3>1. (s.woken = s.due + s.late /\ (from = "working" => s.deliver)) => Even(g)
        BY <2>6, SupNumbers DEF Even, Waiting, n
      <3> QED
        BY <1>2, <2>6, <2>8, <2>9, <3>1
    <2>10. CASE ~s.signal
      <3> DEFINE w == Wake(h)
      <3>1. /\ Beside(h, w) /\ w.run = h.run /\ w.timer = h.timer /\ w.deliver = h.deliver
            /\ w.open = h.open /\ w.cycles = h.cycles /\ w.held = FALSE /\ w.due = h.due
            /\ w.woken = IF h.deliver THEN h.woken + 1 ELSE h.woken
            /\ w.recorded = h.recorded /\ w.late = h.late
        BY <2>5, <2>7, WakeShape DEF Beside, Same
      <3> HIDE DEF w
      <3>2. (s.woken = s.due + s.late /\ (from = "working" => s.deliver)) => Even(w)
        BY <2>7, <3>1, SupNumbers, SupFlags DEF Even, Waiting, n
      <3>3. Beside(s, w)
        BY <2>7, <3>1 DEF Beside, Same, Placed
      <3> QED
        BY <1>2, <2>7, <2>8, <2>10, <3>1, <3>2, <3>3 DEF w
    <2> QED
      BY <2>9, <2>10
  <1> QED
    BY <1>1, <1>2

(* applyStatus folds: a cycle that is over is told, one that begins is open,  *)
(* and a child that works is armed.                                           *)
LEMMA StatusFolds ==
    ASSUME NEW s, IsSup(s), NEW next \in Statuses
    PROVE  LET t == ApplyStatus(s, next) IN Folded(s, t) /\ Placed(s, t)
  <1>1. CASE s.status = next
    <2>1. ApplyStatus(s, next) = ScheduleCompletion(s)
      BY <1>1 DEF ApplyStatus
    <2> QED
      BY <2>1, CompletionFolds, UntouchedFolds
  <1>2. CASE s.status # next /\ s.status = "done" /\ next = "idle"
    <2> DEFINE a == [s EXCEPT !.status = next]
               b == EnterStatus(a)
    <2>1. ApplyStatus(s, next) = ScheduleCompletion(b)
      BY <1>2 DEF ApplyStatus
    <2>2. IsSup(a)
      BY DEF IsSup, Fields
    <2>3. /\ Same(s, a) /\ Placed(s, a) /\ a.status = "idle" /\ a.run = s.run
          /\ a.held = s.held /\ a.deliver = s.deliver /\ a.due = s.due /\ a.woken = s.woken
          /\ a.open = s.open /\ a.cycles = s.cycles /\ a.recorded = s.recorded
      BY <1>2, SupDomain DEF Fields, Same, Placed
    <2> HIDE DEF a
    <2>4. /\ Beside(a, b)
          /\ b.held = a.held /\ b.deliver = a.deliver /\ b.due = a.due /\ b.woken = a.woken
          /\ b.open = a.open /\ b.cycles = a.cycles /\ b.recorded = a.recorded
          /\ b.timer = (a.published /\ a.status = "working" /\ ~a.retired)
      BY <2>2, EnterShape
    <2> DEFINE c == ScheduleCompletion(b)
    <2>5. IsSup(c) /\ Untouched(b, c) /\ Placed(b, c)
      BY <2>4, CompletionFolds DEF Beside
    <2> HIDE DEF b, c
    <2>6. /\ Same(s, c) /\ Placed(s, c) /\ c.status = "idle" /\ c.timer = FALSE
          /\ c.held = s.held /\ c.deliver = s.deliver /\ c.due = s.due /\ c.woken = s.woken
          /\ c.open = s.open /\ c.cycles = s.cycles /\ c.recorded = s.recorded
      BY <2>3, <2>4, <2>5 DEF Untouched, Same, Placed, Beside
    <2>7. Folded(s, c)
      BY <2>5, <2>6 DEF Folded, Calm, Sent, Even, Waiting, Latched, Cadent, Cycled, RunLive, Same
    <2> QED
      BY <2>1, <2>6, <2>7 DEF c
  <1>3. CASE s.status # next /\ ~(s.status = "done" /\ next = "idle")
    <2> DEFINE z == [s EXCEPT !.status = next, !.lastTo = next, !.attempts = 0, !.retry = FALSE]
               a == Flush(z)
               o == IF next = "working" THEN OpenCycle(a) ELSE a
               b == EnterStatus(o)
               v == ~b.retired \/ b.open
               d == [b EXCEPT !.deliver = v]
               c == IF next \in Terminal THEN ScheduleHandoff(ScheduleCompletion(d)) ELSE b
               t == TellTransition(c, s.status)
    <2>1. ApplyStatus(s, next) = t
      BY <1>3 DEF ApplyStatus
    <2>2. IsSup(z)
      BY DEF IsSup, Fields
    <2>3. /\ Same(s, z) /\ Placed(s, z) /\ z.status = next /\ z.run = s.run /\ z.timer = s.timer
          /\ z.held = s.held /\ z.deliver = s.deliver /\ z.due = s.due /\ z.woken = s.woken
          /\ z.open = s.open /\ z.cycles = s.cycles /\ z.recorded = s.recorded
      BY SupDomain DEF Fields, Same, Placed
    <2> HIDE DEF z
    <2>4. /\ Beside(z, a)
          /\ a.run = z.run /\ a.timer = z.timer /\ a.deliver = z.deliver /\ a.due = z.due
          /\ a.open = z.open /\ a.cycles = z.cycles /\ a.recorded = z.recorded
          /\ a.held = FALSE /\ a.woken = z.woken + Waiting(z)
      BY <2>2, FlushShape
    <2> HIDE DEF a
    <2>5. /\ Beside(a, o)
          /\ o.held = a.held /\ o.deliver = a.deliver /\ o.due = a.due /\ o.woken = a.woken
          /\ o.run = a.run /\ o.timer = a.timer
          /\ o.open = IF next = "working" THEN s.managed ELSE s.open
          /\ next # "working" => o.cycles = s.cycles /\ o.recorded = s.recorded
          /\ next = "working" => o.cycles = s.cycles + 1 /\ o.recorded = FALSE
      <3>1. CASE next = "working"
        <4>1. /\ o = OpenCycle(a) /\ IsSup(a) /\ a.cycles = s.cycles /\ a.managed = s.managed
          BY <2>3, <2>4, <3>1 DEF Beside, Same
        <4> HIDE DEF o
        <4>2. /\ Beside(a, o)
              /\ o.held = a.held /\ o.deliver = a.deliver /\ o.due = a.due /\ o.woken = a.woken
              /\ o.run = a.run /\ o.timer = a.timer
              /\ o.open = a.managed /\ o.cycles = a.cycles + 1 /\ o.recorded = FALSE
          BY <4>1, OpenShape
        <4> QED
          BY <3>1, <4>1, <4>2
      <3>2. CASE next # "working"
        BY <2>3, <2>4, <3>2 DEF Beside, Same, Placed
      <3> QED
        BY <3>1, <3>2
    <2> HIDE DEF o
    <2>6. /\ Beside(o, b)
          /\ b.held = o.held /\ b.deliver = o.deliver /\ b.due = o.due /\ b.woken = o.woken
          /\ b.open = o.open /\ b.cycles = o.cycles /\ b.recorded = o.recorded
          /\ b.timer = (o.published /\ o.status = "working" /\ ~o.retired)
      BY <2>5, EnterShape DEF Beside
    <2> HIDE DEF b
    <2>7. v \in BOOLEAN
      BY DEF Beside
    <2> HIDE DEF v
    <2>8. IsSup(d)
      <3>1. IsSup(b)
        BY <2>6 DEF Beside
      <3> QED
        BY <2>7, <3>1 DEF IsSup, Fields
    <2>9. /\ Same(b, d) /\ Placed(b, d) /\ d.status = b.status /\ d.run = b.run /\ d.timer = b.timer
          /\ d.held = b.held /\ d.deliver = v /\ d.due = b.due /\ d.woken = b.woken
          /\ d.open = b.open /\ d.cycles = b.cycles /\ d.recorded = b.recorded
      <3>1. IsSup(b)
        BY <2>6 DEF Beside
      <3> QED
        BY <3>1, SupDomain DEF Fields, Same, Placed
    <2> HIDE DEF d
    <2>10. /\ Beside(b, c)
           /\ c.held = b.held /\ c.deliver = (IF next \in Terminal THEN v ELSE b.deliver)
           /\ c.due = b.due /\ c.woken = b.woken /\ c.run = b.run /\ c.timer = b.timer
           /\ c.open = b.open /\ c.cycles = b.cycles /\ c.recorded = b.recorded
      <3>1. CASE next \in Terminal
        <4> DEFINE e == ScheduleCompletion(d)
                   f == ScheduleHandoff(e)
        <4>1. IsSup(e) /\ Untouched(d, e) /\ Placed(d, e)
          BY <2>8, CompletionFolds
        <4>2. IsSup(f) /\ Untouched(e, f) /\ Placed(e, f)
          BY <4>1, HandoffFolds
        <4>3. c = f
          BY <3>1
        <4> HIDE DEF c, e, f
        <4> QED
          BY <2>9, <3>1, <4>1, <4>2, <4>3 DEF Untouched, Same, Placed, Beside
      <3>2. CASE next \notin Terminal
        BY <2>6, <3>2 DEF Same, Placed, Beside
      <3> QED
        BY <3>1, <3>2
    <2> HIDE DEF c
    <2>11. /\ IsSup(c) /\ Same(s, c) /\ Placed(s, c) /\ c.status = next
           /\ c.held = FALSE /\ c.due = s.due /\ c.woken = s.woken + Waiting(s)
           /\ c.timer = (s.published /\ next = "working" /\ ~s.retired)
           /\ c.open = IF next = "working" THEN s.managed ELSE s.open
           /\ next # "working" => c.cycles = s.cycles /\ c.recorded = s.recorded
           /\ next = "working" => c.cycles = s.cycles + 1 /\ c.recorded = FALSE
           /\ next \in Terminal => c.deliver = (~s.retired \/ s.open)
      <3>1. Same(s, c) /\ Placed(s, c) /\ c.status = next /\ IsSup(c)
        BY <2>3, <2>4, <2>5, <2>6, <2>10 DEF Same, Placed, Beside
      <3>2. c.held = FALSE /\ c.due = s.due /\ c.woken = s.woken + Waiting(s)
        BY <2>3, <2>4, <2>5, <2>6, <2>10 DEF Waiting
      <3>3. c.timer = (s.published /\ next = "working" /\ ~s.retired)
        BY <2>3, <2>4, <2>5, <2>6, <2>10 DEF Same, Beside
      <3>4. /\ c.open = IF next = "working" THEN s.managed ELSE s.open
            /\ next # "working" => c.cycles = s.cycles /\ c.recorded = s.recorded
            /\ next = "working" => c.cycles = s.cycles + 1 /\ c.recorded = FALSE
        BY <2>5, <2>6, <2>10
      <3>5. next \in Terminal => c.deliver = (~s.retired \/ s.open)
        BY <2>3, <2>4, <2>5, <2>6, <2>10 DEF Terminal, Same, Beside, v
      <3> QED
        BY <3>1, <3>2, <3>3, <3>4, <3>5
    <2>12. /\ Beside(c, t)
           /\ t.run = c.run /\ t.timer = c.timer /\ t.deliver = c.deliver
           /\ t.open = c.open /\ t.cycles = c.cycles /\ t.recorded = c.recorded
           /\ (c.woken = c.due + c.late /\ (Material(s.status, c.status) = "work_cycle_completed" /\ s.status = "working" => c.deliver)) => Even(t)
      BY <2>11, TellShape
    <2> HIDE DEF t
    <2>13. Calm(s) /\ Sent(s) => Sent(t)
      <3>1. Even(s) => c.woken = c.due + c.late
        BY <2>11 DEF Even, Same
      <3>2. Material(s.status, c.status) = "work_cycle_completed" => next \in Terminal
        BY <2>11 DEF Material, Terminal
      <3>3. Calm(s) /\ Even(s) => Even(t)
        BY <2>11, <2>12, <3>1, <3>2 DEF Calm
      <3>4. Latched(s) => Latched(t)
        <4>1. t.limited = s.limited /\ t.late = s.late
          BY <2>11, <2>12 DEF Beside, Same
        <4>2. CASE next = "working"
          BY <2>11, <2>12, <4>1, <4>2, SupNumbers DEF Latched
        <4>3. CASE next # "working"
          BY <2>11, <2>12, <4>1, <4>3 DEF Latched
        <4> QED
          BY <4>2, <4>3
      <3> QED
        BY <3>3, <3>4 DEF Sent
    <2>14. Same(s, t) /\ Placed(s, t) /\ IsSup(t) /\ t.status = next
      BY <2>11, <2>12 DEF Beside, Same, Placed
    <2>15. Folded(s, t)
      <3>1. Calm(s) => Calm(t)
        BY <2>11, <2>12, <2>14 DEF Calm, Same
      <3>2. Cadent(s, t)
        BY <2>11, <2>12, <2>14 DEF Cadent, RunLive, Same
      <3>3. Cycled(s, t)
        BY <2>11, <2>12 DEF Cycled
      <3>4. t.timer => s.timer \/ s.published
        BY <2>11, <2>12
      <3> QED
        BY <2>13, <2>14, <3>1, <3>2, <3>3, <3>4 DEF Folded
    <2> QED
      BY <2>1, <2>14, <2>15
  <1> QED
    BY <1>1, <1>2, <1>3

LEMMA FoldedAgain ==
    ASSUME NEW s, NEW t, NEW u, Folded(s, t), Folded(t, u)
    PROVE  Folded(s, u)
  <1>1. Same(s, u)
    BY DEF Folded, Same
  <1>2. Cadent(s, u)
    BY DEF Folded, Same, Cadent, RunLive
  <1>3. Cycled(s, u)
    BY DEF Folded, Same, Cycled
  <1>4. u.timer => s.timer \/ s.published
    BY DEF Folded, Same
  <1> QED
    BY <1>1, <1>2, <1>3, <1>4 DEF Folded

LEMMA PlacedAgain ==
    ASSUME NEW s, NEW t, NEW u, Placed(s, t), Placed(t, u)
    PROVE  Placed(s, u)
  BY DEF Placed

LEMMA FoldedSelf ==
    ASSUME NEW s, IsSup(s)
    PROVE  Folded(s, s) /\ Placed(s, s)
  BY UntouchedFolds DEF Untouched, Same, Placed

LEMMA EndpointTyped ==
    /\ \A e \in Event : EndpointOf(e) \in Endpoint /\ e.status \in Statuses /\ e.rev \in Nat /\ e.seq \in Nat
    /\ \A o \in Snapshot : EndpointOf(o) \in Endpoint /\ o.status \in Statuses /\ o.rev \in Nat /\ o.seq \in Nat
    /\ \A p \in Endpoint : p.status \in Statuses /\ p.rev \in Nat /\ p.seq \in Nat
    /\ Endpoint \subseteq SomeEndpoint
  <1>1. 0..(MaxTurns + 1) \subseteq Nat
    BY ChildAssumption
  <1> QED
    BY <1>1 DEF Event, Snapshot, EndpointOf, Endpoint, SomeEndpoint

LEMMA LastFolds ==
    ASSUME NEW s, IsSup(s), NEW e \in Endpoint
    PROVE  LET t == [s EXCEPT !.last = e] IN
           IsSup(t) /\ Untouched(s, t) /\ Placed(s, t) /\ t.seq = s.seq /\ t.rev = s.rev
  <1>1. e \in SomeEndpoint
    BY EndpointTyped
  <1>2. IsSup([s EXCEPT !.last = e])
    BY <1>1 DEF IsSup, Fields
  <1> QED
    BY <1>2, SupDomain DEF Fields, Untouched, Same, Placed

LEMMA RevFolds ==
    ASSUME NEW s, IsSup(s), NEW n \in Nat
    PROVE  LET t == [s EXCEPT !.rev = n] IN IsSup(t) /\ Untouched(s, t) /\ Placed(s, t)
  <1>2. IsSup([s EXCEPT !.rev = n])
    BY DEF IsSup, Fields
  <1> QED
    BY <1>2, SupDomain DEF Fields, Untouched, Same, Placed

LEMMA ObserveFolds ==
    ASSUME NEW s, IsSup(s), NEW n \in Nat
    PROVE  LET t == ObserveSeq(s, n) IN IsSup(t) /\ Untouched(s, t) /\ Placed(s, t)
  <1> DEFINE u == [s EXCEPT !.seq = n]
  <1>1. IsSup(u)
    BY DEF IsSup, Fields
  <1>2. Untouched(s, u) /\ Placed(s, u)
    BY SupDomain DEF Fields, Untouched, Same, Placed
  <1>3. Untouched(s, s) /\ Placed(s, s)
    BY DEF Untouched, Same, Placed
  <1> HIDE DEF u
  <1> QED
    BY <1>1, <1>2, <1>3 DEF ObserveSeq, u

LEMMA UntouchedAgain ==
    ASSUME NEW s, NEW t, NEW u, Untouched(s, t), Untouched(t, u)
    PROVE  Untouched(s, u)
  BY DEF Untouched, Same

LEMMA JumpFolds ==
    ASSUME NEW s, IsSup(s), NEW n
    PROVE  LET t == JumpGap(s, n) IN IsSup(t) /\ Untouched(s, t) /\ Placed(s, t)
  BY GapFolds DEF JumpGap, Untouched, Same, Placed

LEMMA FailureFolds ==
    ASSUME NEW s, IsSup(s)
    PROVE  LET t == MarkFailure(s) IN IsSup(t) /\ Untouched(s, t) /\ Placed(s, t)
  <1> DEFINE n == IF s.fails < Threshold THEN s.fails + 1 ELSE s.fails
             b == s.announced \/ s.fails + 1 >= Threshold
  <1>1. n \in 0..Threshold /\ b \in BOOLEAN
    BY SupNumbers, SupervisorAssumption
  <1> HIDE DEF n, b
  <1>2. MarkFailure(s) = [s EXCEPT !.recon = TRUE, !.fails = n, !.announced = b]
    BY DEF MarkFailure, n, b
  <1>3. IsSup([s EXCEPT !.recon = TRUE, !.fails = n, !.announced = b])
    BY <1>1 DEF IsSup, Fields
  <1> QED
    BY <1>2, <1>3, SupDomain DEF Fields, Untouched, Same, Placed

LEMMA SuccessFolds ==
    ASSUME NEW s, IsSup(s)
    PROVE  LET t == MarkSuccess(s) IN IsSup(t) /\ Untouched(s, t) /\ Placed(s, t)
  <1> DEFINE u == [s EXCEPT !.recon = FALSE, !.fails = 0, !.announced = FALSE]
  <1>1. 0 \in 0..Threshold
    BY SupervisorAssumption
  <1>2. IsSup(u)
    BY <1>1 DEF IsSup, Fields
  <1> QED
    BY <1>2, SupDomain DEF Fields, Untouched, Same, Placed, MarkSuccess

(* applyEventRevision *)
LEMMA EventFolds ==
    ASSUME NEW s, IsSup(s), NEW e \in Event
    PROVE  LET t == ApplyEventRevision(s, e) IN Folded(s, t) /\ Placed(s, t)
  <1>0. EndpointOf(e) \in Endpoint /\ e.status \in Statuses /\ e.rev \in Nat /\ e.seq \in Nat
    BY EndpointTyped
  <1>1. CASE s.last = EndpointOf(e)
    BY <1>1, FoldedSelf DEF ApplyEventRevision
  <1>2. CASE s.last # EndpointOf(e)
    <2> DEFINE z == [s EXCEPT !.last = EndpointOf(e)]
               a == JumpGap(z, e.rev)
               b == ObserveSeq(a, e.seq)
               order == Compare(s.seq, e.seq)
               r == [b EXCEPT !.rev = e.rev]
    <2>1. IsSup(z) /\ Untouched(s, z) /\ Placed(s, z)
      BY <1>0, LastFolds
    <2> HIDE DEF z
    <2>2. IsSup(a) /\ Untouched(s, a) /\ Placed(s, a)
      BY <2>1, JumpFolds, UntouchedAgain, PlacedAgain
    <2> HIDE DEF a
    <2>3. IsSup(b) /\ Untouched(s, b) /\ Placed(s, b)
      BY <1>0, <2>2, ObserveFolds, UntouchedAgain, PlacedAgain
    <2> HIDE DEF b
    <2>4. IsSup(r) /\ Untouched(s, r) /\ Placed(s, r)
      BY <1>0, <2>3, RevFolds, UntouchedAgain, PlacedAgain
    <2> HIDE DEF r
    <2>5. IsSup(Gap(a)) /\ Untouched(s, Gap(a)) /\ Placed(s, Gap(a))
      BY <2>2, GapFolds, UntouchedAgain, PlacedAgain
    <2>6. IsSup(Gap(b)) /\ Untouched(s, Gap(b)) /\ Placed(s, Gap(b))
      BY <2>3, GapFolds, UntouchedAgain, PlacedAgain
    <2>7. LET t == ScheduleCompletion(b) IN Folded(s, t) /\ Placed(s, t)
      BY <2>3, CompletionFolds, UntouchedFolds, UntouchedAgain, PlacedAgain
    <2>8. ASSUME NEW x, IsSup(x), Untouched(s, x), Placed(s, x)
          PROVE  LET t == ApplyStatus(x, e.status) IN Folded(s, t) /\ Placed(s, t)
      BY <1>0, <2>8, StatusFolds, UntouchedFolds, FoldedAgain, PlacedAgain
    <2>9. ApplyEventRevision(s, e) \in
            {Gap(a), ScheduleCompletion(b), ApplyStatus(b, e.status), ApplyStatus(Gap(b), e.status),
             ApplyStatus(r, e.status)}
      BY <1>2 DEF ApplyEventRevision, z, a, b, r
    <2>10. Folded(s, Gap(a)) /\ Placed(s, Gap(a))
      BY <2>5, UntouchedFolds
    <2>11. /\ Folded(s, ApplyStatus(b, e.status)) /\ Placed(s, ApplyStatus(b, e.status))
           /\ Folded(s, ApplyStatus(Gap(b), e.status)) /\ Placed(s, ApplyStatus(Gap(b), e.status))
           /\ Folded(s, ApplyStatus(r, e.status)) /\ Placed(s, ApplyStatus(r, e.status))
      BY <2>3, <2>4, <2>6, <2>8
    <2> QED
      BY <2>7, <2>9, <2>10, <2>11
  <1> QED
    BY <1>1, <1>2

(* applySnapshotRevision *)
LEMMA SnapshotFolds ==
    ASSUME NEW s, IsSup(s), NEW o \in Snapshot
    PROVE  LET t == ApplySnapshotRevision(s, o) IN Folded(s, t) /\ Placed(s, t)
  <1>0. EndpointOf(o) \in Endpoint /\ o.status \in Statuses /\ o.rev \in Nat /\ o.seq \in Nat
    BY EndpointTyped
  <1> DEFINE z == ObserveSeq(s, o.seq)
             a == [z EXCEPT !.last = EndpointOf(o)]
             r == [Gap(a) EXCEPT !.rev = o.rev]
  <1>1. IsSup(z) /\ Untouched(s, z) /\ Placed(s, z)
    BY <1>0, ObserveFolds
  <1> HIDE DEF z
  <1>2. IsSup(a) /\ Untouched(s, a) /\ Placed(s, a)
    BY <1>0, <1>1, LastFolds, UntouchedAgain, PlacedAgain
  <1> HIDE DEF a
  <1>3. IsSup(Gap(a)) /\ Untouched(s, Gap(a)) /\ Placed(s, Gap(a))
    BY <1>2, GapFolds, UntouchedAgain, PlacedAgain
  <1>4. IsSup(r) /\ Untouched(s, r) /\ Placed(s, r)
    BY <1>0, <1>3, RevFolds, UntouchedAgain, PlacedAgain
  <1> HIDE DEF r
  <1>5. LET t == ScheduleCompletion(a) IN Folded(s, t) /\ Placed(s, t)
    BY <1>2, CompletionFolds, UntouchedFolds, UntouchedAgain, PlacedAgain
  <1>6. ASSUME NEW x, IsSup(x), Untouched(s, x), Placed(s, x)
        PROVE  LET t == ApplyStatus(x, o.status) IN Folded(s, t) /\ Placed(s, t)
    BY <1>0, <1>6, StatusFolds, UntouchedFolds, FoldedAgain, PlacedAgain
  <1>7. ApplySnapshotRevision(s, o) \in
          {ScheduleCompletion(a), ApplyStatus(a, o.status), ApplyStatus(Gap(a), o.status),
           ApplyStatus(r, o.status)}
    BY DEF ApplySnapshotRevision, z, a, r
  <1>8. /\ Folded(s, ApplyStatus(a, o.status)) /\ Placed(s, ApplyStatus(a, o.status))
        /\ Folded(s, ApplyStatus(Gap(a), o.status)) /\ Placed(s, ApplyStatus(Gap(a), o.status))
        /\ Folded(s, ApplyStatus(r, o.status)) /\ Placed(s, ApplyStatus(r, o.status))
    BY <1>2, <1>3, <1>4, <1>6
  <1> QED
    BY <1>5, <1>7, <1>8

(* One retained endpoint. *)
LEMMA EndpointFolds ==
    ASSUME NEW p, IsSup(p.s), p.seq \in Nat, NEW e \in Endpoint
    PROVE  LET q == ApplyMoveEndpoint(p, e) IN
           Folded(p.s, q.s) /\ Placed(p.s, q.s) /\ q.seq \in Nat
  <1>0. e.status \in Statuses /\ e.seq \in Nat
    BY EndpointTyped
  <1> DEFINE s == p.s
             a == [s EXCEPT !.last = e]
  <1>1. IsSup(a) /\ Untouched(s, a) /\ Placed(s, a)
    BY LastFolds
  <1>2. IsSup(Gap(a)) /\ Untouched(s, Gap(a)) /\ Placed(s, Gap(a))
    BY <1>1, GapFolds, UntouchedAgain, PlacedAgain
  <1>3. ASSUME NEW x, IsSup(x), Untouched(s, x), Placed(s, x)
        PROVE  LET t == ApplyStatus(x, e.status) IN Folded(s, t) /\ Placed(s, t)
    BY <1>0, <1>3, StatusFolds, UntouchedFolds, FoldedAgain, PlacedAgain
  <1>4. /\ Folded(s, ApplyStatus(a, e.status)) /\ Placed(s, ApplyStatus(a, e.status))
        /\ Folded(s, ApplyStatus(Gap(a), e.status)) /\ Placed(s, ApplyStatus(Gap(a), e.status))
    BY <1>1, <1>2, <1>3
  <1>5. Folded(s, Gap(a)) /\ Placed(s, Gap(a))
    BY <1>2, UntouchedFolds
  <1> DEFINE q == ApplyMoveEndpoint(p, e)
  <1>6. q.s \in {Gap(a), ApplyStatus(a, e.status), ApplyStatus(Gap(a), e.status)}
    BY DEF ApplyMoveEndpoint
  <1>7. q.seq \in {e.seq, p.seq}
    BY DEF ApplyMoveEndpoint
  <1> HIDE DEF q
  <1>8. q.seq \in Nat
    BY <1>0, <1>7
  <1> QED
    BY <1>4, <1>5, <1>6, <1>8 DEF q

(* A set of numbers that has the first one, and with each the next, has all. *)
LEMMA Induction ==
    ASSUME NEW S, 0 \in S, \A n \in Nat : n \in S => n + 1 \in S
    PROVE  \A n \in Nat : n \in S
  <1>1. SUFFICES ASSUME NEW k \in Nat, k \notin S PROVE FALSE
    OBVIOUS
  <1> DEFINE R == OpToRel(<, Nat)
             B == {n \in Nat : n \notin S}
  <1>2. \A x, y \in Nat : y < x => <<y, x>> \in R
    BY DEF OpToRel
  <1>3. IsWellFoundedOn(R, Nat)
    BY NatLessThanWellFounded
  <1>4. B \subseteq Nat /\ B # {}
    BY <1>1
  <1> HIDE DEF R
  <1>5. PICK x \in B : \A y \in B : ~(<<y, x>> \in R)
    <2> HIDE DEF B
    <2> QED
      BY <1>3, <1>4, WFMin
  <1>6. x \in Nat /\ x # 0
    BY <1>5
  <1>7. x - 1 \in Nat /\ x - 1 < x /\ (x - 1) + 1 = x
    BY <1>6
  <1>8. x - 1 \notin B
    BY <1>2, <1>5, <1>6, <1>7
  <1> QED
    BY <1>5, <1>6, <1>7, <1>8

(* The fold of the retained endpoints exists. *)
LEMMA FoldExists ==
    ASSUME NEW z, NEW ends
    PROVE  \A n \in Nat : \E g : g = [i \in 0..n |->
              IF i = 0 THEN z ELSE ApplyMoveEndpoint(g[i - 1], ends[i])]
  <1> DEFINE G(n, g) == g = [i \in 0..n |-> IF i = 0 THEN z ELSE ApplyMoveEndpoint(g[i - 1], ends[i])]
             S == {n \in Nat : \E g : G(n, g)}
  <1>1. 0 \in S
    <2> DEFINE g == [i \in 0..0 |-> z]
    <2>1. G(0, g)
      OBVIOUS
    <2> QED
      BY <2>1
  <1>2. ASSUME NEW n \in Nat, n \in S PROVE n + 1 \in S
    <2>1. PICK g : G(n, g)
      BY <1>2
    <2> DEFINE h == [i \in 0..(n + 1) |-> IF i <= n THEN g[i] ELSE ApplyMoveEndpoint(g[n], ends[n + 1])]
               k == [i \in 0..(n + 1) |-> IF i = 0 THEN z ELSE ApplyMoveEndpoint(h[i - 1], ends[i])]
    <2>2. ASSUME NEW i \in 0..(n + 1) PROVE h[i] = k[i]
      <3>1. CASE i = 0
        BY <2>1, <3>1
      <3>2. CASE i # 0 /\ i <= n
        <4>1. i \in 0..n /\ i - 1 \in 0..(n + 1) /\ i - 1 <= n
          BY <3>2
        <4>2. h[i] = g[i] /\ h[i - 1] = g[i - 1]
          BY <3>2, <4>1
        <4>3. g[i] = ApplyMoveEndpoint(g[i - 1], ends[i])
          BY <2>1, <3>2, <4>1
        <4>4. k[i] = ApplyMoveEndpoint(h[i - 1], ends[i])
          BY <3>2
        <4> QED
          BY <4>2, <4>3, <4>4
      <3>3. CASE i = n + 1
        <4>1. i - 1 = n /\ n \in 0..(n + 1) /\ i # 0 /\ ~(i <= n)
          BY <3>3
        <4>2. h[i] = ApplyMoveEndpoint(g[n], ends[n + 1]) /\ h[n] = g[n]
          BY <4>1
        <4>3. k[i] = ApplyMoveEndpoint(h[i - 1], ends[i])
          BY <4>1
        <4> QED
          BY <3>3, <4>1, <4>2, <4>3
      <3> QED
        BY <3>1, <3>2, <3>3
    <2>3. h = k
      BY <2>2
    <2>4. G(n + 1, h)
      BY <2>3
    <2> HIDE DEF h
    <2>5. \E f : G(n + 1, f)
      BY <2>4
    <2> QED
      BY <2>5
  <1> HIDE DEF S
  <1>3. \A n \in Nat : n \in S
    BY <1>1, <1>2, Induction
  <1> QED
    BY <1>3 DEF S

LEMMA MoveFolds ==
    ASSUME NEW s, IsSup(s), NEW ends \in Seq(Endpoint), NEW seq0 \in Nat
    PROVE  LET t == ApplyMoveEndpoints(s, ends, seq0) IN Folded(s, t) /\ Placed(s, t)
  <1> DEFINE z == [s |-> s, seq |-> seq0]
             n == Len(ends)
             P(g) == g = [i \in 0..n |-> IF i = 0 THEN z ELSE ApplyMoveEndpoint(g[i - 1], ends[i])]
             F == CHOOSE g : P(g)
  <1>1. n \in Nat
    OBVIOUS
  <1>2. P(F)
    BY <1>1, FoldExists
  <1>3. ApplyMoveEndpoints(s, ends, seq0) = F[n].s
    BY DEF ApplyMoveEndpoints
  <1> HIDE DEF F
  <1>4. F[0] = z
    BY <1>1, <1>2
  <1>5. \A i \in 0..n : i # 0 => F[i] = ApplyMoveEndpoint(F[i - 1], ends[i])
    BY <1>2
  <1> HIDE DEF P
  <1> DEFINE Ok(p) == Folded(s, p.s) /\ Placed(s, p.s) /\ p.seq \in Nat
             S == {i \in Nat : i <= n => Ok(F[i])}
  <1>6. 0 \in S
    BY <1>4, FoldedSelf
  <1>7. ASSUME NEW i \in Nat, i \in S PROVE i + 1 \in S
    <2>1. SUFFICES ASSUME i + 1 <= n PROVE Ok(F[i + 1])
      OBVIOUS
    <2>2. Ok(F[i])
      BY <1>1, <1>7, <2>1
    <2>3. ends[i + 1] \in Endpoint
      BY <1>1, <2>1
    <2>4. F[i + 1] = ApplyMoveEndpoint(F[i], ends[i + 1])
      <3>1. i + 1 \in 0..n /\ i + 1 # 0 /\ (i + 1) - 1 = i
        BY <1>1, <2>1
      <3> QED
        BY <1>5, <3>1
    <2>5. IsSup(F[i].s) /\ F[i].seq \in Nat
      BY <2>2 DEF Folded
    <2> DEFINE q == ApplyMoveEndpoint(F[i], ends[i + 1])
    <2>6. Folded(F[i].s, q.s) /\ Placed(F[i].s, q.s) /\ q.seq \in Nat
      BY <2>3, <2>5, EndpointFolds
    <2> HIDE DEF q
    <2>7. Folded(s, q.s) /\ Placed(s, q.s)
      BY <2>2, <2>6, FoldedAgain, PlacedAgain
    <2> QED
      BY <2>4, <2>6, <2>7 DEF q
  <1> HIDE DEF S
  <1>8. \A i \in Nat : i \in S
    BY <1>6, <1>7, Induction
  <1>9. Ok(F[n])
    BY <1>1, <1>8 DEF S
  <1> QED
    BY <1>3, <1>9

(* adoptMove: the retained move is over, and everything in it folds. *)
LEMMA AdoptFolds ==
    ASSUME NEW s, IsSup(s), s.moved # NoEvent, NEW o \in Snapshot
    PROVE  LET t == AdoptMove(s, o) IN
           Folded(s, t) /\ t.moved = NoEvent /\ t.ends = <<>> /\ t.gen = s.gen + 1
  <1> DEFINE n == s.gen + 1
             p == s.moved.pane
             r == s.moved.rev
             a == [s EXCEPT !.moved = NoEvent, !.ends = <<>>, !.seq0 = 0, !.gen = n, !.pane = p, !.rev = r]
  <1>1. n \in Nat /\ p \in 0..MaxPanes /\ r \in Nat /\ <<>> \in Seq(Endpoint) /\ NoEvent \in Event \cup {NoEvent}
    <2>1. s.moved \in Event
      BY SupPlaces
    <2>2. Panes \subseteq 0..MaxPanes
      BY ChildAssumption DEF Panes
    <2>3. p \in Panes /\ r \in Nat
      BY <2>1 DEF Event
    <2>4. n \in Nat
      BY SupNumbers
    <2>5. <<>> \in Seq(Endpoint)
      OBVIOUS
    <2> HIDE DEF n, p, r
    <2> QED
      BY <2>2, <2>3, <2>4, <2>5
  <1> HIDE DEF n, p, r
  <1>2. IsSup(a)
    BY <1>1 DEF IsSup, Fields
  <1>3. Untouched(s, a) /\ a.moved = NoEvent /\ a.ends = <<>> /\ a.gen = n
    BY SupDomain DEF Fields, Untouched, Same
  <1>4. AdoptMove(s, o) = ApplySnapshotRevision(ApplyMoveEndpoints(a, s.ends, s.seq0), o)
    BY DEF AdoptMove, n, p, r
  <1> HIDE DEF a
  <1> DEFINE m == ApplyMoveEndpoints(a, s.ends, s.seq0)
             t == ApplySnapshotRevision(m, o)
  <1>5. Folded(a, m) /\ Placed(a, m)
    BY <1>2, SupPlaces, SupNumbers, MoveFolds
  <1> HIDE DEF m
  <1>6. Folded(m, t) /\ Placed(m, t)
    BY <1>5, SnapshotFolds DEF Folded
  <1> HIDE DEF t
  <1>7. Folded(s, t)
    BY <1>2, <1>3, <1>5, <1>6, UntouchedFolds, FoldedAgain
  <1> QED
    BY <1>3, <1>4, <1>5, <1>6, <1>7 DEF Placed, m, t, n

-----------------------------------------------------------------------------
(* Handling: what a whole handler does to the supervisor, as far as its job, *)
(* its gate and its cadence depend on it.                                   *)

Handled(s, t) ==
    /\ SupInv(t)
    /\ t.state = s.state \/ t.state = "settled"
    /\ t.managed = s.managed
    /\ Cadent(s, t)
    /\ Cycled(s, t)
    /\ t.at = s.at \/ (t.at.pc \notin {"accept", "prompt"} /\ t.at.content = "none")

(* The fields SupInv and Handled are about. *)
Alike(s, t) ==
    /\ t.state = s.state /\ t.bind = s.bind /\ t.published = s.published
    /\ t.retired = s.retired /\ t.stopped = s.stopped /\ t.managed = s.managed /\ t.at = s.at
    /\ t.moved = s.moved /\ t.ends = s.ends /\ t.gen = s.gen
    /\ t.status = s.status /\ t.run = s.run /\ t.timer = s.timer
    /\ t.held = s.held /\ t.deliver = s.deliver /\ t.due = s.due /\ t.woken = s.woken
    /\ t.late = s.late /\ t.limited = s.limited /\ t.recorded = s.recorded
    /\ t.open = s.open /\ t.cycles = s.cycles

LEMMA AlikeHandled ==
    ASSUME NEW s, NEW t, SupInv(s), IsSup(t), Alike(s, t)
    PROVE  Handled(s, t)
  <1>1. Armed(t) /\ Reopened(t)
    BY DEF SupInv, Alike, Armed, Reopened, Over, IsSettled
  <1>2. Tasks(t) /\ Binding(t)
    BY DEF SupInv, Alike, Tasks, Binding, IsSettled
  <1>3. ~t.stopped => Sent(t)
    BY DEF SupInv, Alike, Sent, Even, Waiting, Latched
  <1>4. SupInv(t)
    BY <1>1, <1>2, <1>3 DEF SupInv, Alike
  <1>5. Cadent(s, t) /\ Cycled(s, t)
    BY DEF Alike, Cadent, Cycled, RunLive, Over, IsSettled
  <1> QED
    BY <1>4, <1>5 DEF Handled, Alike

LEMMA UntouchedAlike ==
    ASSUME NEW s, NEW t, Untouched(s, t), Placed(s, t) PROVE Alike(s, t)
  BY DEF Untouched, Same, Placed, Alike

LEMMA HandledSelf == ASSUME NEW s, SupInv(s) PROVE Handled(s, s)
  BY DEF Handled, Cadent, Cycled

LEMMA HandledAgain ==
    ASSUME NEW s, NEW t, NEW u, Handled(s, t), Handled(t, u)
    PROVE  Handled(s, u)
  <1>1. Cadent(s, u)
    BY DEF Handled, Cadent
  <1>2. Cycled(s, u)
    BY DEF Handled, Cycled
  <1> QED
    BY <1>1, <1>2 DEF Handled

LEMMA FoldedHandled ==
    ASSUME NEW s, NEW t, SupInv(s), ~Over(s), s.at = Idle, s.bind \notin {"no", "reading"},
           Folded(s, t), Placed(s, t)
    PROVE  Handled(s, t)
  <1>1. Calm(s) /\ Sent(s)
    BY DEF SupInv, Reopened, Calm, Over, Idle
  <1>2. IsSup(t) /\ Calm(t) /\ Sent(t) /\ Same(s, t)
    BY <1>1 DEF Folded
  <1>3. Armed(t)
    BY DEF SupInv, Folded, Same, Armed, Over, IsSettled
  <1>4. Reopened(t)
    BY <1>2 DEF Calm, Reopened
  <1>5. Tasks(t)
    BY <1>2 DEF Same, Tasks, Idle
  <1>6. Binding(t)
    BY <1>2 DEF SupInv, Same, Binding
  <1>7. SupInv(t)
    BY <1>2, <1>3, <1>4, <1>5, <1>6 DEF SupInv, Placed
  <1> QED
    BY <1>2, <1>7 DEF Handled, Folded, Same

(* A move that is adopted: also the one whose read answers after a stop. *)
LEMMA AdoptHandled ==
    ASSUME NEW s, SupInv(s), s.at = Idle, s.moved # NoEvent, Over(s) => s.stopped,
           s.bind \notin {"no", "reading"}, NEW o \in Snapshot
    PROVE  Handled(s, AdoptMove(s, o))
  <1> DEFINE t == AdoptMove(s, o)
  <1>0. IsSup(s)
    BY DEF SupInv
  <1>1. Folded(s, t) /\ t.moved = NoEvent /\ t.ends = <<>> /\ t.gen = s.gen + 1
    BY <1>0, AdoptFolds
  <1>2. t.gen > 0
    BY <1>0, <1>1, SupNumbers
  <1> HIDE DEF t
  <1>3. IsSup(t) /\ Same(s, t)
    BY <1>1 DEF Folded
  <1>4. ~s.stopped => Calm(s) /\ Sent(s)
    BY DEF SupInv, Reopened, Calm, Idle
  <1>5. (~t.stopped => Sent(t)) /\ Reopened(t)
    <2>1. CASE s.stopped
      BY <1>3, <2>1 DEF SupInv, Reopened, Same, Over
    <2>2. CASE ~s.stopped
      BY <1>1, <1>4, <2>2 DEF Folded, Calm, Reopened
    <2> QED
      BY <2>1, <2>2
  <1>6. Armed(t)
    BY <1>1, <1>2, <1>3 DEF SupInv, Folded, Same, Armed, Over, IsSettled
  <1>7. Tasks(t)
    BY <1>3 DEF Same, Tasks, Idle
  <1>8. Binding(t)
    BY <1>3 DEF SupInv, Same, Binding
  <1>9. SupInv(t)
    BY <1>1, <1>3, <1>5, <1>6, <1>7, <1>8 DEF SupInv
  <1> QED
    BY <1>1, <1>3, <1>9 DEF Handled, Folded, Same, t

LEMMA IdleTyped ==
    /\ Idle \in AtRec
    /\ Idle.pc = "none" /\ Idle.outcome = "none" /\ Idle.content = "none"
  BY DEF Idle, AtRec, Outcomes

(* Where the chain may wait next. *)
LEMMA AtHandled ==
    ASSUME NEW s, SupInv(s), NEW x \in AtRec,
           x.pc \notin {"move", "accept", "prompt"}, x.content = "none",
           x = Idle \/ (/\ x.pc # "none" /\ s.bind \notin {"no", "reading"}
                        /\ IsSettled(s) => s.stopped),
           x.pc \in {"validate", "record", "repair"} => s.managed,
           x.pc = "consume" => x.outcome # "none",
           x.pc \in {"signal", "leave"} => ~s.recorded,
           x.pc \in {"validate", "record"} /\ x.outcome = "none" => s.status \in Terminal,
           \/ s.at.pc # "record" \/ s.at.outcome = "none" \/ Over(s)
           \/ x.pc = "record" /\ x.outcome # "none"
    PROVE  Handled(s, [s EXCEPT !.at = x])
  <1> DEFINE t == [s EXCEPT !.at = x]
  <1>0. IsSup(s)
    BY DEF SupInv
  <1>1. IsSup(t)
    BY <1>0 DEF IsSup, Fields
  <1>2. /\ t.state = s.state /\ t.bind = s.bind /\ t.published = s.published
        /\ t.retired = s.retired /\ t.stopped = s.stopped /\ t.managed = s.managed /\ t.at = x
        /\ t.moved = s.moved /\ t.ends = s.ends /\ t.gen = s.gen
        /\ t.status = s.status /\ t.run = s.run /\ t.timer = s.timer
        /\ t.held = s.held /\ t.deliver = s.deliver /\ t.due = s.due /\ t.woken = s.woken
        /\ t.late = s.late /\ t.limited = s.limited /\ t.recorded = s.recorded
        /\ t.open = s.open /\ t.cycles = s.cycles
    BY <1>0, SupDomain DEF Fields
  <1> HIDE DEF t
  <1>3. Armed(t)
    BY <1>2 DEF SupInv, Armed, Over, IsSettled
  <1>4. Reopened(t)
    BY <1>2 DEF SupInv, Reopened, Over, IsSettled
  <1>5. ~t.stopped => Sent(t)
    BY <1>2 DEF SupInv, Sent, Even, Waiting, Latched
  <1>6. Tasks(t)
    BY <1>2, IdleTyped DEF Tasks, IsSettled
  <1>7. Binding(t)
    BY <1>2 DEF SupInv, Binding
  <1>8. SupInv(t)
    BY <1>1, <1>2, <1>3, <1>4, <1>5, <1>6, <1>7 DEF SupInv
  <1>9. Cadent(s, t) /\ Cycled(s, t)
    BY <1>2 DEF Cadent, Cycled, RunLive, Over, IsSettled
  <1> QED
    BY <1>2, <1>8, <1>9 DEF Handled, t

(* The chain is free again. *)
LEMMA FreeHandled ==
    ASSUME NEW s, SupInv(s), s.at.pc # "record" \/ s.at.outcome = "none" \/ Over(s)
    PROVE  LET t == [s EXCEPT !.at = Idle] IN Handled(s, t) /\ t.at = Idle
  <1>1. Handled(s, [s EXCEPT !.at = Idle])
    BY AtHandled, IdleTyped
  <1>2. [s EXCEPT !.at = Idle].at = Idle
    BY SupDomain DEF SupInv, Fields
  <1> QED
    BY <1>1, <1>2

LEMMA SettledHandled ==
    ASSUME NEW s, SupInv(s), NEW outcome \in Outcomes
    PROVE  Handled(s, Settled(s, outcome))
  <1> DEFINE o == IF IsSettled(s) THEN s.outcome ELSE outcome
  <1>0. IsSup(s)
    BY DEF SupInv
  <1>1. o \in Outcomes
    BY <1>0, SupPlaces
  <1> HIDE DEF o
  <1> DEFINE t == [s EXCEPT !.state = "settled", !.outcome = o, !.timer = FALSE, !.retry = FALSE, !.at = Idle]
  <1>2. Settled(s, outcome) = t
    BY DEF Settled, o
  <1>3. IsSup(t)
    BY <1>0, <1>1, IdleTyped DEF IsSup, Fields
  <1>4. /\ t.state = "settled" /\ t.bind = s.bind /\ t.published = s.published
        /\ t.retired = s.retired /\ t.stopped = s.stopped /\ t.managed = s.managed /\ t.at = Idle
        /\ t.moved = s.moved /\ t.ends = s.ends /\ t.gen = s.gen
        /\ t.status = s.status /\ t.timer = FALSE
        /\ t.held = s.held /\ t.deliver = s.deliver /\ t.due = s.due /\ t.woken = s.woken
        /\ t.late = s.late /\ t.limited = s.limited /\ t.recorded = s.recorded
        /\ t.open = s.open /\ t.cycles = s.cycles
    BY <1>0, SupDomain DEF Fields
  <1> HIDE DEF t
  <1>5. Armed(t) /\ Reopened(t)
    BY <1>4 DEF SupInv, Armed, Reopened, Over, IsSettled
  <1>6. Tasks(t)
    BY <1>4, IdleTyped DEF Tasks
  <1>7. Binding(t)
    BY <1>4 DEF SupInv, Binding
  <1>8. ~t.stopped => Sent(t)
    BY <1>4 DEF SupInv, Sent, Even, Waiting, Latched
  <1>9. SupInv(t)
    BY <1>3, <1>4, <1>5, <1>6, <1>7, <1>8 DEF SupInv
  <1>10. Cadent(s, t) /\ Cycled(s, t)
    BY <1>4 DEF Cadent, Cycled, RunLive, Over, IsSettled
  <1> QED
    BY <1>2, <1>4, <1>9, <1>10, IdleTyped DEF Handled

LEMMA FlushHandled ==
    ASSUME NEW s, SupInv(s)
    PROVE  LET t == Flush(s) IN Handled(s, t) /\ Same(s, t) /\ t.status = s.status
  <1> DEFINE t == Flush(s)
  <1>0. IsSup(s)
    BY DEF SupInv
  <1>1. /\ IsSup(t) /\ Same(s, t) /\ Placed(s, t) /\ t.status = s.status
        /\ t.run = s.run /\ t.timer = s.timer /\ t.deliver = s.deliver /\ t.due = s.due
        /\ t.open = s.open /\ t.cycles = s.cycles /\ t.recorded = s.recorded
        /\ t.held = FALSE /\ t.woken = s.woken + Waiting(s)
    BY <1>0, FlushShape DEF Beside
  <1>2. t.woken \in Nat
    BY <1>1, SupNumbers
  <1> HIDE DEF t
  <1>3. ~t.stopped => Sent(t)
    BY <1>1, <1>2 DEF SupInv, Sent, Even, Waiting, Latched, Same
  <1>4. Armed(t) /\ Reopened(t)
    BY <1>1 DEF SupInv, Same, Placed, Armed, Reopened, Over, IsSettled
  <1>5. Tasks(t)
    BY <1>1 DEF SupInv, Same, Placed, Tasks, IsSettled
  <1>6. Binding(t)
    BY <1>1 DEF SupInv, Same, Binding
  <1>7. SupInv(t)
    BY <1>1, <1>3, <1>4, <1>5, <1>6 DEF SupInv, Placed
  <1>8. Cadent(s, t) /\ Cycled(s, t)
    BY <1>1 DEF Same, Cadent, Cycled, RunLive, Over, IsSettled
  <1> QED
    BY <1>1, <1>7, <1>8 DEF Handled, Same, t

Wait(pc, outcome, n) == [pc |-> pc, outcome |-> outcome, content |-> "none", n |-> n]

LEMMA AtTyped ==
    ASSUME NEW pc \in {"none", "move", "consume", "leave", "signal", "limit", "validate", "accept",
                       "record", "repair", "prompt"},
           NEW outcome \in Outcomes, NEW n \in Nat
    PROVE  /\ Wait(pc, outcome, n) \in AtRec /\ Wait(pc, outcome, n).pc = pc
           /\ Wait(pc, outcome, n).outcome = outcome /\ Wait(pc, outcome, n).content = "none"
  BY DEF Wait, AtRec

LEMMA AtOf ==
    ASSUME NEW pc, NEW outcome, NEW n
    PROVE  /\ [Idle EXCEPT !.pc = pc, !.outcome = outcome, !.n = n] = Wait(pc, outcome, n)
           /\ [Idle EXCEPT !.pc = pc, !.outcome = outcome] = Wait(pc, outcome, 0)
           /\ [Idle EXCEPT !.pc = pc, !.n = n] = Wait(pc, "none", n)
           /\ [Idle EXCEPT !.pc = pc] = Wait(pc, "none", 0)
  <1>1. [Idle EXCEPT !.pc = pc] = Wait(pc, "none", 0)
    BY DEF Idle, Wait
  <1>2. [Wait(pc, "none", 0) EXCEPT !.outcome = outcome] = Wait(pc, outcome, 0)
    BY DEF Wait
  <1>3. [Wait(pc, "none", 0) EXCEPT !.n = n] = Wait(pc, "none", n)
    BY DEF Wait
  <1>4. [Wait(pc, outcome, 0) EXCEPT !.n = n] = Wait(pc, outcome, n)
    BY DEF Wait
  <1> QED
    BY <1>1, <1>2, <1>3, <1>4

LEMMA PersistHandled ==
    ASSUME NEW s, SupInv(s), s.at.pc # "record", s.bind \notin {"no", "reading"},
           IsSettled(s) => s.stopped, NEW outcome \in Outcomes \ {"none"}
    PROVE  Handled(s, ToPersist(s, outcome))
  <1> DEFINE v == [Idle EXCEPT !.pc = "validate", !.outcome = outcome]
             r == [Idle EXCEPT !.pc = "record", !.outcome = outcome]
  <1>0. v = Wait("validate", outcome, 0) /\ r = Wait("record", outcome, 0)
    BY AtOf
  <1> HIDE DEF v, r
  <1>1. v \in AtRec /\ v.pc = "validate" /\ v.outcome = outcome /\ v.content = "none"
    BY <1>0, AtTyped
  <1>2. r \in AtRec /\ r.pc = "record" /\ r.outcome = outcome /\ r.content = "none"
    BY <1>0, AtTyped
  <1>3. s.managed => Handled(s, [s EXCEPT !.at = v])
    BY <1>1, AtHandled
  <1>4. s.managed => Handled(s, [s EXCEPT !.at = r])
    BY <1>2, AtHandled
  <1>5. Handled(s, Settled(s, outcome))
    BY SettledHandled
  <1> QED
    BY <1>3, <1>4, <1>5 DEF ToPersist, v, r

LEMMA SettleHandled ==
    ASSUME NEW s, SupInv(s), s.at.pc # "record", s.bind \notin {"no", "reading"},
           NEW outcome \in Outcomes \ {"none"}
    PROVE  Handled(s, Settle(s, outcome))
  <1>1. CASE IsSettled(s)
    BY <1>1, FreeHandled DEF Settle
  <1>2. CASE ~IsSettled(s) /\ s.signal /\ ~s.recorded
    <2> DEFINE x == [Idle EXCEPT !.pc = "leave", !.outcome = outcome, !.n = 1]
    <2>0. x = Wait("leave", outcome, 1)
      <3>1. [Idle EXCEPT !.pc = "leave", !.outcome = outcome] = Wait("leave", outcome, 0)
        BY AtOf
      <3>2. [Wait("leave", outcome, 0) EXCEPT !.n = 1] = Wait("leave", outcome, 1)
        BY DEF Wait
      <3> QED
        BY <3>1, <3>2
    <2> HIDE DEF x
    <2>1. x \in AtRec /\ x.pc = "leave" /\ x.outcome = outcome /\ x.content = "none"
      BY <2>0, AtTyped
    <2>2. Settle(s, outcome) = [s EXCEPT !.at = x]
      BY <1>2 DEF Settle, x
    <2> QED
      BY <1>2, <2>1, <2>2, AtHandled
  <1>3. CASE ~IsSettled(s) /\ ~(s.signal /\ ~s.recorded)
    <2> DEFINE f == Flush(s)
    <2>1. Handled(s, f) /\ Same(s, f)
      BY FlushHandled
    <2>2. Settle(s, outcome) = ToPersist(f, outcome)
      BY <1>3 DEF Settle
    <2> HIDE DEF f
    <2>3. SupInv(f) /\ f.at.pc # "record" /\ f.bind \notin {"no", "reading"} /\ ~IsSettled(f)
      BY <1>3, <2>1 DEF Handled, Same, IsSettled
    <2>4. Handled(f, ToPersist(f, outcome))
      BY <2>3, PersistHandled
    <2> QED
      BY <2>1, <2>2, <2>4, HandledAgain
  <1> QED
    BY <1>1, <1>2, <1>3

LEMMA SettleClosedHandled ==
    ASSUME NEW s, SupInv(s), s.at = Idle, s.bind \notin {"no", "reading"}, ~IsSettled(s)
    PROVE  Handled(s, SettleClosed(s))
  <1> DEFINE x == [Idle EXCEPT !.pc = "consume", !.outcome = "released"]
  <1>0. x = Wait("consume", "released", 0)
    BY AtOf
  <1> HIDE DEF x
  <1>1. x \in AtRec /\ x.pc = "consume" /\ x.outcome = "released" /\ x.content = "none"
    BY <1>0, AtTyped DEF Outcomes
  <1>2. Handled(s, [s EXCEPT !.at = x])
    BY <1>1, AtHandled, IdleTyped
  <1> QED
    BY <1>2 DEF SettleClosed, x

(* applyAuthoritativeSnapshot *)
LEMMA AuthoritativeHandled ==
    ASSUME NEW s, SupInv(s), s.at = Idle, s.bind \notin {"no", "reading"}, ~Over(s),
           NEW snap \in Snapshot, NEW missing \in {"identity_lost", "released"}
    PROVE  Handled(s, ApplyAuthoritative(s, snap, missing))
  <1> DEFINE p == s.managed /\ ~snap.owner
             a == [s EXCEPT !.paused = p]
             f == MarkFailure(a)
             b == MarkSuccess(a)
  <1>0. IsSup(s) /\ p \in BOOLEAN
    BY SupFlags DEF SupInv
  <1> HIDE DEF p
  <1>1. IsSup(a)
    BY <1>0 DEF IsSup, Fields
  <1>2. Untouched(s, a) /\ Placed(s, a)
    BY <1>0, SupDomain DEF Fields, Untouched, Same, Placed
  <1> HIDE DEF a
  <1>3. /\ IsSup(f) /\ Untouched(s, f) /\ Placed(s, f)
        /\ IsSup(b) /\ Untouched(s, b) /\ Placed(s, b)
    BY <1>1, <1>2, FailureFolds, SuccessFolds, UntouchedAgain, PlacedAgain
  <1>4. Handled(s, f) /\ Handled(s, b)
    BY <1>3, UntouchedAlike, AlikeHandled
  <1> HIDE DEF f, b
  <1>5. SupInv(b) /\ b.at = Idle /\ b.bind \notin {"no", "reading"} /\ ~Over(b) /\ ~IsSettled(b)
        /\ b.moved = s.moved
    BY <1>3, <1>4 DEF Handled, Untouched, Same, Placed, Over, IsSettled
  <1>6. {"identity_lost", "released", "identity_replaced"} \subseteq Outcomes \ {"none"}
    BY DEF Outcomes
  <1>7. \A o \in {"identity_lost", "released", "identity_replaced"} : Handled(s, Settle(b, o))
    BY <1>4, <1>5, <1>6, SettleHandled, HandledAgain, IdleTyped
  <1>8. Handled(s, SettleClosed(b))
    BY <1>4, <1>5, SettleClosedHandled, HandledAgain
  <1>9. s.moved # NoEvent => Handled(s, AdoptMove(b, snap))
    BY <1>4, <1>5, AdoptHandled, HandledAgain
  <1>10. Handled(s, ApplySnapshotRevision(b, snap))
    <2>1. Folded(b, ApplySnapshotRevision(b, snap)) /\ Placed(b, ApplySnapshotRevision(b, snap))
      BY <1>3, SnapshotFolds
    <2> QED
      BY <1>4, <1>5, <2>1, FoldedHandled, HandledAgain
  <1> DEFINE t == ApplyAuthoritative(s, snap, missing)
  <1>11. \/ t \in {f, Settle(b, "identity_lost"), SettleClosed(b), Settle(b, "released"),
                   Settle(b, "identity_replaced"), ApplySnapshotRevision(b, snap)}
         \/ s.moved # NoEvent /\ t = AdoptMove(b, snap)
    <2> DEFINE target == Target(snap, Believed(s))
    <2>1. target \in {"invalid", "absent", "agentless", "replaced", "continuous"}
      BY DEF Target
    <2> HIDE DEF target
    <2> QED
      BY <2>1 DEF ApplyAuthoritative, target, a, b, f, p
  <1> HIDE DEF t
  <1> QED
    BY <1>4, <1>7, <1>8, <1>9, <1>10, <1>11 DEF t

(* followMove up to its read. *)
LEMMA RetainHandled ==
    ASSUME NEW s, SupInv(s), s.at = Idle, s.bind \notin {"no", "reading"}, ~Over(s), NEW e \in Event
    PROVE  Handled(s, RetainMove(s, e))
  <1>0. IsSup(s) /\ EndpointOf(e) \in Endpoint /\ e.seq \in Nat
    BY EndpointTyped DEF SupInv
  <1> DEFINE fresh == s.moved = NoEvent
             ends == Append(IF fresh THEN <<>> ELSE s.ends, EndpointOf(e))
             seq0 == IF fresh THEN s.seq ELSE s.seq0
             n == s.gen + 1
             l == EndpointOf(e)
             x == [Idle EXCEPT !.pc = "move"]
  <1>1. ends \in Seq(Endpoint) /\ ends # <<>>
    <2>1. s.ends \in Seq(Endpoint)
      BY <1>0, SupPlaces
    <2> DEFINE q == IF fresh THEN <<>> ELSE s.ends
    <2>2. q \in Seq(Endpoint)
      BY <2>1
    <2> HIDE DEF q
    <2>3. ASSUME NEW y \in Endpoint PROVE Append(q, y) \in Seq(Endpoint) /\ Append(q, y) # <<>>
      BY <2>2, AppendProperties
    <2>4. ends = Append(q, EndpointOf(e))
      BY DEF q
    <2> HIDE DEF ends
    <2> QED
      BY <1>0, <2>3, <2>4
  <1>2. seq0 \in Nat /\ n \in Nat /\ n > 0
    BY <1>0, SupNumbers
  <1>3. l \in SomeEndpoint
    BY <1>0, EndpointTyped
  <1>4. x \in AtRec /\ x.pc = "move" /\ x.outcome = "none" /\ x.content = "none"
    <2>1. x = Wait("move", "none", 0)
      BY AtOf
    <2> HIDE DEF x
    <2> QED
      BY <2>1, AtTyped DEF Outcomes
  <1>5. e # NoEvent /\ e \in Event \cup {NoEvent}
    BY DEF Event, NoEvent
  <1> HIDE DEF fresh, ends, seq0, n, l, x
  <1> DEFINE a == [s EXCEPT !.ends = ends, !.seq0 = seq0, !.moved = e, !.gen = n, !.last = l, !.at = x]
  <1>6. RetainMove(s, e) = ObserveSeq(a, e.seq)
    BY DEF RetainMove, fresh, ends, seq0, n, l, x
  <1>7. IsSup(a)
    BY <1>0, <1>1, <1>2, <1>3, <1>4, <1>5 DEF IsSup, Fields
  <1>8. /\ a.state = s.state /\ a.bind = s.bind /\ a.published = s.published
        /\ a.retired = s.retired /\ a.stopped = s.stopped /\ a.managed = s.managed /\ a.at = x
        /\ a.moved = e /\ a.ends = ends /\ a.gen = n
        /\ a.status = s.status /\ a.run = s.run /\ a.timer = s.timer
        /\ a.held = s.held /\ a.deliver = s.deliver /\ a.due = s.due /\ a.woken = s.woken
        /\ a.late = s.late /\ a.limited = s.limited /\ a.recorded = s.recorded
        /\ a.open = s.open /\ a.cycles = s.cycles
    BY <1>0, SupDomain DEF Fields
  <1> HIDE DEF a
  <1>9. Armed(a) /\ Reopened(a)
    BY <1>4, <1>8, IdleTyped DEF SupInv, Armed, Reopened, Over, IsSettled
  <1>10. Tasks(a)
    BY <1>2, <1>4, <1>5, <1>8 DEF Tasks, Over, IsSettled
  <1>11. Binding(a) /\ Sent(a)
    BY <1>8 DEF SupInv, Binding, Sent, Even, Waiting, Latched, Over
  <1>12. SupInv(a)
    BY <1>1, <1>5, <1>7, <1>8, <1>9, <1>10, <1>11 DEF SupInv
  <1>13. Cadent(s, a) /\ Cycled(s, a)
    BY <1>8 DEF Cadent, Cycled, RunLive, Over, IsSettled
  <1>14. Handled(s, a)
    BY <1>4, <1>8, <1>12, <1>13 DEF Handled
  <1>15. Handled(a, ObserveSeq(a, e.seq))
    BY <1>0, <1>7, <1>12, ObserveFolds, UntouchedAlike, AlikeHandled
  <1> QED
    BY <1>6, <1>14, <1>15, HandledAgain

(* followMove after its read. *)
LEMMA DestinationHandled ==
    ASSUME NEW s, SupInv(s), s.at.pc = "move", NEW snap \in Snapshot
    PROVE  Handled(s, DestinationRead(s, snap))
  <1> DEFINE a == [s EXCEPT !.at = Idle]
             f == MarkFailure(a)
             b == MarkSuccess(a)
  <1>0. IsSup(s) /\ s.moved # NoEvent /\ s.at # Idle /\ s.bind \notin {"no", "reading"} /\ (IsSettled(s) => s.stopped)
    BY IdleTyped DEF SupInv, Tasks, Binding
  <1>1. Handled(s, a) /\ a.at = Idle
    BY FreeHandled
  <1>2. a.bind = s.bind /\ a.moved = s.moved /\ a.stopped = s.stopped /\ a.state = s.state
    BY <1>0, SupDomain DEF Fields
  <1> HIDE DEF a
  <1>3. SupInv(a) /\ IsSup(a)
    BY <1>1 DEF Handled, SupInv
  <1>4. /\ IsSup(f) /\ Untouched(a, f) /\ Placed(a, f)
        /\ IsSup(b) /\ Untouched(a, b) /\ Placed(a, b)
    BY <1>3, FailureFolds, SuccessFolds
  <1>5. Handled(a, f) /\ Handled(a, b)
    BY <1>3, <1>4, UntouchedAlike, AlikeHandled
  <1> HIDE DEF f, b
  <1>6. /\ SupInv(b) /\ b.at = Idle /\ b.bind \notin {"no", "reading"} /\ (Over(b) => b.stopped)
        /\ b.moved # NoEvent
    BY <1>0, <1>1, <1>2, <1>4, <1>5 DEF Handled, Untouched, Same, Placed, Over, IsSettled
  <1>7. "identity_lost" \in Outcomes \ {"none"}
    BY DEF Outcomes
  <1>8. Handled(s, f)
    BY <1>1, <1>5, HandledAgain
  <1>9. Handled(s, Settle(a, "identity_lost"))
    BY <1>0, <1>1, <1>2, <1>3, <1>7, SettleHandled, HandledAgain, IdleTyped
  <1>10. Handled(s, AdoptMove(b, snap))
    BY <1>1, <1>5, <1>6, AdoptHandled, HandledAgain
  <1> DEFINE t == DestinationRead(s, snap)
  <1>11. t \in {f, Settle(a, "identity_lost"), AdoptMove(b, snap)}
    <2> DEFINE target == Target(snap, s.moved.pane)
    <2>1. target \in {"invalid", "absent", "agentless", "replaced", "continuous"}
      BY DEF Target
    <2> HIDE DEF target
    <2> QED
      BY <2>1 DEF DestinationRead, target, a, b, f
  <1> HIDE DEF t
  <1> QED
    BY <1>8, <1>9, <1>10, <1>11 DEF t

(* fold *)
LEMMA FoldHandled ==
    ASSUME NEW s, SupInv(s), s.at = Idle, s.bind \notin {"no", "reading"}, IsSettled(s) \/ ~Over(s),
           NEW e \in Event, NEW snap \in Snapshot
    PROVE  Handled(s, Fold(s, e, snap))
  <1>1. Handled(s, s)
    BY HandledSelf
  <1>2. CASE IsSettled(s)
    BY <1>1, <1>2 DEF Fold
  <1>3. CASE ~Over(s)
    <2>1. Handled(s, RetainMove(s, e))
      BY <1>3, RetainHandled
    <2>2. Handled(s, ApplyAuthoritative(s, snap, "released"))
      BY <1>3, AuthoritativeHandled
    <2>3. Handled(s, ApplyEventRevision(s, e))
      <3>1. Folded(s, ApplyEventRevision(s, e)) /\ Placed(s, ApplyEventRevision(s, e))
        BY EventFolds DEF SupInv
      <3> QED
        BY <1>3, <3>1, FoldedHandled
    <2> QED
      BY <1>1, <2>1, <2>2, <2>3 DEF Fold
  <1> QED
    BY <1>2, <1>3

(* Between the reads of the provider's log and after them. *)
LEMMA AfterSignalHandled ==
    ASSUME NEW s, SupInv(s), s.at.pc # "record"
    PROVE  Handled(s, AfterSignal(s))
  <1> DEFINE z == [s EXCEPT !.at = Idle]
             n == IF s.attempts < 3 THEN s.attempts + 1 ELSE s.attempts
             a == [z EXCEPT !.attempts = n]
             r == [a EXCEPT !.retry = TRUE]
             f == Flush(a)
             h == ScheduleHandoff(f)
  <1>0. IsSup(s) /\ n \in Nat
    BY SupNumbers DEF SupInv
  <1>1. Handled(s, z) /\ z.at = Idle /\ z.attempts = s.attempts
    BY <1>0, FreeHandled, SupDomain DEF Fields
  <1>9. [s EXCEPT !.at = Idle, !.attempts = IF @ < 3 THEN @ + 1 ELSE @] = a
    BY <1>0, SupDomain DEF Fields
  <1> HIDE DEF z, n
  <1>2. SupInv(z) /\ IsSup(z)
    BY <1>1 DEF Handled, SupInv
  <1>3. IsSup(a)
    BY <1>0, <1>2 DEF IsSup, Fields
  <1>4. Alike(z, a)
    BY <1>2, SupDomain DEF Fields, Alike
  <1>5. Handled(s, a) /\ SupInv(a)
    BY <1>1, <1>2, <1>3, <1>4, AlikeHandled, HandledAgain DEF Handled
  <1>6. IsSup(r) /\ Alike(a, r)
    <2>1. IsSup(r)
      BY <1>3 DEF IsSup, Fields
    <2>2. Alike(a, r)
      BY <1>3, SupDomain DEF Fields, Alike
    <2> QED
      BY <2>1, <2>2
  <1> HIDE DEF a, r
  <1>7. Handled(s, r)
    BY <1>5, <1>6, AlikeHandled, HandledAgain
  <1>8. Handled(s, f) /\ SupInv(f)
    BY <1>5, FlushHandled, HandledAgain DEF Handled
  <1> HIDE DEF f
  <1>10. Handled(s, h)
    <2>1. IsSup(h) /\ Untouched(f, h) /\ Placed(f, h)
      BY <1>8, HandoffFolds DEF SupInv
    <2> QED
      BY <1>8, <2>1, UntouchedAlike, AlikeHandled, HandledAgain
  <1>11. AfterSignal(s) \in {z, r, f, h}
    BY <1>9 DEF AfterSignal, r, f, h, z
  <1> QED
    BY <1>1, <1>7, <1>8, <1>10, <1>11

LEMMA AfterHandled ==
    ASSUME NEW s, SupInv(s), s.at.pc \in {"signal", "leave", "limit"}
    PROVE  Handled(s, After(s))
  <1>0. /\ IsSup(s) /\ s.at \in AtRec /\ s.at # Idle /\ s.bind \notin {"no", "reading"}
        /\ IsSettled(s) => s.stopped
        /\ s.at.content = "none"
    BY IdleTyped, SupPlaces DEF SupInv, Tasks, Binding
  <1>1. CASE s.at.outcome = "none"
    BY <1>1, AfterSignalHandled DEF After
  <1>2. CASE s.at.outcome # "none"
    <2> DEFINE x == [s.at EXCEPT !.n = 2]
               f == Flush(s)
    <2>1. x \in AtRec /\ x.pc = s.at.pc /\ x.content = "none"
      BY <1>0 DEF AtRec
    <2>2. [s EXCEPT !.at.n = 2] = [s EXCEPT !.at = x]
      BY <1>0, SupDomain DEF Fields
    <2> HIDE DEF x
    <2>3. ~s.recorded => Handled(s, [s EXCEPT !.at = x])
      BY <1>0, <2>1, AtHandled
    <2>4. Handled(s, f) /\ Same(s, f)
      BY FlushHandled
    <2> HIDE DEF f
    <2>5. /\ SupInv(f) /\ f.at = s.at /\ f.bind \notin {"no", "reading"}
          /\ IsSettled(f) => f.stopped
      BY <1>0, <2>4 DEF Handled, Same, IsSettled
    <2>6. s.at.outcome \in Outcomes \ {"none"}
      BY <1>0, <1>2 DEF AtRec
    <2>7. Handled(s, ToPersist(f, s.at.outcome))
      BY <2>4, <2>5, <2>6, PersistHandled, HandledAgain
    <2>8. \/ ~s.recorded /\ After(s) = [s EXCEPT !.at = x]
          \/ After(s) = ToPersist(f, s.at.outcome)
      BY <1>2, <2>2 DEF After, AfterLeaving, f
    <2> QED
      BY <2>3, <2>7, <2>8
  <1> QED
    BY <1>1, <1>2

(* A typed limit takes the place of the held completion, or comes late; until *)
(* the child works again there is no other.                                   *)
LEMMA LimitHandled ==
    ASSUME NEW s, SupInv(s), s.at.pc \in {"signal", "leave"}
    PROVE  LET a == [s EXCEPT !.recorded = TRUE, !.held = FALSE, !.at.pc = "limit",
                              !.limited = @ + 1,
                              !.late = IF s.deliver /\ ~s.held THEN @ + 1 ELSE @]
               b == Wake(a)
           IN Handled(s, b) /\ b.at.pc = "limit"
  <1>0. /\ IsSup(s) /\ s.at \in AtRec /\ s.at # Idle /\ s.bind \notin {"no", "reading"}
        /\ IsSettled(s) => s.stopped
        /\ s.at.content = "none" /\ ~s.recorded
    BY IdleTyped, SupPlaces DEF SupInv, Tasks, Binding
  <1> DEFINE n == s.limited + 1
             m == IF s.deliver /\ ~s.held THEN s.late + 1 ELSE s.late
             x == [s.at EXCEPT !.pc = "limit"]
             a == [s EXCEPT !.recorded = TRUE, !.held = FALSE, !.at = x, !.limited = n, !.late = m]
             b == Wake(a)
  <1>1. n \in Nat /\ m \in Nat /\ x \in AtRec /\ x.pc = "limit" /\ x.content = "none"
    <2>1. x \in AtRec /\ x.pc = "limit" /\ x.content = "none"
      BY <1>0 DEF AtRec
    <2>2. n \in Nat /\ m \in Nat
      BY <1>0, SupNumbers
    <2> QED
      BY <2>1, <2>2
  <1>2. [s EXCEPT !.recorded = TRUE, !.held = FALSE, !.at.pc = "limit", !.limited = @ + 1,
                  !.late = IF s.deliver /\ ~s.held THEN @ + 1 ELSE @] = a
    BY <1>0, SupDomain DEF Fields
  <1> HIDE DEF n, m, x
  <1>3. IsSup(a)
    BY <1>0, <1>1 DEF IsSup, Fields
  <1>4. /\ a.state = s.state /\ a.bind = s.bind /\ a.published = s.published
        /\ a.retired = s.retired /\ a.stopped = s.stopped /\ a.managed = s.managed /\ a.at = x
        /\ a.moved = s.moved /\ a.ends = s.ends /\ a.gen = s.gen
        /\ a.status = s.status /\ a.run = s.run /\ a.timer = s.timer
        /\ a.held = FALSE /\ a.deliver = s.deliver /\ a.due = s.due /\ a.woken = s.woken
        /\ a.late = m /\ a.limited = n /\ a.recorded = TRUE
        /\ a.open = s.open /\ a.cycles = s.cycles
    BY <1>0, SupDomain DEF Fields
  <1> HIDE DEF a
  <1>5. IsSup(b)
    BY <1>3, WakeShape
  <1>6. /\ b.state = s.state /\ b.bind = s.bind /\ b.published = s.published
        /\ b.retired = s.retired /\ b.stopped = s.stopped /\ b.managed = s.managed /\ b.at = x
        /\ b.moved = s.moved /\ b.ends = s.ends /\ b.gen = s.gen
        /\ b.status = s.status /\ b.run = s.run /\ b.timer = s.timer
        /\ b.held = FALSE /\ b.deliver = s.deliver /\ b.due = s.due
        /\ b.late = m /\ b.limited = n /\ b.recorded = TRUE
        /\ b.open = s.open /\ b.cycles = s.cycles
    BY <1>3, <1>4, WakeShape DEF Same, Placed
  <1>7. b.woken = IF s.deliver THEN s.woken + 1 ELSE s.woken
    BY <1>3, <1>4, WakeShape
  <1>8. /\ s.woken \in Nat /\ s.due \in Nat /\ s.late \in Nat /\ s.limited \in Nat /\ s.cycles \in Nat
        /\ s.held \in BOOLEAN /\ s.deliver \in BOOLEAN
    BY <1>0, SupNumbers, SupFlags
  <1> HIDE DEF b
  <1>9. ~b.stopped => Sent(b)
    <2> SUFFICES ASSUME ~b.stopped PROVE Even(b) /\ Latched(b)
      BY DEF Sent
    <2>1. Even(s) /\ Latched(s)
      BY <1>6 DEF SupInv, Sent
    <2>2. Even(b)
      BY <1>6, <1>7, <1>8, <2>1 DEF Even, Waiting, m
    <2>3. Latched(b)
      BY <1>0, <1>6, <1>8, <2>1 DEF Latched, m, n
    <2> QED
      BY <2>2, <2>3
  <1>10. Armed(b) /\ Reopened(b)
    BY <1>6 DEF SupInv, Armed, Reopened, Over, IsSettled
  <1>11. Tasks(b) /\ Binding(b)
    BY <1>0, <1>1, <1>6 DEF SupInv, Tasks, Binding, IsSettled
  <1>12. SupInv(b)
    BY <1>5, <1>6, <1>9, <1>10, <1>11 DEF SupInv
  <1>13. Cadent(s, b) /\ Cycled(s, b)
    BY <1>6 DEF Cadent, Cycled, RunLive, Over, IsSettled
  <1>14. Handled(s, b) /\ b.at.pc = "limit"
    BY <1>1, <1>6, <1>12, <1>13 DEF Handled
  <1> QED
    BY <1>2, <1>14 DEF b

(* After a verdict that does not hand the run off. *)
LEMMA NotHandedOffHandled ==
    ASSUME NEW s, SupInv(s), s.at.pc \in {"validate", "accept"}
    PROVE  Handled(s, NotHandedOff(s))
  <1>0. /\ IsSup(s) /\ s.at \in AtRec /\ s.at # Idle /\ s.bind \notin {"no", "reading"} /\ s.managed
        /\ IsSettled(s) => s.stopped
    BY IdleTyped, SupPlaces DEF SupInv, Tasks, Binding
  <1> DEFINE x == [s.at EXCEPT !.pc = "record", !.content = "none"]
             y == [Idle EXCEPT !.pc = "repair"]
  <1>1. x \in AtRec /\ x.pc = "record" /\ x.content = "none" /\ x.outcome = s.at.outcome
    BY <1>0 DEF AtRec
  <1>2. [s EXCEPT !.at.pc = "record", !.at.content = "none"] = [s EXCEPT !.at = x]
    BY <1>0, SupDomain DEF Fields
  <1>3. y = Wait("repair", "none", 0)
    BY AtOf
  <1> HIDE DEF x, y
  <1>4. y \in AtRec /\ y.pc = "repair" /\ y.content = "none"
    BY <1>3, AtTyped DEF Outcomes
  <1>5. s.at.outcome # "none" => Handled(s, [s EXCEPT !.at = x])
    BY <1>0, <1>1, AtHandled
  <1>6. Handled(s, [s EXCEPT !.at = Idle])
    BY FreeHandled
  <1>7. Handled(s, [s EXCEPT !.at = y])
    BY <1>0, <1>4, AtHandled
  <1> QED
    BY <1>2, <1>5, <1>6, <1>7 DEF NotHandedOff, y

(* shutdown and release *)
LEMMA StoppedHandled ==
    ASSUME NEW s, SupInv(s), NEW outcome \in Outcomes
    PROVE  LET t == Stopped(s, outcome) IN Handled(s, t) /\ t.state = "settled" /\ t.at = s.at
  <1> DEFINE o == IF IsSettled(s) THEN s.outcome ELSE outcome
  <1>0. IsSup(s)
    BY DEF SupInv
  <1>1. o \in Outcomes
    BY <1>0, SupPlaces
  <1> HIDE DEF o
  <1> DEFINE t == [s EXCEPT !.stopped = TRUE, !.timer = FALSE, !.retry = FALSE, !.state = "settled", !.outcome = o]
  <1>2. Stopped(s, outcome) = t
    BY DEF Stopped, o
  <1>3. IsSup(t)
    BY <1>0, <1>1 DEF IsSup, Fields
  <1>4. /\ t.state = "settled" /\ t.bind = s.bind /\ t.published = s.published
        /\ t.retired = s.retired /\ t.stopped = TRUE /\ t.managed = s.managed /\ t.at = s.at
        /\ t.moved = s.moved /\ t.ends = s.ends /\ t.gen = s.gen
        /\ t.status = s.status /\ t.timer = FALSE
        /\ t.open = s.open /\ t.cycles = s.cycles /\ t.recorded = s.recorded
    BY <1>0, SupDomain DEF Fields
  <1> HIDE DEF t
  <1>5. Armed(t) /\ Reopened(t)
    BY <1>4 DEF SupInv, Armed, Reopened, Over, IsSettled
  <1>6. Tasks(t) /\ Binding(t)
    BY <1>4 DEF SupInv, Tasks, Binding
  <1>7. SupInv(t)
    BY <1>3, <1>4, <1>5, <1>6 DEF SupInv
  <1>8. Cadent(s, t) /\ Cycled(s, t)
    BY <1>4 DEF Cadent, Cycled, RunLive, Over, IsSettled
  <1> QED
    BY <1>2, <1>4, <1>7, <1>8 DEF Handled

(* retireAfterHandoff *)
LEMMA RetireHandled ==
    ASSUME NEW s, SupInv(s), s.managed = TRUE, s.status # "working", s.bind \notin {"no", "reading"}
    PROVE  Handled(s, Retire(s))
  <1> DEFINE t == [s EXCEPT !.retired = TRUE, !.timer = FALSE]
  <1>0. IsSup(s)
    BY DEF SupInv
  <1>3. IsSup(t)
    BY <1>0 DEF IsSup, Fields
  <1>4. /\ t.state = s.state /\ t.bind = s.bind /\ t.published = s.published
        /\ t.retired = TRUE /\ t.stopped = s.stopped /\ t.managed = s.managed /\ t.at = s.at
        /\ t.moved = s.moved /\ t.ends = s.ends /\ t.gen = s.gen
        /\ t.status = s.status /\ t.timer = FALSE
        /\ t.held = s.held /\ t.deliver = s.deliver /\ t.due = s.due /\ t.woken = s.woken
        /\ t.late = s.late /\ t.limited = s.limited /\ t.recorded = s.recorded
        /\ t.open = s.open /\ t.cycles = s.cycles
    BY <1>0, SupDomain DEF Fields
  <1> HIDE DEF t
  <1>5. Armed(t) /\ Reopened(t)
    BY <1>4 DEF SupInv, Armed, Reopened, Over, IsSettled
  <1>6. Tasks(t) /\ Binding(t)
    BY <1>4 DEF SupInv, Tasks, Binding, IsSettled
  <1>7. ~t.stopped => Sent(t)
    BY <1>4 DEF SupInv, Sent, Even, Waiting, Latched
  <1>8. SupInv(t)
    BY <1>3, <1>4, <1>5, <1>6, <1>7 DEF SupInv
  <1>9. Cadent(s, t) /\ Cycled(s, t)
    BY <1>4 DEF Cadent, Cycled, RunLive
  <1> QED
    BY <1>4, <1>8, <1>9 DEF Handled, Retire, t

(* What the registry and the cadence need of a step that may also change the *)
(* gate's mirror.                                                            *)
Kept(s, t) ==
    /\ SupInv(t)
    /\ t.state = s.state \/ t.state = "settled"
    /\ t.managed = s.managed
    /\ Cadent(s, t)

LEMMA HandledKept == ASSUME NEW s, NEW t, Handled(s, t) PROVE Kept(s, t)
  BY DEF Handled, Kept

LEMMA KeptAgain ==
    ASSUME NEW s, NEW t, NEW u, Kept(s, t), Kept(t, u)
    PROVE  Kept(s, u)
  BY DEF Kept, Cadent

(* An acceptance closes the cycle: an observation makes it in a terminal      *)
(* state, and a settlement is on its way out.                                 *)
LEMMA CloseKept ==
    ASSUME NEW s, SupInv(s), s.at.pc = "accept", NEW x \in AtRec,
           \/ x = s.at /\ x.outcome = "none"
           \/ x.pc = "record" /\ x.outcome = s.at.outcome
    PROVE  LET t == [s EXCEPT !.open = FALSE, !.at = x] IN
           Kept(s, t) /\ t.open = FALSE /\ t.cycles = s.cycles /\ t.at = x
  <1> DEFINE t == [s EXCEPT !.open = FALSE, !.at = x]
  <1>0. IsSup(s)
    BY DEF SupInv
  <1>20. s.managed /\ s.at # Idle /\ s.bind \notin {"no", "reading"} /\ (IsSettled(s) => s.stopped)
    BY IdleTyped DEF SupInv, Tasks, Binding
  <1>1. s.at.outcome = "none" => s.status \in Terminal
    BY DEF SupInv, Tasks
  <1>3. IsSup(t)
    BY <1>0 DEF IsSup, Fields
  <1>4. /\ t.state = s.state /\ t.bind = s.bind /\ t.published = s.published
        /\ t.retired = s.retired /\ t.stopped = s.stopped /\ t.managed = s.managed /\ t.at = x
        /\ t.moved = s.moved /\ t.ends = s.ends /\ t.gen = s.gen
        /\ t.status = s.status /\ t.run = s.run /\ t.timer = s.timer
        /\ t.held = s.held /\ t.deliver = s.deliver /\ t.due = s.due /\ t.woken = s.woken
        /\ t.late = s.late /\ t.limited = s.limited /\ t.recorded = s.recorded
        /\ t.open = FALSE /\ t.cycles = s.cycles
    BY <1>0, SupDomain DEF Fields
  <1> HIDE DEF t
  <1>5. Armed(t)
    BY <1>4 DEF SupInv, Armed, Over, IsSettled
  <1>6. Reopened(t)
    BY <1>20, <1>1, <1>4 DEF Reopened, Terminal
  <1>7. Tasks(t)
    BY <1>20, <1>1, <1>4 DEF SupInv, Tasks, IsSettled
  <1>8. Binding(t)
    BY <1>20, <1>4 DEF SupInv, Binding
  <1>9. ~t.stopped => Sent(t)
    BY <1>4 DEF SupInv, Sent, Even, Waiting, Latched
  <1>10. SupInv(t)
    BY <1>3, <1>4, <1>5, <1>6, <1>7, <1>8, <1>9 DEF SupInv
  <1>11. Cadent(s, t)
    BY <1>4 DEF Cadent, RunLive, Over, IsSettled
  <1> QED
    BY <1>4, <1>10, <1>11 DEF Kept, t

(* A fence was written, and a prompt is to be sent. *)
LEMMA PromptKept ==
    ASSUME NEW s, SupInv(s), s.at.pc = "repair", NEW n \in Nat
    PROVE  LET t == [s EXCEPT !.at = [Idle EXCEPT !.pc = "prompt", !.n = n]] IN
           Kept(s, t) /\ t.open = s.open /\ t.cycles = s.cycles /\ t.at.pc = "prompt" /\ t.at.n = n
  <1> DEFINE x == [Idle EXCEPT !.pc = "prompt", !.n = n]
             t == [s EXCEPT !.at = x]
  <1>0. IsSup(s)
    BY DEF SupInv
  <1>20. s.managed /\ s.at # Idle /\ s.bind \notin {"no", "reading"} /\ (IsSettled(s) => s.stopped)
    BY IdleTyped DEF SupInv, Tasks, Binding
  <1>1. x = Wait("prompt", "none", n)
    BY AtOf
  <1> HIDE DEF x
  <1>2. x \in AtRec /\ x.pc = "prompt" /\ x.content = "none" /\ x.n = n /\ x.outcome = "none"
    BY <1>1, AtTyped DEF Wait, Outcomes
  <1>3. IsSup(t)
    BY <1>0, <1>2 DEF IsSup, Fields
  <1>4. /\ t.state = s.state /\ t.bind = s.bind /\ t.published = s.published
        /\ t.retired = s.retired /\ t.stopped = s.stopped /\ t.managed = s.managed /\ t.at = x
        /\ t.moved = s.moved /\ t.ends = s.ends /\ t.gen = s.gen
        /\ t.status = s.status /\ t.run = s.run /\ t.timer = s.timer
        /\ t.held = s.held /\ t.deliver = s.deliver /\ t.due = s.due /\ t.woken = s.woken
        /\ t.late = s.late /\ t.limited = s.limited /\ t.recorded = s.recorded
        /\ t.open = s.open /\ t.cycles = s.cycles
    BY <1>0, SupDomain DEF Fields
  <1> HIDE DEF t
  <1>5. Armed(t)
    BY <1>4 DEF SupInv, Armed, Over, IsSettled
  <1>6. Reopened(t)
    BY <1>20, <1>4 DEF SupInv, Reopened, Over, IsSettled
  <1>7. Tasks(t)
    BY <1>20, <1>2, <1>4 DEF Tasks, IsSettled
  <1>8. Binding(t)
    BY <1>20, <1>4 DEF SupInv, Binding
  <1>9. ~t.stopped => Sent(t)
    BY <1>4 DEF SupInv, Sent, Even, Waiting, Latched
  <1>10. SupInv(t)
    BY <1>3, <1>4, <1>5, <1>6, <1>7, <1>8, <1>9 DEF SupInv
  <1>11. Cadent(s, t)
    BY <1>4 DEF Cadent, RunLive, Over, IsSettled
  <1> QED
    BY <1>2, <1>4, <1>10, <1>11 DEF Kept, t, x

-----------------------------------------------------------------------------
(* Binding. *)

LEMMA ReservedTyped == IsSup(Reserved)
  <1> DEFINE l == [rev |-> 0, status |-> "unknown", seq |-> 0]
  <1>1. l \in SomeEndpoint
    BY DEF SomeEndpoint
  <1>2. 0 \in 0..MaxPanes /\ 0 \in 0..Threshold /\ NoEvent \in Event \cup {NoEvent}
    BY ChildAssumption, SupervisorAssumption
  <1>3. <<>> \in Seq(Event) /\ <<>> \in Seq(Endpoint) /\ <<>> \in Seq({"completion", "handoff"})
    OBVIOUS
  <1>4. Idle \in AtRec
    BY IdleTyped
  <1> HIDE DEF l
  <1>5. DOMAIN Reserved = Fields
    BY DEF Reserved, Fields
  <1>6. /\ Reserved.state = "starting" /\ Reserved.bind = "no" /\ Reserved.published = FALSE
        /\ Reserved.queued = <<>> /\ Reserved.pane = 0 /\ Reserved.moved = NoEvent
        /\ Reserved.ends = <<>> /\ Reserved.seq0 = 0 /\ Reserved.gen = 0 /\ Reserved.rev = 0
        /\ Reserved.seq = 0 /\ Reserved.status = "unknown" /\ Reserved.last = l
        /\ Reserved.lastTo = "none" /\ Reserved.run = 0 /\ Reserved.timer = FALSE
        /\ Reserved.retired = FALSE /\ Reserved.stopped = FALSE /\ Reserved.paused = FALSE
        /\ Reserved.stream = FALSE /\ Reserved.recon = FALSE /\ Reserved.fails = 0
        /\ Reserved.announced = FALSE /\ Reserved.signal = FALSE /\ Reserved.attempts = 0
        /\ Reserved.retry = FALSE /\ Reserved.recorded = FALSE /\ Reserved.held = FALSE
        /\ Reserved.deliver = TRUE /\ Reserved.managed = FALSE /\ Reserved.open = FALSE
        /\ Reserved.life = "awaiting_handoff" /\ Reserved.accepted = "none" /\ Reserved.marking = 0
        /\ Reserved.todo = <<>> /\ Reserved.at = Idle /\ Reserved.outcome = "none"
        /\ Reserved.base = 0 /\ Reserved.completed = 0 /\ Reserved.due = 0 /\ Reserved.woken = 0
        /\ Reserved.limited = 0 /\ Reserved.late = 0 /\ Reserved.gaps = 0 /\ Reserved.cycles = 0
    BY DEF Reserved, l
  <1>7. "awaiting_handoff" \in Lives /\ "none" \in Outcomes
    BY DEF Lives, Outcomes
  <1> DEFINE s == Reserved
  <1>10. s = Reserved
    OBVIOUS
  <1> HIDE DEF s
  <1>11. /\ s.published \in BOOLEAN /\ s.timer \in BOOLEAN /\ s.retired \in BOOLEAN
         /\ s.stopped \in BOOLEAN /\ s.paused \in BOOLEAN /\ s.stream \in BOOLEAN
         /\ s.recon \in BOOLEAN /\ s.announced \in BOOLEAN /\ s.signal \in BOOLEAN
         /\ s.retry \in BOOLEAN /\ s.recorded \in BOOLEAN /\ s.held \in BOOLEAN
         /\ s.deliver \in BOOLEAN /\ s.managed \in BOOLEAN /\ s.open \in BOOLEAN
    BY <1>6, <1>10
  <1>12. /\ s.seq0 \in Nat /\ s.gen \in Nat /\ s.rev \in Nat /\ s.seq \in Nat /\ s.run \in Nat
         /\ s.attempts \in Nat /\ s.marking \in Nat /\ s.base \in Nat /\ s.completed \in Nat
         /\ s.due \in Nat /\ s.woken \in Nat /\ s.limited \in Nat /\ s.late \in Nat /\ s.gaps \in Nat
         /\ s.cycles \in Nat
    BY <1>6, <1>10
  <1>13. /\ s.pane \in 0..MaxPanes /\ s.fails \in 0..Threshold
         /\ s.moved \in Event \cup {NoEvent}
    BY <1>2, <1>6, <1>10
  <1>14. /\ s.queued \in Seq(Event) /\ s.ends \in Seq(Endpoint)
         /\ s.todo \in Seq({"completion", "handoff"})
    BY <1>3, <1>6, <1>10
  <1>15. /\ s.state \in {"starting", "active", "settled"}
         /\ s.bind \in {"no", "reading", "drain", "done", "failed"}
         /\ s.status \in Statuses \cup {"unknown"}
         /\ s.lastTo \in Statuses \cup {"none"}
         /\ s.life \in Lives /\ s.accepted \in Contents \cup {"none"}
         /\ s.outcome \in Outcomes
    BY <1>6, <1>7, <1>10
  <1>16. s.last \in SomeEndpoint /\ s.at \in AtRec /\ DOMAIN s = Fields
    BY <1>1, <1>4, <1>5, <1>6, <1>10
  <1>17. IsSup(s)
    BY <1>11, <1>12, <1>13, <1>14, <1>15, <1>16 DEF IsSup
  <1> QED
    BY <1>10, <1>17

(* A supervisor before its anchor. *)
Fresh(s) ==
    /\ SupInv(s)
    /\ s.state = "starting" /\ s.stopped = FALSE /\ s.published = FALSE /\ s.retired = FALSE
    /\ s.at = Idle /\ s.timer = FALSE

LEMMA ReservedFresh ==
    ASSUME NEW c \in Nat, NEW p \in 0..MaxPanes
    PROVE  LET s == [Reserved EXCEPT !.cycles = c, !.pane = p] IN Fresh(s) /\ s.cycles = c
  <1> DEFINE s == [Reserved EXCEPT !.cycles = c, !.pane = p]
  <1>1. IsSup(s)
    BY ReservedTyped DEF IsSup, Fields
  <1>2. /\ s.state = "starting" /\ s.bind = "no" /\ s.published = FALSE /\ s.moved = NoEvent
        /\ s.ends = <<>> /\ s.status = "unknown" /\ s.timer = FALSE /\ s.retired = FALSE
        /\ s.stopped = FALSE /\ s.held = FALSE /\ s.at = Idle /\ s.due = 0 /\ s.woken = 0
        /\ s.late = 0 /\ s.limited = 0 /\ s.recorded = FALSE
        /\ s.cycles = c /\ s.managed = FALSE
    BY DEF Reserved
  <1> HIDE DEF s
  <1>3. Armed(s) /\ Reopened(s) /\ Binding(s)
    BY <1>2 DEF Armed, Reopened, Binding
  <1>4. Sent(s)
    BY <1>2, <1>1, SupNumbers DEF Sent, Even, Waiting, Latched
  <1>5. Tasks(s)
    BY <1>2, IdleTyped DEF Tasks
  <1>6. SupInv(s)
    BY <1>1, <1>2, <1>3, <1>4, <1>5 DEF SupInv
  <1> QED
    BY <1>2, <1>6 DEF Fresh, s

(* resetPreparedBinding *)
LEMMA ResetHandled ==
    ASSUME NEW s, SupInv(s), s.bind # "done"
    PROVE  Handled(s, Reset(s))
  <1> DEFINE t == Reset(s)
  <1>0. IsSup(s)
    BY DEF SupInv
  <1>1. IsSup(t)
    <2> DEFINE st == s.state
               sp == s.stopped
               oc == s.outcome
               mg == s.managed
               op == s.open
               lf == s.life
               ac == s.accepted
               cy == s.cycles
               td == s.todo
               q == [Reserved EXCEPT !.bind = "failed", !.state = st, !.stopped = sp, !.outcome = oc]
               p == [q EXCEPT !.managed = mg, !.open = op, !.life = lf]
               r == [p EXCEPT !.accepted = ac, !.cycles = cy, !.todo = td]
    <2>1. /\ st \in {"starting", "active", "settled"} /\ sp \in BOOLEAN /\ oc \in Outcomes
          /\ mg \in BOOLEAN /\ op \in BOOLEAN /\ lf \in Lives /\ ac \in Contents \cup {"none"}
          /\ cy \in Nat /\ td \in Seq({"completion", "handoff"})
      BY <1>0, SupPlaces, SupFlags, SupNumbers
    <2>2. t = r
      BY DEF Reset
    <2> HIDE DEF st, sp, oc, mg, op, lf, ac, cy, td
    <2>4. IsSup(q)
      BY <2>1, ReservedTyped DEF IsSup, Fields
    <2> HIDE DEF q
    <2>5. IsSup(p)
      BY <2>1, <2>4 DEF IsSup, Fields
    <2> HIDE DEF p
    <2>3. IsSup(r)
      BY <2>1, <2>5 DEF IsSup, Fields
    <2> QED
      BY <2>2, <2>3
  <1>2. /\ t.state = s.state /\ t.bind = "failed" /\ t.published = FALSE /\ t.moved = NoEvent
        /\ t.ends = <<>> /\ t.timer = FALSE /\ t.retired = FALSE /\ t.managed = s.managed
        /\ t.stopped = s.stopped /\ t.held = FALSE /\ t.at = Idle /\ t.due = 0 /\ t.woken = 0
        /\ t.late = 0 /\ t.limited = 0 /\ t.recorded = FALSE
        /\ t.cycles = s.cycles /\ t.open = s.open
    BY DEF Reserved, Reset
  <1> HIDE DEF t
  <1>3. Armed(t) /\ Reopened(t)
    BY <1>2 DEF Armed, Reopened
  <1>4. Sent(t)
    BY <1>2, <1>0, SupNumbers DEF Sent, Even, Waiting, Latched
  <1>5. Tasks(t) /\ Binding(t)
    BY <1>2, IdleTyped DEF SupInv, Tasks, Binding
  <1>6. SupInv(t)
    BY <1>1, <1>2, <1>3, <1>4, <1>5 DEF SupInv
  <1>8. s.published = FALSE
    BY DEF SupInv, Binding
  <1>7. Cadent(s, t) /\ Cycled(s, t)
    BY <1>2, <1>8 DEF Cadent, Cycled
  <1> QED
    BY <1>2, <1>6, <1>7, IdleTyped DEF Handled, t

(* gate.bind *)
LEMMA MirroredFresh ==
    ASSUME NEW s, Fresh(s), s.bind # "no", NEW state, state.life \in Lives, state.sha \in Contents \cup {"none"}
    PROVE  LET t == Mirrored(s, state) IN
           /\ Fresh(t) /\ t.managed = TRUE /\ t.open = (state.sha = "none") /\ t.cycles = s.cycles
           /\ t.bind = s.bind /\ t.pane = s.pane
  <1> DEFINE l == state.life
             a == state.sha
             o == state.sha = "none"
             t == [s EXCEPT !.managed = TRUE, !.life = l, !.accepted = a, !.open = o]
  <1>0. IsSup(s) /\ o \in BOOLEAN /\ l \in Lives /\ a \in Contents \cup {"none"}
    BY DEF Fresh, SupInv
  <1>9. Mirrored(s, state) = t
    BY DEF Mirrored
  <1> HIDE DEF l, a, o
  <1>1. IsSup(t)
    BY <1>0 DEF IsSup, Fields
  <1>2. /\ t.state = s.state /\ t.bind = s.bind /\ t.published = s.published /\ t.moved = s.moved
        /\ t.ends = s.ends /\ t.gen = s.gen /\ t.timer = s.timer /\ t.retired = s.retired /\ t.managed = TRUE
        /\ t.stopped = s.stopped /\ t.held = s.held /\ t.deliver = s.deliver /\ t.at = s.at
        /\ t.due = s.due /\ t.woken = s.woken
        /\ t.late = s.late /\ t.limited = s.limited /\ t.recorded = s.recorded
        /\ t.cycles = s.cycles /\ t.open = o /\ t.status = s.status /\ t.pane = s.pane
    BY <1>0, SupDomain DEF Fields
  <1> HIDE DEF t
  <1>3. Armed(t) /\ Reopened(t)
    BY <1>2 DEF Fresh, Armed, Reopened
  <1>4. Sent(t)
    BY <1>2 DEF Fresh, SupInv, Sent, Even, Waiting, Latched
  <1>5. Tasks(t) /\ Binding(t)
    BY <1>2, IdleTyped DEF Fresh, SupInv, Tasks, Binding
  <1>6. SupInv(t)
    BY <1>1, <1>2, <1>3, <1>4, <1>5 DEF Fresh, SupInv
  <1> QED
    BY <1>2, <1>6, <1>9 DEF Fresh, o

(* bind after its confirming snapshot. *)
LEMMA AnchoredHandled ==
    ASSUME NEW s, SupInv(s), s.at = Idle, s.published = FALSE, s.retired = FALSE,
           NEW o \in Snapshot, child.ends \in Nat
    PROVE  LET t == Anchored(s, o) IN
           /\ Handled(s, t) /\ (Fresh(s) => Fresh(t))
           /\ t.managed = s.managed /\ t.open = s.open /\ t.cycles = s.cycles /\ t.at = Idle
           /\ t.bind = "drain"
  <1>0. IsSup(s) /\ EndpointOf(o) \in SomeEndpoint /\ o.status \in Statuses \cup {"unknown"}
        /\ o.rev \in Nat /\ o.seq \in Nat
    BY EndpointTyped DEF SupInv
  <1> DEFINE p == s.managed /\ ~o.owner
             l == EndpointOf(o)
             st == o.status
             rv == o.rev
             sq == o.seq
             b == child.ends
             t == [s EXCEPT !.bind = "drain", !.status = st, !.rev = rv, !.seq = sq, !.last = l,
                            !.paused = p, !.base = b]
  <1>1. /\ p \in BOOLEAN /\ l \in SomeEndpoint /\ st \in Statuses \cup {"unknown"}
        /\ rv \in Nat /\ sq \in Nat /\ b \in Nat
    BY <1>0, SupFlags
  <1>9. Anchored(s, o) = t
    BY DEF Anchored
  <1> HIDE DEF p, l, st, rv, sq, b
  <1>2. IsSup(t)
    BY <1>0, <1>1 DEF IsSup, Fields
  <1>3. /\ t.state = s.state /\ t.bind = "drain" /\ t.published = s.published /\ t.moved = s.moved
        /\ t.ends = s.ends /\ t.gen = s.gen /\ t.timer = s.timer /\ t.retired = s.retired
        /\ t.managed = s.managed
        /\ t.stopped = s.stopped /\ t.held = s.held /\ t.deliver = s.deliver /\ t.at = s.at
        /\ t.due = s.due /\ t.woken = s.woken
        /\ t.late = s.late /\ t.limited = s.limited /\ t.recorded = s.recorded
        /\ t.cycles = s.cycles /\ t.open = s.open
    BY <1>0, SupDomain DEF Fields
  <1> HIDE DEF t
  <1>4. Armed(t) /\ Reopened(t)
    BY <1>3 DEF SupInv, Armed, Reopened
  <1>5. ~t.stopped => Sent(t)
    BY <1>3 DEF SupInv, Sent, Even, Waiting, Latched
  <1>6. Tasks(t) /\ Binding(t)
    BY <1>3, IdleTyped DEF SupInv, Tasks, Binding
  <1>7. SupInv(t)
    BY <1>2, <1>3, <1>4, <1>5, <1>6 DEF SupInv
  <1>8. Cadent(s, t) /\ Cycled(s, t)
    BY <1>3 DEF Cadent, Cycled
  <1> QED
    BY <1>3, <1>7, <1>8, <1>9 DEF Handled, Fresh

(* commitBinding: the cadence of a child that works is armed. *)
LEMMA PublishedKept ==
    ASSUME NEW s, SupInv(s), s.at = Idle, ~IsSettled(s), NEW d \in BOOLEAN,
           s.bind \notin {"no", "reading"}
    PROVE  LET t == Published(s, d) IN
           /\ SupInv(t) /\ t.state = "active" /\ t.at = Idle /\ t.published = TRUE
           /\ t.managed = s.managed /\ t.open = s.open /\ t.cycles = s.cycles
           /\ RunLive(t) => t.timer
  <1> DEFINE a == [s EXCEPT !.bind = "done", !.published = TRUE, !.state = "active", !.stream = d]
             t == EnterStatus(a)
  <1>0. IsSup(s)
    BY DEF SupInv
  <1>1. IsSup(a)
    BY <1>0 DEF IsSup, Fields
  <1>2. /\ a.state = "active" /\ a.bind = "done" /\ a.published = TRUE /\ a.moved = s.moved
        /\ a.ends = s.ends /\ a.gen = s.gen /\ a.retired = s.retired /\ a.managed = s.managed
        /\ a.stopped = s.stopped /\ a.held = s.held /\ a.deliver = s.deliver /\ a.at = s.at
        /\ a.due = s.due /\ a.woken = s.woken
        /\ a.late = s.late /\ a.limited = s.limited /\ a.recorded = s.recorded
        /\ a.cycles = s.cycles /\ a.open = s.open /\ a.status = s.status
    BY <1>0, SupDomain DEF Fields
  <1> HIDE DEF a
  <1>3. /\ IsSup(t) /\ Same(a, t) /\ Placed(a, t) /\ t.status = a.status
        /\ t.held = a.held /\ t.deliver = a.deliver /\ t.due = a.due /\ t.woken = a.woken
        /\ t.late = a.late /\ t.limited = a.limited /\ t.recorded = a.recorded
        /\ t.open = a.open /\ t.cycles = a.cycles
        /\ t.timer = (a.published /\ a.status = "working" /\ ~a.retired)
    BY <1>1, EnterShape DEF Beside, Same
  <1> HIDE DEF t
  <1>4. /\ t.state = "active" /\ t.bind = "done" /\ t.published = TRUE /\ t.moved = s.moved
        /\ t.ends = s.ends /\ t.gen = s.gen /\ t.retired = s.retired /\ t.managed = s.managed
        /\ t.stopped = s.stopped /\ t.held = s.held /\ t.deliver = s.deliver /\ t.at = s.at
        /\ t.due = s.due /\ t.woken = s.woken
        /\ t.late = s.late /\ t.limited = s.limited /\ t.recorded = s.recorded
        /\ t.cycles = s.cycles /\ t.open = s.open /\ t.status = s.status
    BY <1>2, <1>3 DEF Same, Placed
  <1>5. t.timer <=> t.status = "working" /\ ~t.retired
    BY <1>2, <1>3, <1>4
  <1>6. ~s.stopped
    BY DEF SupInv, Binding, IsSettled
  <1>7. Armed(t) /\ Reopened(t)
    BY <1>4, <1>6, IdleTyped DEF SupInv, Armed, Reopened, Over, IsSettled
  <1>8. Tasks(t) /\ Binding(t)
    BY <1>4, <1>6, IdleTyped DEF Tasks, Binding, IsSettled
  <1>9. Sent(t)
    BY <1>4, <1>6 DEF SupInv, Sent, Even, Waiting, Latched
  <1>10. SupInv(t)
    BY <1>3, <1>4, <1>7, <1>8, <1>9 DEF SupInv
  <1> QED
    BY <1>4, <1>5, <1>10 DEF Published, RunLive, t, a

-----------------------------------------------------------------------------
(* Steps, part by part. *)

LEMMA JobBecomes ==
    ASSUME JobInv, Alive, Alive', IsSup(sup'), sup'.state = sup.state \/ sup'.state = "settled",
           port' = [port EXCEPT ![Job] = sup'.state], UNCHANGED regRest
    PROVE  JobInv'
  <1>1. Job \in Sups
    BY SupervisorAssumption
  <1>2. UNCHANGED <<session, asked, rec, runner, answer, prep, retired, call, told, posted>>
    BY DEF regRest
  <1>3. sup'.state \in {"starting", "active", "settled"}
    BY DEF IsSup
  <1>4. port' \in [Sups -> {"none", "starting", "provisional", "active", "settled"}] /\ port'[Job] = sup'.state
    BY <1>1, <1>3 DEF JobInv, RegTypeOK
  <1>5. RegTypeOK'
    BY <1>2, <1>4 DEF JobInv, RegTypeOK
  <1>6. sup'.state = sup.state \/ sup'.state = "settled"
    OBVIOUS
  <1>7. LiveChildHasRunningJob'
    BY <1>2, <1>4, <1>6 DEF JobInv, LiveChildHasRunningJob
  <1>8. \A c \in Callers : call'[c].pc # "idle" => call'[c].job = Job /\ rec'[Job].phase # "running"
    BY <1>2 DEF JobInv
  <1>9. (answer'[Job] # "none" => sup'.state = "settled") /\ (prep'[Job] # NoPrep => rec'[Job].listed /\ prep'[Job].how = "exact")
    BY <1>2, <1>6 DEF JobInv
  <1> QED
    BY <1>4, <1>5, <1>7, <1>8, <1>9 DEF JobInv

LEMMA JobKept ==
    ASSUME JobInv, Alive, Alive', Kept(sup, sup'), IsSup(sup),
           port' = [port EXCEPT ![Job] = sup'.state], UNCHANGED regRest
    PROVE  JobInv'
  BY JobBecomes DEF Kept, SupInv

LEMMA CadenceKept ==
    ASSUME Cadence, Cadent(sup, sup'), UNCHANGED review
    PROVE  Cadence'
  BY DEF Cadence, CadenceNeverStarves, Cadent

LEMMA GateKept ==
    ASSUME GateInv, GateTypeOK', UNCHANGED <<artifact, writes, prompts>>,
           sidecar'.sha = sidecar.sha, sidecar'.version = sidecar.version,
           sidecar'.fence = sidecar.fence, sidecar'.attempts = sidecar.attempts,
           sup'.at = sup.at \/ sup'.at.pc \notin {"accept", "prompt"}
    PROVE  GateInv'
  <1>0. /\ sidecar.version \in Nat /\ writes \in Nat /\ sidecar.attempts \in Nat
    BY GateAssumption DEF GateInv, GateTypeOK, Versions
  <1>1. (sidecar.version + ToAccept + ToRead <= writes)'
    <2>1. CASE sup'.at = sup.at
      BY <2>1 DEF GateInv, ToAccept, ToRead, Expected, Reading
    <2>2. CASE sup'.at.pc \notin {"accept", "prompt"}
      <3>1. Expected' = sidecar.sha /\ ToAccept' = 0
        BY <2>2 DEF Expected, Reading, ToAccept
      <3>2. ToRead' = IF artifact \in Contents /\ artifact # sidecar.sha THEN 1 ELSE 0
        BY <3>1 DEF ToRead
      <3>3. sidecar.version + ToAccept + ToRead <= writes
        BY DEF GateInv
      <3>4. CASE artifact \in Contents /\ artifact # sidecar.sha
        <4>1. ToAccept = 1 \/ ToRead = 1
          BY <3>4 DEF ToAccept, ToRead
        <4>2. ToAccept \in {0, 1} /\ ToRead \in {0, 1}
          BY DEF ToAccept, ToRead
        <4> QED
          BY <1>0, <3>1, <3>2, <3>3, <3>4, <4>1, <4>2
      <3>5. CASE ~(artifact \in Contents /\ artifact # sidecar.sha)
        <4>2. ToAccept \in {0, 1} /\ ToRead \in {0, 1}
          BY DEF ToAccept, ToRead
        <4> QED
          BY <1>0, <3>1, <3>2, <3>3, <3>5, <4>2
      <3> QED
        BY <3>4, <3>5
    <2> QED
      BY <2>1, <2>2
  <1>2. Prompted' = Prompted
    BY DEF Prompted
  <1>3. (Cardinality(Prompted) + ToPrompt <= sidecar.attempts)'
    <2>1. Cardinality(Prompted) + ToPrompt <= sidecar.attempts
      BY DEF GateInv
    <2>2. ToPrompt' = ToPrompt \/ ToPrompt' = 0
      BY DEF ToPrompt
    <2>3. ToPrompt \in {0, 1}
      BY DEF ToPrompt
    <2>4. Cardinality(Prompted) \in Nat
      <3>1. IsFiniteSet(Versions)
        BY FS_Interval, GateAssumption DEF Versions
      <3>2. IsFiniteSet(Prompted)
        BY <3>1, FS_Subset DEF Prompted
      <3> QED
        BY <3>2, FS_CardinalityType
    <2> QED
      BY <1>0, <1>2, <2>1, <2>2, <2>3, <2>4
  <1>4. (\A v \in Versions : prompts[v] <= 1)' /\
        (\A v \in Versions :
           prompts[v] > 0 => v <= sidecar.version /\ (v = sidecar.version => sidecar.fence = v))'
    BY DEF GateInv
  <1>5. (sup.at.pc = "prompt" =>
          /\ sup.at.n = sidecar.version /\ sidecar.fence = sidecar.version
          /\ prompts[sidecar.version] = 0)'
    BY DEF GateInv
  <1> QED
    BY <1>1, <1>3, <1>4, <1>5 DEF GateInv

LEMMA CycleKept ==
    ASSUME CycleInv, UNCHANGED <<since, handoffs>>, daemon'.boot = daemon.boot, Alive,
           sidecar'.sha = sidecar.sha,
           sup'.managed = sup.managed, Cycled(sup, sup'),
           sup'.at = sup.at \/ sup'.at.content = "none"
    PROVE  CycleInv'
  <1>1. AcceptedInItsCycle'
    BY DEF CycleInv, AcceptedInItsCycle
  <1>2. (since.boot <= daemon.boot)'
    BY DEF CycleInv
  <1>3. (sup.at.pc = "record" /\ sup.at.content # "none" => sidecar.sha # "none")'
    BY DEF CycleInv
  <1>4. (Alive /\ since.boot = daemon.boot /\ sidecar.sha # "none" =>
          /\ sup.managed
          /\ ~sup.open => since.cycle = sup.cycles)'
    BY DEF CycleInv, Cycled
  <1> QED
    BY <1>1, <1>2, <1>3, <1>4 DEF CycleInv

LEMMA GateUnchanged ==
    ASSUME GateTypeOK, UNCHANGED gateVars PROVE GateTypeOK'
  BY DEF GateTypeOK, gateVars

LEMMA DaemonKept ==
    ASSUME DaemonInv, UNCHANGED <<daemon, review, evidence>> PROVE DaemonInv'
  BY DEF DaemonInv, ReviewRec, EvidenceRec

LEMMA TraceKept ==
    ASSUME TraceInv, UNCHANGED <<trace, store>> PROVE TraceInv'
  BY DEF TraceInv, TraceRec, StoreTypeOK

(* A handler that leaves the gate alone. *)
LEMMA FoldsStep ==
    ASSUME IInv, WorldInv', Alive, Handled(sup, sup'), Folds(sup'), UNCHANGED <<gateVars, evidenceVars>>
    PROVE  IInv'
  <1>1. /\ port' = [port EXCEPT ![Job] = sup'.state]
        /\ UNCHANGED regRest /\ UNCHANGED review /\ UNCHANGED daemon /\ UNCHANGED gateVars
        /\ UNCHANGED evidenceVars
    BY DEF Folds, Becomes
  <1>2. Alive'
    BY <1>1 DEF Alive
  <1>3. IsSup(sup)
    BY DEF IInv, SupInv
  <1>4. JobInv'
    BY <1>1, <1>2, <1>3, JobKept, HandledKept DEF IInv
  <1>5. Cadence'
    BY <1>1, CadenceKept DEF IInv, Handled
  <1>6. GateTypeOK'
    BY <1>1, GateUnchanged DEF IInv, GateInv
  <1>7. GateInv'
    BY <1>1, <1>6, GateKept DEF IInv, Handled, gateVars
  <1>8. CycleInv'
    BY <1>1, CycleKept DEF IInv, Handled, gateVars
  <1>9. DaemonInv' /\ TraceInv'
    BY <1>1, DaemonKept, TraceKept DEF IInv, evidenceVars
  <1> QED
    BY <1>4, <1>5, <1>7, <1>8, <1>9 DEF IInv, Handled

-----------------------------------------------------------------------------
(* The world. *)

LEMMA PanesTyped == Panes \subseteq 0..MaxPanes /\ 0 \in 0..MaxPanes /\ 1 \in Panes
  BY ChildAssumption DEF Panes

LEMMA ReportedTyped ==
    ASSUME NEW n \in 1..(MaxTurns + 1) PROVE Reported(n) \in 0..(MaxTurns + 1)
  BY ChildAssumption DEF Reported

LEMMA SnapTyped ==
    ASSUME WorldTypeOK, NEW valid \in BOOLEAN PROVE Snap(valid) \in Snapshot
  <1> DEFINE q == Reported(child.seq)
  <1>1. /\ child.status \in Statuses /\ child.pane \in Panes /\ child.rev \in Nat
        /\ child.there \in Theres /\ child.owner \in BOOLEAN /\ child.seq \in 1..(MaxTurns + 1)
    BY DEF WorldTypeOK, Child
  <1>2. q \in 0..(MaxTurns + 1)
    BY <1>1, ReportedTyped
  <1> HIDE DEF q
  <1> QED
    BY <1>1, <1>2 DEF Snap, Snapshot, q

LEMMA RecordTyped ==
    ASSUME NEW c \in Child, NEW kind \in {"updated", "moved", "closed", "exited", "thin"},
           NEW from \in 0..MaxPanes
    PROVE  Record(kind, c, from) \in Event
  <1> DEFINE q == Reported(c.seq)
             o == c.there = "here"
  <1>1. /\ c.status \in Statuses /\ c.pane \in Panes /\ c.rev \in Nat /\ c.seq \in 1..(MaxTurns + 1)
    BY DEF Child
  <1>2. q \in 0..(MaxTurns + 1) /\ o \in BOOLEAN
    BY <1>1, ReportedTyped
  <1> HIDE DEF q, o
  <1> QED
    BY <1>1, <1>2 DEF Record, Event, q, o

(* Only the world moves. *)
LEMMA WorldStep ==
    ASSUME IInv, WorldInv', UNCHANGED <<gateVars, regVars, supVars, evidenceVars>>
    PROVE  IInv'
  <1>1. UNCHANGED <<sup, review, daemon>> /\ UNCHANGED <<trace, store, evidence>>
        /\ UNCHANGED <<session, asked, rec, runner, answer, port, prep, retired, call, told, posted>>
        /\ UNCHANGED <<sidecar, artifact, faults, writes, since, handoffs, prompts>>
    BY DEF supVars, evidenceVars, regVars, gateVars
  <1>2. DaemonInv' /\ TraceInv'
    BY <1>1, DaemonKept, TraceKept DEF IInv
  <1>3. GateInv'
    BY <1>1, GateUnchanged, GateKept DEF IInv, GateInv, gateVars
  <1>4. CycleInv' /\ Cadence' /\ SupInv(sup)'
    BY <1>1 DEF IInv, CycleInv, AcceptedInItsCycle, Alive, Cadence, CadenceNeverStarves
  <1>5. JobInv'
    BY <1>1 DEF IInv, JobInv, RegTypeOK, LiveChildHasRunningJob, Alive
  <1> QED
    BY <1>2, <1>3, <1>4, <1>5 DEF IInv

LEMMA ChildTurnsTyped ==
    ASSUME WorldInv, ChildTurns PROVE WorldInv'
  <1>1. PICK to \in Statuses, step \in {0, 1} :
        /\ child' = [child EXCEPT !.status = to, !.seq = @ + 1, !.rev = @ + step,
                                   !.ends = IF Material(child.status, to) = "work_cycle_completed"
                                               /\ <<child.status, to>> # <<"done", "idle">>
                                            THEN @ + 1 ELSE @]
        /\ log' = Append(log, Record("updated", child', 0))
    BY ChildAssumption DEF ChildTurns
  <1> DEFINE q == child.seq + 1
             r == child.rev + step
             n == IF Material(child.status, to) = "work_cycle_completed"
                     /\ <<child.status, to>> # <<"done", "idle">>
                  THEN child.ends + 1 ELSE child.ends
  <1>2. child \in Child /\ child.seq <= MaxTurns
    BY DEF WorldInv, WorldTypeOK, ChildTurns
  <1>3. q \in 1..(MaxTurns + 1)
    BY <1>2, ChildAssumption DEF Child
  <1>4. r \in Nat /\ child.ends \in Nat
    BY <1>2 DEF Child
  <1>5. n \in Nat
    BY <1>4
  <1>6. child' = [child EXCEPT !.status = to, !.seq = q, !.rev = r, !.ends = n]
    BY <1>1, <1>2 DEF Child
  <1> HIDE DEF q, r, n
  <1>7. child' \in Child
    BY <1>2, <1>3, <1>4, <1>5, <1>6 DEF Child
  <1>8. Record("updated", child', 0) \in Event
    BY <1>7, RecordTyped, PanesTyped
  <1>9. log' \in Seq(Event)
    BY <1>1, <1>8 DEF WorldInv, WorldTypeOK
  <1> QED
    BY <1>7, <1>9 DEF WorldInv, WorldTypeOK, ChildTurns

LEMMA ChildMovesTyped ==
    ASSUME WorldInv, ChildMoves PROVE WorldInv'
  <1>1. child \in Child /\ child.pane \in Panes /\ child.pane + 1 \in Panes
    <2>1. child \in Child /\ child.pane < MaxPanes
      BY DEF WorldInv, WorldTypeOK, ChildMoves
    <2>2. child.pane \in Panes
      BY <2>1 DEF Child
    <2> QED
      BY <2>1, <2>2, ChildAssumption DEF Panes
  <1>2. child' \in Child
    BY <1>1 DEF ChildMoves, Child
  <1>3. Record("moved", child', child.pane) \in Event
    BY <1>1, <1>2, RecordTyped, PanesTyped
  <1>4. log' \in Seq(Event)
    BY <1>3 DEF WorldInv, WorldTypeOK, ChildMoves
  <1> QED
    BY <1>2, <1>4 DEF WorldInv, WorldTypeOK, ChildMoves

LEMMA ChildLeavesTyped ==
    ASSUME WorldInv, ChildLeaves PROVE WorldInv'
  <1>1. PICK how \in {"exited", "replaced", "closed"} :
         /\ child' = [child EXCEPT !.there = how, !.rev = IF how = "replaced" THEN @ + 1 ELSE @]
         /\ log' = Append(log, Record(IF how = "replaced" THEN "updated" ELSE how, child', 0))
    BY DEF ChildLeaves
  <1> DEFINE r == IF how = "replaced" THEN child.rev + 1 ELSE child.rev
             k == IF how = "replaced" THEN "updated" ELSE how
  <1>2. child \in Child
    BY DEF WorldInv, WorldTypeOK
  <1>3. r \in Nat /\ k \in {"updated", "exited", "closed"}
    BY <1>2 DEF Child
  <1>4. child' = [child EXCEPT !.there = how, !.rev = r] /\ log' = Append(log, Record(k, child', 0))
    BY <1>1, <1>2 DEF Child
  <1> HIDE DEF r, k
  <1>5. child' \in Child
    BY <1>2, <1>3, <1>4 DEF Child, Theres
  <1>6. Record(k, child', 0) \in Event
    BY <1>3, <1>5, RecordTyped, PanesTyped
  <1>7. log' \in Seq(Event)
    BY <1>4, <1>6 DEF WorldInv, WorldTypeOK
  <1> QED
    BY <1>5, <1>7 DEF WorldInv, WorldTypeOK, ChildLeaves

LEMMA ThinTyped ==
    ASSUME WorldInv, ThinEvent PROVE WorldInv'
  <1>1. child \in Child
    BY DEF WorldInv, WorldTypeOK
  <1>2. Record("thin", child, 0) \in Event
    BY <1>1, RecordTyped, PanesTyped
  <1>3. log' \in Seq(Event)
    BY <1>2 DEF WorldInv, WorldTypeOK, ThinEvent
  <1>4. spent' \in [reads: Nat, drops: Nat, glitches: Nat, thin: Nat]
    BY DEF WorldInv, WorldTypeOK, ThinEvent
  <1> QED
    BY <1>3, <1>4 DEF WorldInv, WorldTypeOK, ThinEvent

LEMMA OwnerTyped ==
    ASSUME WorldInv, OwnerTurns PROVE WorldInv'
  <1>1. child' \in Child
    BY DEF WorldInv, WorldTypeOK, OwnerTurns, Child
  <1>2. spent' \in [reads: Nat, drops: Nat, glitches: Nat, thin: Nat]
    BY DEF WorldInv, WorldTypeOK, OwnerTurns
  <1> QED
    BY <1>1, <1>2 DEF WorldInv, WorldTypeOK, OwnerTurns

LEMMA MonitorTyped ==
    ASSUME WorldInv, StreamDrops \/ Resubscribe \/ PeriodicRead PROVE WorldInv'
  <1>1. CASE StreamDrops
    <2> DEFINE n == spent.drops + 1
    <2>1. spent \in [reads: Nat, drops: Nat, glitches: Nat, thin: Nat]
          /\ link \in [up: BOOLEAN, next: Nat, degraded: BOOLEAN] /\ link.next > 0
      BY DEF WorldInv, WorldTypeOK
    <2>2. n \in Nat
      BY <2>1
    <2>3. spent' = [spent EXCEPT !.drops = n]
      BY <1>1 DEF StreamDrops
    <2> HIDE DEF n
    <2>4. spent' \in [reads: Nat, drops: Nat, glitches: Nat, thin: Nat]
      BY <2>1, <2>2, <2>3
    <2>5. link' \in [up: BOOLEAN, next: Nat, degraded: BOOLEAN] /\ link'.next > 0
      BY <1>1, <2>1 DEF StreamDrops
    <2> QED
      BY <1>1, <2>4, <2>5 DEF WorldInv, WorldTypeOK, StreamDrops
  <1>2. CASE Resubscribe
    <2>1. boot' \in Snapshot
      BY <1>2, SnapTyped DEF WorldInv, Resubscribe
    <2>2. PICK from \in 1..(Len(log) + 1) : link' = [up |-> TRUE, next |-> from, degraded |-> FALSE]
      BY <1>2 DEF Resubscribe
    <2>3. Len(log) \in Nat
      BY DEF WorldInv, WorldTypeOK
    <2>4. link' \in [up: BOOLEAN, next: Nat, degraded: BOOLEAN] /\ link'.next > 0
      BY <2>2, <2>3
    <2> QED
      BY <1>2, <2>1, <2>4 DEF WorldInv, WorldTypeOK, Resubscribe
  <1>3. CASE PeriodicRead
    <2>1. PICK valid \in BOOLEAN :
         /\ periodic' = Snap(valid)
         /\ spent' = [spent EXCEPT !.reads = @ + 1,
                                   !.glitches = IF valid THEN @ ELSE @ + 1]
      BY <1>3 DEF PeriodicRead
    <2>2. periodic' \in Snapshot
      BY <2>1, SnapTyped DEF WorldInv
    <2>3. spent' \in [reads: Nat, drops: Nat, glitches: Nat, thin: Nat]
      <3> DEFINE n == spent.reads + 1
                 g == IF valid THEN spent.glitches ELSE spent.glitches + 1
      <3>1. spent \in [reads: Nat, drops: Nat, glitches: Nat, thin: Nat]
        BY DEF WorldInv, WorldTypeOK
      <3>2. n \in Nat /\ g \in Nat
        BY <3>1
      <3>3. spent' = [spent EXCEPT !.reads = n, !.glitches = g]
        BY <2>1, <3>1
      <3> HIDE DEF n, g
      <3> QED
        BY <3>1, <3>2, <3>3
    <2> QED
      BY <1>3, <2>2, <2>3 DEF WorldInv, WorldTypeOK, PeriodicRead
  <1> QED
    BY <1>1, <1>2, <1>3

LEMMA WorldKeeps ==
    ASSUME IInv, World, UNCHANGED evidenceVars PROVE IInv'
  <1>1. WorldInv'
    BY ChildTurnsTyped, ChildMovesTyped, ChildLeavesTyped, ThinTyped, OwnerTyped, MonitorTyped DEF IInv, World
  <1>2. UNCHANGED <<gateVars, regVars, supVars>>
    BY DEF World
  <1> QED
    BY <1>1, <1>2, WorldStep

-----------------------------------------------------------------------------
(* The dispatcher and the chain. *)

SpentRec == [reads: Nat, drops: Nat, glitches: Nat, thin: Nat]
LinkRec == [up: BOOLEAN, next: Nat, degraded: BOOLEAN]

LEMMA GlitchTyped ==
    ASSUME WorldInv, spent' = [spent EXCEPT !.glitches = @ + 1] PROVE spent' \in SpentRec
  <1> DEFINE n == spent.glitches + 1
  <1>1. spent \in SpentRec
    BY DEF WorldInv, WorldTypeOK, SpentRec
  <1>2. n \in Nat
    BY <1>1 DEF SpentRec
  <1> HIDE DEF n
  <1> QED
    BY <1>1, <1>2 DEF SpentRec, n

LEMMA ReadsTyped ==
    ASSUME WorldInv, NEW r \in {Snap(TRUE), Snap(FALSE)}, Reads(r)
    PROVE  r \in Snapshot /\ spent' \in SpentRec
  <1>1. r \in Snapshot
    BY SnapTyped DEF WorldInv
  <1>2. spent' = spent \/ spent' = [spent EXCEPT !.glitches = @ + 1]
    BY DEF Reads
  <1> QED
    BY <1>1, <1>2, GlitchTyped DEF WorldInv, WorldTypeOK, SpentRec

LEMMA DeliveredTyped ==
    ASSUME WorldInv, Pending
    PROVE  Delivered \in LinkRec /\ Delivered.next > 0 /\ log[link.next] \in Event
  <1>1. link \in LinkRec /\ link.next > 0 /\ log \in Seq(Event) /\ link.next <= Len(log)
    BY DEF WorldInv, WorldTypeOK, LinkRec, Pending
  <1> DEFINE n == link.next + 1
  <1>2. n \in Nat /\ n > 0
    BY <1>1 DEF LinkRec
  <1>3. link.next \in 1..Len(log)
    BY <1>1 DEF LinkRec
  <1>4. log[link.next] \in Event
    BY <1>1, <1>3
  <1>5. Delivered = [link EXCEPT !.next = n]
    BY DEF Delivered
  <1> HIDE DEF n
  <1> QED
    BY <1>1, <1>2, <1>4, <1>5 DEF LinkRec

LEMMA DeliverKeeps ==
    ASSUME IInv, DeliverEvent, UNCHANGED evidenceVars PROVE IInv'
  <1> DEFINE e == log[link.next]
  <1>1. PICK r \in {Snap(TRUE), Snap(FALSE)} :
         Reads(r) /\ Folds(IF Routed(e) THEN Fold(sup, e, r) ELSE sup)
    BY DEF DeliverEvent
  <1>2. WorldInv /\ SupInv(sup) /\ sup.at = Idle /\ Alive /\ Pending /\ sup.bind # "reading"
    BY DEF IInv, DeliverEvent, Free
  <1>3. r \in Snapshot /\ spent' \in SpentRec
    BY <1>1, <1>2, ReadsTyped
  <1>4. e \in Event /\ link' \in LinkRec /\ link'.next > 0
    BY <1>2, DeliveredTyped DEF DeliverEvent
  <1>5. WorldInv'
    BY <1>2, <1>3, <1>4 DEF WorldInv, WorldTypeOK, DeliverEvent, LinkRec, SpentRec
  <1> HIDE DEF e
  <1>6. Routed(e) => Handled(sup, Fold(sup, e, r))
    BY <1>2, <1>3, <1>4, FoldHandled DEF Routed
  <1>7. sup' = IF Routed(e) THEN Fold(sup, e, r) ELSE sup
    BY <1>1 DEF Folds, Becomes
  <1>8. Handled(sup, sup')
    BY <1>2, <1>6, <1>7, HandledSelf
  <1>9. Folds(sup')
    BY <1>1, <1>7
  <1>10. UNCHANGED gateVars
    BY DEF DeliverEvent
  <1> QED
    BY <1>2, <1>5, <1>8, <1>9, <1>10, FoldsStep

LEMMA QueuedHandled ==
    ASSUME NEW s, SupInv(s), NEW q \in Seq(Event)
    PROVE  LET t == [s EXCEPT !.queued = q] IN Handled(s, t) /\ Alike(s, t)
  <1>0. IsSup(s)
    BY DEF SupInv
  <1>1. IsSup([s EXCEPT !.queued = q])
    BY <1>0 DEF IsSup, Fields
  <1>2. Alike(s, [s EXCEPT !.queued = q])
    BY <1>0, SupDomain DEF Fields, Alike
  <1> QED
    BY <1>1, <1>2, AlikeHandled

LEMMA AdmitKeeps ==
    ASSUME IInv, AdmitEvent, UNCHANGED evidenceVars PROVE IInv'
  <1> DEFINE e == log[link.next]
             q == Append(sup.queued, e)
             t == [sup EXCEPT !.queued = q]
  <1>2. WorldInv /\ SupInv(sup) /\ Alive /\ Pending
    BY DEF IInv, AdmitEvent
  <1>4. e \in Event /\ link' \in LinkRec /\ link'.next > 0
    BY <1>2, DeliveredTyped DEF AdmitEvent
  <1>5. WorldInv'
    BY <1>2, <1>4 DEF WorldInv, WorldTypeOK, AdmitEvent, LinkRec
  <1>6. sup.queued \in Seq(Event)
    BY <1>2, SupPlaces DEF SupInv
  <1>11. q \in Seq(Event)
    BY <1>4, <1>6
  <1>7. Folds(IF Routed(e) THEN t ELSE sup)
    BY DEF AdmitEvent
  <1> HIDE DEF e, q
  <1>8. Handled(sup, t) /\ Handled(sup, sup)
    BY <1>2, <1>11, QueuedHandled, HandledSelf
  <1> HIDE DEF t
  <1>9. sup' = (IF Routed(e) THEN t ELSE sup) /\ Folds(sup')
    BY <1>7 DEF Folds, Becomes
  <1>10. UNCHANGED gateVars /\ Handled(sup, sup')
    BY <1>8, <1>9 DEF AdmitEvent
  <1> QED
    BY <1>2, <1>5, <1>9, <1>10, FoldsStep

LEMMA StreamHandled ==
    ASSUME NEW s, SupInv(s), NEW b \in BOOLEAN
    PROVE  LET t == [s EXCEPT !.stream = b] IN Handled(s, t) /\ Alike(s, t)
  <1>0. IsSup(s)
    BY DEF SupInv
  <1>1. IsSup([s EXCEPT !.stream = b])
    BY <1>0 DEF IsSup, Fields
  <1>2. Alike(s, [s EXCEPT !.stream = b])
    BY <1>0, SupDomain DEF Fields, Alike
  <1> QED
    BY <1>1, <1>2, AlikeHandled

LEMMA BootstrapKeeps ==
    ASSUME IInv, AnnounceBootstrap, UNCHANGED evidenceVars PROVE IInv'
  <1> DEFINE b == sup.stream /\ sup.retired
             s == [sup EXCEPT !.stream = b]
             t == ApplyAuthoritative(s, boot, "identity_lost")
  <1>1. WorldInv /\ SupInv(sup) /\ sup.at = Idle /\ Alive
    BY DEF IInv, AnnounceBootstrap, Free
  <1>2. boot \in Snapshot /\ WorldInv'
    BY <1>1 DEF WorldInv, WorldTypeOK, AnnounceBootstrap
  <1>3. b \in BOOLEAN
    BY <1>1, SupFlags DEF SupInv
  <1>4. Folds(IF ~Bound THEN sup ELSE t)
    BY DEF AnnounceBootstrap
  <1> HIDE DEF b
  <1>5. Handled(sup, s) /\ Alike(sup, s)
    BY <1>1, <1>3, StreamHandled
  <1> HIDE DEF s
  <1>6. Bound => SupInv(s) /\ s.at = Idle /\ s.bind \notin {"no", "reading"} /\ ~Over(s)
    BY <1>1, <1>5 DEF Handled, Alike, Bound, Over, IsSettled
  <1>7. Bound => Handled(sup, t)
    BY <1>2, <1>5, <1>6, AuthoritativeHandled, HandledAgain
  <1> HIDE DEF t
  <1>8. sup' = (IF ~Bound THEN sup ELSE t) /\ Folds(sup')
    BY <1>4 DEF Folds, Becomes
  <1>9. Handled(sup, sup') /\ UNCHANGED gateVars
    BY <1>1, <1>7, <1>8, HandledSelf DEF AnnounceBootstrap
  <1> QED
    BY <1>1, <1>2, <1>8, <1>9, FoldsStep

LEMMA ResubscribeFailsKeeps ==
    ASSUME IInv, ResubscribeFails, UNCHANGED evidenceVars PROVE IInv'
  <1> DEFINE t == [sup EXCEPT !.stream = TRUE]
  <1>1. WorldInv /\ SupInv(sup) /\ Alive
    BY DEF IInv, ResubscribeFails
  <1>2. link' \in LinkRec /\ link'.next > 0
    BY <1>1 DEF WorldInv, WorldTypeOK, ResubscribeFails, LinkRec
  <1>3. spent' \in SpentRec
    BY <1>1, GlitchTyped DEF ResubscribeFails
  <1>4. WorldInv'
    BY <1>1, <1>2, <1>3 DEF WorldInv, WorldTypeOK, ResubscribeFails, LinkRec, SpentRec
  <1>5. Handled(sup, t) /\ Handled(sup, sup)
    BY <1>1, StreamHandled, HandledSelf
  <1>6. Folds(IF Bound /\ ~sup.retired THEN t ELSE sup)
    BY DEF ResubscribeFails
  <1> HIDE DEF t
  <1>8. sup' = (IF Bound /\ ~sup.retired THEN t ELSE sup) /\ Folds(sup')
    BY <1>6 DEF Folds, Becomes
  <1>9. Handled(sup, sup') /\ UNCHANGED gateVars
    BY <1>5, <1>8 DEF ResubscribeFails
  <1> QED
    BY <1>1, <1>4, <1>8, <1>9, FoldsStep

LEMMA PeriodicKeeps ==
    ASSUME IInv, DispatchPeriodic, UNCHANGED evidenceVars PROVE IInv'
  <1> DEFINE t == ApplyAuthoritative(sup, periodic, "released")
  <1>1. WorldInv /\ SupInv(sup) /\ sup.at = Idle /\ Alive
    BY DEF IInv, DispatchPeriodic, Free
  <1>2. periodic \in Snapshot /\ WorldInv'
    BY <1>1 DEF WorldInv, WorldTypeOK, DispatchPeriodic
  <1>3. Bound => Handled(sup, t)
    BY <1>1, <1>2, AuthoritativeHandled DEF Bound
  <1>4. Folds(IF Bound THEN t ELSE sup)
    BY DEF DispatchPeriodic
  <1> HIDE DEF t
  <1>8. sup' = (IF Bound THEN t ELSE sup) /\ Folds(sup')
    BY <1>4 DEF Folds, Becomes
  <1>9. Handled(sup, sup') /\ UNCHANGED gateVars
    BY <1>1, <1>3, <1>8, HandledSelf DEF DispatchPeriodic
  <1> QED
    BY <1>1, <1>2, <1>8, <1>9, FoldsStep

LEMMA PeriodicFailsKeeps ==
    ASSUME IInv, PeriodicReadFails, UNCHANGED evidenceVars PROVE IInv'
  <1> DEFINE t == MarkFailure(sup)
  <1>1. WorldInv /\ SupInv(sup) /\ Alive
    BY DEF IInv, PeriodicReadFails, Free
  <1>2. spent' \in SpentRec
    BY <1>1, GlitchTyped DEF PeriodicReadFails
  <1>3. WorldInv'
    BY <1>1, <1>2 DEF WorldInv, WorldTypeOK, PeriodicReadFails, SpentRec
  <1>4. Handled(sup, t) /\ Handled(sup, sup)
    BY <1>1, FailureFolds, UntouchedAlike, AlikeHandled, HandledSelf DEF SupInv
  <1>5. Folds(IF Bound /\ ~sup.retired THEN t ELSE sup)
    BY DEF PeriodicReadFails
  <1> HIDE DEF t
  <1>8. sup' = (IF Bound /\ ~sup.retired THEN t ELSE sup) /\ Folds(sup')
    BY <1>5 DEF Folds, Becomes
  <1>9. Handled(sup, sup') /\ UNCHANGED gateVars
    BY <1>4, <1>8 DEF PeriodicReadFails
  <1> QED
    BY <1>1, <1>3, <1>8, <1>9, FoldsStep

(* A handler that is given by what it makes of the supervisor. *)
LEMMA HandlerStep ==
    ASSUME IInv, WorldInv', Alive, NEW t, Handled(sup, t), Folds(t), UNCHANGED <<gateVars, evidenceVars>>
    PROVE  IInv'
  <1>1. sup' = t
    BY DEF Folds, Becomes
  <1>2. Handled(sup, sup') /\ Folds(sup')
    BY <1>1
  <1> QED
    BY <1>2, FoldsStep

LEMMA WorldUnchanged ==
    ASSUME WorldInv, UNCHANGED worldVars PROVE WorldInv'
  BY DEF WorldInv, WorldTypeOK, worldVars

LEMMA MoveReadKeeps ==
    ASSUME IInv, MoveRead, UNCHANGED evidenceVars PROVE IInv'
  <1>1. WorldInv /\ SupInv(sup) /\ Alive /\ sup.at.pc = "move" /\ UNCHANGED gateVars
    BY DEF IInv, MoveRead
  <1>2. ASSUME NEW r \in {Snap(TRUE), Snap(FALSE)}, Reads(r), Folds(DestinationRead(sup, r))
        PROVE  IInv'
    <2>1. r \in Snapshot /\ spent' \in SpentRec
      BY <1>1, <1>2, ReadsTyped
    <2>2. WorldInv'
      BY <1>1, <2>1 DEF WorldInv, WorldTypeOK, MoveRead, SpentRec
    <2>3. Handled(sup, DestinationRead(sup, r))
      BY <1>1, <2>1, DestinationHandled
    <2> QED
      BY <1>1, <1>2, <2>2, <2>3, HandlerStep
  <1>3. ASSUME spent' = [spent EXCEPT !.glitches = @ + 1],
               Folds(Settle([sup EXCEPT !.at = Idle], "identity_lost"))
        PROVE  IInv'
    <2> DEFINE a == [sup EXCEPT !.at = Idle]
    <2>1. spent' \in SpentRec
      BY <1>1, <1>3, GlitchTyped
    <2>2. WorldInv'
      BY <1>1, <2>1 DEF WorldInv, WorldTypeOK, MoveRead, SpentRec
    <2>3. Handled(sup, a) /\ a.at = Idle
      BY <1>1, FreeHandled
    <2>4. a.bind = sup.bind
      BY <1>1, SupDomain DEF SupInv, Fields
    <2>5. sup.bind \notin {"no", "reading"}
      BY <1>1, IdleTyped DEF SupInv, Binding
    <2> HIDE DEF a
    <2>6. "identity_lost" \in Outcomes \ {"none"}
      BY DEF Outcomes
    <2>7. Handled(a, Settle(a, "identity_lost"))
      BY <2>3, <2>4, <2>5, <2>6, SettleHandled, IdleTyped DEF Handled
    <2>8. Handled(sup, Settle(a, "identity_lost"))
      BY <2>3, <2>7, HandledAgain
    <2> QED
      BY <1>1, <1>3, <2>2, <2>8, HandlerStep DEF a
  <1> QED
    BY <1>2, <1>3 DEF MoveRead

LEMMA CloseConsumedKeeps ==
    ASSUME IInv, CloseConsumed, UNCHANGED evidenceVars PROVE IInv'
  <1>1. WorldInv /\ SupInv(sup) /\ Alive /\ sup.at.pc = "consume" /\ UNCHANGED gateVars /\ WorldInv'
    BY WorldUnchanged DEF IInv, CloseConsumed
  <1>2. /\ sup.bind \notin {"no", "reading"}
        /\ sup.at.outcome # "none" /\ sup.at \in AtRec
    BY <1>1, IdleTyped, SupPlaces DEF SupInv, Binding, Tasks
  <1>3. sup.at.outcome \in Outcomes \ {"none"}
    BY <1>2 DEF AtRec
  <1>4. Handled(sup, Settle(sup, sup.at.outcome))
    BY <1>1, <1>2, <1>3, SettleHandled
  <1> QED
    BY <1>1, <1>4, HandlerStep DEF CloseConsumed

LEMMA OnSignalKeeps ==
    ASSUME IInv, OnCompletionSignal, UNCHANGED evidenceVars PROVE IInv'
  <1> DEFINE a == [sup EXCEPT !.signal = TRUE]
             t == ScheduleCompletion(a)
  <1>1. WorldInv /\ SupInv(sup) /\ IsSup(sup) /\ Alive /\ UNCHANGED gateVars /\ WorldInv'
    BY WorldUnchanged DEF IInv, OnCompletionSignal, SupInv
  <1>2. IsSup(a)
    BY <1>1 DEF IsSup, Fields
  <1>3. Alike(sup, a)
    BY <1>1, SupDomain DEF Fields, Alike
  <1>4. Folds(t)
    BY DEF OnCompletionSignal
  <1> HIDE DEF a
  <1>5. Handled(sup, a)
    BY <1>1, <1>2, <1>3, AlikeHandled
  <1>6. Handled(sup, t)
    BY <1>2, <1>5, CompletionFolds, UntouchedAlike, AlikeHandled, HandledAgain DEF Handled
  <1> QED
    BY <1>1, <1>4, <1>6, HandlerStep

LEMMA RetryKeeps ==
    ASSUME IInv, RetryFires, UNCHANGED evidenceVars PROVE IInv'
  <1> DEFINE a == [sup EXCEPT !.retry = FALSE]
             t == ScheduleCompletion(a)
  <1>1. WorldInv /\ SupInv(sup) /\ IsSup(sup) /\ Alive /\ UNCHANGED gateVars /\ WorldInv'
    BY WorldUnchanged DEF IInv, RetryFires, SupInv
  <1>2. IsSup(a)
    BY <1>1 DEF IsSup, Fields
  <1>3. Alike(sup, a)
    BY <1>1, SupDomain DEF Fields, Alike
  <1>4. Folds(t)
    BY DEF RetryFires
  <1> HIDE DEF a
  <1>5. Handled(sup, a)
    BY <1>1, <1>2, <1>3, AlikeHandled
  <1>6. Handled(sup, t)
    BY <1>2, <1>5, CompletionFolds, UntouchedAlike, AlikeHandled, HandledAgain DEF Handled
  <1> QED
    BY <1>1, <1>4, <1>6, HandlerStep

(* The chain takes a task: it waits where the task's guards let it. *)
LEMMA TakeHandled ==
    ASSUME NEW s, SupInv(s), s.at = Idle, s.todo # <<>>,
           NEW x, x = Idle \/ (/\ x \in {Wait("signal", "none", 0), Wait("validate", "none", 0)}
                               /\ s.status \in Terminal /\ ~Over(s) /\ s.bind \notin {"no", "reading"}
                               /\ x.pc = "validate" => s.managed
                               /\ x.pc = "signal" => ~s.recorded)
    PROVE  Handled(s, [s EXCEPT !.todo = Tail(@), !.at = x])
  <1> DEFINE q == Tail(s.todo)
             a == [s EXCEPT !.todo = q]
  <1>0. IsSup(s) /\ s.todo \in Seq({"completion", "handoff"})
    BY SupPlaces DEF SupInv
  <1>1. q \in Seq({"completion", "handoff"})
    BY <1>0
  <1>2. [s EXCEPT !.todo = Tail(@), !.at = x] = [a EXCEPT !.at = x]
    OBVIOUS
  <1> HIDE DEF q
  <1>3. IsSup(a)
    BY <1>0, <1>1 DEF IsSup, Fields
  <1>4. Alike(s, a)
    BY <1>0, SupDomain DEF Fields, Alike
  <1> HIDE DEF a
  <1>5. Handled(s, a) /\ SupInv(a)
    BY <1>3, <1>4, AlikeHandled DEF Handled
  <1>6. x \in AtRec /\ x.content = "none" /\ x.pc \in {"none", "signal", "validate"} /\ x.outcome = "none"
        /\ (x # Idle => x.pc # "none")
    BY IdleTyped, AtTyped DEF Outcomes
  <1>7. /\ a.at.pc # "record" /\ a.bind = s.bind /\ a.status = s.status /\ a.managed = s.managed
        /\ (Over(a) <=> Over(s)) /\ (IsSettled(a) <=> IsSettled(s)) /\ a.stopped = s.stopped
        /\ a.recorded = s.recorded
    BY <1>4, IdleTyped DEF Alike, Over, IsSettled
  <1>8. Handled(a, [a EXCEPT !.at = x])
    BY <1>5, <1>6, <1>7, AtHandled, IdleTyped DEF Over
  <1> QED
    BY <1>2, <1>5, <1>8, HandledAgain

LEMMA TakeCompletionKeeps ==
    ASSUME IInv, TakeCompletion, UNCHANGED evidenceVars PROVE IInv'
  <1> DEFINE x == IF Over(sup) \/ sup.recorded \/ sup.status \notin Terminal THEN Idle
                  ELSE [Idle EXCEPT !.pc = "signal"]
             t == [sup EXCEPT !.todo = Tail(@), !.at = x]
  <1>1. /\ WorldInv' /\ SupInv(sup) /\ Alive /\ sup.at = Idle /\ sup.todo # <<>> /\ UNCHANGED gateVars
        /\ Folds(t)
    BY WorldUnchanged DEF IInv, TakeCompletion
  <1>2. sup.status \in Terminal => sup.bind \notin {"no", "reading"}
    BY <1>1 DEF SupInv, Binding, Terminal
  <1>3. [Idle EXCEPT !.pc = "signal"] = Wait("signal", "none", 0)
    BY AtOf
  <1>6. Wait("signal", "none", 0).pc = "signal"
    BY DEF Wait
  <1>4. x = Idle \/ (x = Wait("signal", "none", 0) /\ ~Over(sup) /\ ~sup.recorded /\ sup.status \in Terminal)
    BY <1>3
  <1> HIDE DEF x
  <1>5. Handled(sup, t)
    BY <1>1, <1>2, <1>4, <1>6, TakeHandled
  <1> QED
    BY <1>1, <1>5, HandlerStep

LEMMA TakeHandoffKeeps ==
    ASSUME IInv, TakeHandoff, UNCHANGED evidenceVars PROVE IInv'
  <1> DEFINE x == IF Evaluable(sup) THEN [Idle EXCEPT !.pc = "validate"] ELSE Idle
             t == [sup EXCEPT !.todo = Tail(@), !.at = x]
  <1>1. /\ WorldInv' /\ SupInv(sup) /\ Alive /\ sup.at = Idle /\ sup.todo # <<>> /\ UNCHANGED gateVars
        /\ Folds(t)
    BY WorldUnchanged DEF IInv, TakeHandoff
  <1>2. sup.status \in Terminal => sup.bind \notin {"no", "reading"}
    BY <1>1 DEF SupInv, Binding, Terminal
  <1>3. [Idle EXCEPT !.pc = "validate"] = Wait("validate", "none", 0)
    BY AtOf
  <1>6. Wait("validate", "none", 0).pc = "validate"
    BY DEF Wait
  <1>4. x = Idle \/ (x = Wait("validate", "none", 0) /\ ~Over(sup) /\ sup.status \in Terminal /\ sup.managed)
    BY <1>3 DEF Evaluable
  <1> HIDE DEF x
  <1>5. Handled(sup, t)
    BY <1>1, <1>2, <1>4, <1>6, TakeHandled
  <1> QED
    BY <1>1, <1>5, HandlerStep

LEMMA SignalKeeps ==
    ASSUME IInv, SignalAnswers, UNCHANGED evidenceVars PROVE IInv'
  <1>1. WorldInv' /\ SupInv(sup) /\ Alive /\ sup.at.pc \in {"signal", "leave"} /\ UNCHANGED gateVars
    BY WorldUnchanged DEF IInv, SignalAnswers
  <1>2. CASE Folds(After(sup))
    BY <1>1, <1>2, AfterHandled, HandlerStep
  <1> DEFINE a == [sup EXCEPT !.recorded = TRUE, !.held = FALSE, !.at.pc = "limit",
                              !.limited = @ + 1,
                              !.late = IF sup.deliver /\ ~sup.held THEN @ + 1 ELSE @]
             b == Wake(a)
  <1>3. CASE Folds(IF sup.managed THEN b ELSE After(b))
    <2>1. Handled(sup, b) /\ b.at.pc = "limit"
      BY <1>1, LimitHandled
    <2> HIDE DEF b
    <2>2. Handled(sup, After(b))
      BY <2>1, AfterHandled, HandledAgain DEF Handled
    <2> QED
      BY <1>1, <1>3, <2>1, <2>2, HandlerStep
  <1> QED
    BY <1>2, <1>3 DEF SignalAnswers

LEMMA DrainKeeps ==
    ASSUME IInv, DrainAdmitted, UNCHANGED evidenceVars PROVE IInv'
  <1> DEFINE q == Tail(sup.queued)
             s == [sup EXCEPT !.queued = q]
             e == Head(sup.queued)
  <1>1. PICK r \in {Snap(TRUE), Snap(FALSE)} : Reads(r) /\ Folds(Fold(s, e, r))
    BY DEF DrainAdmitted
  <1>2. /\ WorldInv /\ SupInv(sup) /\ Alive /\ sup.at = Idle /\ sup.bind = "drain"
        /\ sup.queued # <<>> /\ ~sup.stopped /\ UNCHANGED gateVars
    BY DEF IInv, DrainAdmitted
  <1>3. r \in Snapshot /\ spent' \in SpentRec
    BY <1>1, <1>2, ReadsTyped
  <1>4. WorldInv'
    BY <1>2, <1>3 DEF WorldInv, WorldTypeOK, DrainAdmitted, SpentRec
  <1>5. sup.queued \in Seq(Event)
    BY <1>2, SupPlaces DEF SupInv
  <1>6. q \in Seq(Event) /\ e \in Event
    BY <1>2, <1>5
  <1> HIDE DEF q, e
  <1>7. Handled(sup, s) /\ Alike(sup, s)
    BY <1>2, <1>6, QueuedHandled
  <1> HIDE DEF s
  <1>8. SupInv(s) /\ s.at = Idle /\ s.bind \notin {"no", "reading"} /\ (IsSettled(s) \/ ~Over(s))
    BY <1>2, <1>7 DEF Handled, Alike, Over, IsSettled
  <1>9. Handled(sup, Fold(s, e, r))
    BY <1>3, <1>6, <1>7, <1>8, FoldHandled, HandledAgain
  <1> QED
    BY <1>1, <1>2, <1>4, <1>9, HandlerStep

-----------------------------------------------------------------------------
(* The gate. *)

LEMMA SidecarTyped ==
    ASSUME GateTypeOK
    PROVE  /\ sidecar.life \in Lives /\ sidecar.detail \in Details
           /\ sidecar.sha \in Contents \cup {"none"} /\ sidecar.version \in Versions
           /\ sidecar.fence \in Versions \cup {NoFence} /\ sidecar.attempts \in 0..MaxRepairs
           /\ sidecar.version \in Nat /\ writes \in Nat /\ sidecar.attempts \in Nat
           /\ writes <= MaxWrites /\ sidecar.version <= MaxWrites
           /\ Versions \subseteq Nat
  <1>1. Versions \subseteq Nat /\ 0..MaxRepairs \subseteq Nat /\ 0..MaxWrites \subseteq Nat
    BY GateAssumption DEF Versions
  <1>2. /\ sidecar.life \in Lives /\ sidecar.detail \in Details
        /\ sidecar.sha \in Contents \cup {"none"} /\ sidecar.version \in Versions
        /\ sidecar.fence \in Versions \cup {NoFence} /\ sidecar.attempts \in 0..MaxRepairs
        /\ writes \in 0..MaxWrites
    BY DEF GateTypeOK
  <1>3. writes <= MaxWrites /\ sidecar.version <= MaxWrites
    BY <1>2, GateAssumption DEF Versions
  <1> QED
    BY <1>1, <1>2, <1>3

LEMMA CardTyped == Cardinality(Prompted) \in Nat /\ IsFiniteSet(Prompted)
  <1>1. IsFiniteSet(Versions)
    BY FS_Interval, GateAssumption DEF Versions
  <1>2. IsFiniteSet(Prompted)
    BY <1>1, FS_Subset DEF Prompted
  <1> QED
    BY <1>2, FS_CardinalityType

(* An artifact that was read waits for its acceptance. *)
LEMMA ReadArtifactKeeps ==
    ASSUME IInv, ReadArtifact, UNCHANGED evidenceVars PROVE IInv'
  <1>1. WorldInv' /\ SupInv(sup) /\ Alive /\ sup.at.pc = "validate" /\ UNCHANGED gateVars
    BY WorldUnchanged DEF IInv, ReadArtifact
  <1>2. CASE artifact \notin Contents
    <2>1. Folds(NotHandedOff(sup))
      BY <1>2 DEF ReadArtifact
    <2> QED
      BY <1>1, <2>1, NotHandedOffHandled, HandlerStep
  <1>3. CASE artifact \in Contents
    <2> DEFINE x == [sup.at EXCEPT !.pc = "accept", !.content = artifact]
               t == [sup EXCEPT !.at = x]
    <2>0. IsSup(sup)
      BY <1>1 DEF SupInv
    <2>1. sup.at \in AtRec
      BY <2>0, SupPlaces
    <2>2. x \in AtRec /\ x.pc = "accept" /\ x.content = artifact /\ x.outcome = sup.at.outcome
      BY <1>3, <2>1 DEF AtRec
    <2>3. Folds(t)
      <3>1. [sup EXCEPT !.at.pc = "accept", !.at.content = artifact] = t
        BY <2>0, SupDomain DEF Fields
      <3> QED
        BY <1>3, <3>1 DEF ReadArtifact
    <2> HIDE DEF x
    <2>4. IsSup(t)
      BY <2>0, <2>2 DEF IsSup, Fields
    <2>5. /\ t.state = sup.state /\ t.bind = sup.bind /\ t.published = sup.published
          /\ t.retired = sup.retired /\ t.stopped = sup.stopped /\ t.managed = sup.managed /\ t.at = x
          /\ t.moved = sup.moved /\ t.ends = sup.ends /\ t.gen = sup.gen
          /\ t.status = sup.status /\ t.run = sup.run /\ t.timer = sup.timer
          /\ t.held = sup.held /\ t.deliver = sup.deliver /\ t.due = sup.due /\ t.woken = sup.woken
          /\ t.late = sup.late /\ t.limited = sup.limited /\ t.recorded = sup.recorded
          /\ t.open = sup.open /\ t.cycles = sup.cycles
      BY <2>0, SupDomain DEF Fields
    <2> HIDE DEF t
    <2>6. /\ sup.managed /\ sup.at # Idle /\ sup.bind \notin {"no", "reading"}
          /\ (IsSettled(sup) => sup.stopped)
          /\ (sup.at.outcome = "none" => sup.status \in Terminal)
      BY <1>1, IdleTyped DEF SupInv, Tasks, Binding
    <2>7. Armed(t)
      BY <1>1, <2>5 DEF SupInv, Armed, Over, IsSettled
    <2>8. Reopened(t)
      BY <1>1, <2>5 DEF SupInv, Reopened, Over, IsSettled
    <2>9. Tasks(t)
      BY <1>3, <2>2, <2>5, <2>6 DEF Tasks, IsSettled
    <2>10. Binding(t)
      BY <1>1, <2>5, <2>6 DEF SupInv, Binding
    <2>11. ~t.stopped => Sent(t)
      BY <1>1, <2>5 DEF SupInv, Sent, Even, Waiting, Latched
    <2>12. SupInv(t)
      BY <1>1, <2>4, <2>5, <2>7, <2>8, <2>9, <2>10, <2>11 DEF SupInv
    <2>13. Cadent(sup, t) /\ Cycled(sup, t)
      BY <2>5 DEF Cadent, Cycled, RunLive, Over, IsSettled
    <2>14. /\ sup' = t /\ port' = [port EXCEPT ![Job] = sup'.state]
           /\ UNCHANGED regRest /\ UNCHANGED review /\ UNCHANGED daemon /\ UNCHANGED evidenceVars
      BY <2>3 DEF Folds, Becomes
    <2>15. Kept(sup, sup')
      BY <2>5, <2>12, <2>13, <2>14 DEF Kept
    <2>16. Alive' /\ JobInv' /\ Cadence'
      BY <1>1, <2>0, <2>13, <2>14, <2>15, JobKept, CadenceKept DEF IInv, Alive
    <2>17. DaemonInv' /\ TraceInv'
      BY <2>14, DaemonKept, TraceKept DEF IInv, evidenceVars
    <2>18. CycleInv'
      <3>1. UNCHANGED <<since, handoffs, sidecar>>
        BY <1>1 DEF gateVars
      <3>2. CycleInv
        BY DEF IInv
      <3> QED
        BY <2>2, <2>5, <2>14, <2>16, <3>1, <3>2 DEF CycleInv, AcceptedInItsCycle, Alive
    <2>19. GateInv'
      <3>1. UNCHANGED <<sidecar, artifact, faults, writes, since, handoffs, prompts>> /\ GateInv /\ GateTypeOK
        BY <1>1 DEF gateVars, IInv, GateInv
      <3>2. GateTypeOK'
        BY <1>1, <3>1, GateUnchanged
      <3>3. Expected = sidecar.sha /\ ToAccept = 0
        BY <1>1 DEF Expected, Reading, ToAccept
      <3>4. Expected' = artifact /\ ToRead' = 0
        BY <2>2, <2>5, <2>14, <3>1 DEF Expected, Reading, ToRead
      <3>5. ToAccept' = ToRead
        BY <1>3, <3>1, <3>3, <3>4 DEF ToAccept, ToRead
      <3>6. ToRead \in {0, 1} /\ sidecar.version \in Nat /\ writes \in Nat
        BY <3>1, SidecarTyped DEF ToRead
      <3>7. (sidecar.version + ToAccept + ToRead <= writes)'
        <4>1. sidecar.version + 0 + ToRead <= writes
          BY <3>1, <3>3 DEF GateInv
        <4> QED
          BY <3>1, <3>4, <3>5, <3>6, <4>1
      <3>8. Prompted' = Prompted /\ ToPrompt = 0 /\ ToPrompt' = 0
        BY <1>1, <2>2, <2>5, <2>14, <3>1 DEF Prompted, ToPrompt
      <3>9. sup'.at.pc # "prompt"
        BY <2>2, <2>5, <2>14
      <3> QED
        BY <3>1, <3>2, <3>7, <3>8, <3>9 DEF GateInv
    <2> QED
      BY <1>1, <2>12, <2>14, <2>16, <2>17, <2>18, <2>19 DEF IInv
  <1> QED
    BY <1>2, <1>3

SidecarRec ==
    [life: Lives, detail: Details, sha: Contents \cup {"none"}, version: Versions,
     fence: Versions \cup {NoFence}, attempts: 0..MaxRepairs]

LEMMA CommitsTyped ==
    ASSUME GateTypeOK, NEW new \in SidecarRec, NEW how, Commits(new, how)
    PROVE  /\ sidecar' \in SidecarRec /\ faults' \in 0..MaxFaults
           /\ sidecar' = new \/ (how = "lost" /\ sidecar' = sidecar)
           /\ how \in {"ok", "unsynced"} => sidecar' = new
  <1>1. sidecar \in SidecarRec /\ faults \in 0..MaxFaults
    BY DEF GateTypeOK, SidecarRec
  <1>2. faults' \in 0..MaxFaults
    BY <1>1, GateAssumption DEF Commits
  <1>3. sidecar' = IF how = "lost" THEN sidecar ELSE new
    BY DEF Commits
  <1>4. how \in {"ok", "lost", "unsynced"}
    BY DEF Commits
  <1> QED
    BY <1>1, <1>2, <1>3, <1>4

(* A write that keeps the artifact and the fence. *)
Annotated(new) ==
    /\ new \in SidecarRec
    /\ new.sha = sidecar.sha /\ new.version = sidecar.version
    /\ new.fence = sidecar.fence /\ new.attempts = sidecar.attempts

LEMMA OutcomeAnnotates ==
    ASSUME GateTypeOK, NEW life \in Lives, NEW detail \in Details
    PROVE  Annotated(WithOutcome(life, detail)) /\ Annotated(WithMark(detail)) /\ Annotated(sidecar)
           /\ WithOutcome(life, detail).life = life
  BY DEF GateTypeOK, Annotated, SidecarRec, WithOutcome, WithMark

(* A handler that annotates the sidecar. *)
LEMMA AnnotateStep ==
    ASSUME IInv, WorldInv', Alive, NEW t, Handled(sup, t), Folds(t), UNCHANGED evidenceVars,
           NEW new, Annotated(new), NEW how, Commits(new, how),
           UNCHANGED <<artifact, writes, since, handoffs, prompts>>
    PROVE  IInv'
  <1>1. /\ sup' = t /\ port' = [port EXCEPT ![Job] = sup'.state]
        /\ UNCHANGED regRest /\ UNCHANGED review /\ UNCHANGED daemon
    BY DEF Folds, Becomes
  <1>2. Alive' /\ IsSup(sup) /\ GateInv /\ GateTypeOK
    BY <1>1 DEF Alive, IInv, SupInv, GateInv
  <1>3. JobInv' /\ Cadence'
    BY <1>1, <1>2, JobKept, HandledKept, CadenceKept DEF IInv, Handled
  <1>4. /\ sidecar' \in SidecarRec /\ faults' \in 0..MaxFaults
        /\ sidecar' \in {new, sidecar}
    BY <1>2, CommitsTyped DEF Annotated
  <1>5. /\ sidecar'.sha = sidecar.sha /\ sidecar'.version = sidecar.version
        /\ sidecar'.fence = sidecar.fence /\ sidecar'.attempts = sidecar.attempts
    BY <1>4 DEF Annotated
  <1>6. GateTypeOK'
    BY <1>2, <1>4 DEF GateTypeOK, SidecarRec
  <1>7. GateInv'
    BY <1>1, <1>2, <1>5, <1>6, GateKept DEF Handled
  <1>8. CycleInv'
    BY <1>1, <1>5, CycleKept DEF IInv, Handled
  <1>9. DaemonInv' /\ TraceInv'
    BY <1>1, DaemonKept, TraceKept DEF IInv, evidenceVars
  <1> QED
    BY <1>1, <1>3, <1>7, <1>8, <1>9 DEF IInv, Handled

LEMMA LifeHandled ==
    ASSUME NEW s, SupInv(s), NEW l \in Lives
    PROVE  LET t == [s EXCEPT !.life = l] IN Handled(s, t) /\ Alike(s, t)
  <1>0. IsSup(s)
    BY DEF SupInv
  <1>1. IsSup([s EXCEPT !.life = l])
    BY <1>0 DEF IsSup, Fields
  <1>2. Alike(s, [s EXCEPT !.life = l])
    BY <1>0, SupDomain DEF Fields, Alike
  <1> QED
    BY <1>1, <1>2, AlikeHandled

LEMMA LimitMarkedKeeps ==
    ASSUME IInv, LimitMarked, UNCHANGED evidenceVars PROVE IInv'
  <1>1. PICK how \in WriteEnds :
         /\ Commits(WithMark("provider_limit"), how)
         /\ Folds(After(IF how = "ok" THEN [sup EXCEPT !.life = sidecar.life] ELSE sup))
    BY DEF LimitMarked
  <1>2. /\ WorldInv' /\ SupInv(sup) /\ Alive /\ sup.at.pc = "limit" /\ GateTypeOK
        /\ UNCHANGED <<artifact, writes, since, handoffs, prompts>>
    BY WorldUnchanged DEF IInv, GateInv, LimitMarked
  <1> DEFINE l == [sup EXCEPT !.life = sidecar.life]
             m == IF how = "ok" THEN l ELSE sup
  <1>3. Handled(sup, l) /\ l.at = sup.at
    BY <1>2, LifeHandled, SidecarTyped DEF Alike
  <1>4. Handled(sup, m) /\ SupInv(m) /\ m.at = sup.at
    BY <1>2, <1>3, HandledSelf DEF Handled
  <1> HIDE DEF m
  <1>5. Handled(sup, After(m))
    BY <1>2, <1>4, AfterHandled, HandledAgain
  <1>6. Annotated(WithMark("provider_limit"))
    BY <1>2, OutcomeAnnotates, SidecarTyped DEF Details
  <1> QED
    BY <1>1, <1>2, <1>5, <1>6, AnnotateStep DEF m

LEMMA ReopenedKeeps ==
    ASSUME IInv, ReopenedMarked, UNCHANGED evidenceVars PROVE IInv'
  <1>1. PICK how \in WriteEnds :
         /\ Commits(WithMark("cycle_reopened"), how)
         /\ Folds([sup EXCEPT !.marking = @ - 1, !.life = IF how = "ok" THEN sidecar.life ELSE @])
    BY DEF ReopenedMarked
  <1>2. /\ WorldInv' /\ SupInv(sup) /\ IsSup(sup) /\ Alive /\ sup.marking > 0 /\ GateTypeOK
        /\ UNCHANGED <<artifact, writes, since, handoffs, prompts>>
    BY WorldUnchanged DEF IInv, GateInv, ReopenedMarked, SupInv
  <1> DEFINE n == sup.marking - 1
             l == IF how = "ok" THEN sidecar.life ELSE sup.life
             t == [sup EXCEPT !.marking = n, !.life = l]
  <1>3. n \in Nat /\ l \in Lives
    BY <1>2, SupNumbers, SupPlaces, SidecarTyped
  <1>4. Folds(t)
    BY <1>1, <1>2, SupDomain DEF Fields
  <1> HIDE DEF n, l
  <1>5. IsSup(t)
    BY <1>2, <1>3 DEF IsSup, Fields
  <1>6. Alike(sup, t)
    BY <1>2, SupDomain DEF Fields, Alike
  <1>7. Handled(sup, t)
    BY <1>2, <1>5, <1>6, AlikeHandled
  <1>8. Annotated(WithMark("cycle_reopened"))
    BY <1>2, OutcomeAnnotates, SidecarTyped DEF Details
  <1> QED
    BY <1>1, <1>2, <1>4, <1>7, <1>8, AnnotateStep

(* The child writes its artifact. *)
LEMMA ChildArtifactKeeps ==
    ASSUME IInv, ChildArtifact, UNCHANGED evidenceVars PROVE IInv'
  <1>1. /\ UNCHANGED <<sup, review, daemon>> /\ UNCHANGED <<trace, store, evidence>>
        /\ UNCHANGED <<session, asked, rec, runner, answer, port, prep, retired, call, told, posted>>
        /\ UNCHANGED <<sidecar, faults, since, handoffs, prompts>>
        /\ writes < MaxWrites /\ writes' = writes + 1
        /\ artifact' \in Contents \cup {"invalid"}
    BY DEF ChildArtifact, ChildWrites, supVars, evidenceVars, regVars
  <1>2. GateInv /\ GateTypeOK /\ WorldInv'
    BY WorldUnchanged DEF IInv, GateInv, ChildArtifact
  <1>3. sidecar.version \in Nat /\ writes \in Nat /\ MaxWrites \in Nat
    BY <1>2, SidecarTyped, GateAssumption
  <1>4. writes' \in 0..MaxWrites
    BY <1>1, <1>3
  <1>5. GateTypeOK'
    BY <1>1, <1>2, <1>4 DEF GateTypeOK
  <1>6. /\ ToRead \in {0, 1} /\ ToRead' \in {0, 1} /\ ToAccept' = ToAccept /\ ToAccept \in {0, 1}
    BY <1>1 DEF ToRead, ToAccept, Expected, Reading
  <1>7. (sidecar.version + ToAccept + ToRead <= writes)'
    <2>1. sidecar.version + ToAccept + ToRead <= writes
      BY <1>2 DEF GateInv
    <2> QED
      BY <1>1, <1>3, <1>6, <2>1
  <1>8. Prompted' = Prompted /\ ToPrompt' = ToPrompt
    BY <1>1 DEF Prompted, ToPrompt
  <1>9. GateInv'
    BY <1>1, <1>2, <1>5, <1>7, <1>8 DEF GateInv
  <1>10. DaemonInv' /\ TraceInv'
    BY <1>1, DaemonKept, TraceKept DEF IInv
  <1>11. CycleInv' /\ Cadence' /\ SupInv(sup)'
    BY <1>1 DEF IInv, CycleInv, AcceptedInItsCycle, Alive, Cadence, CadenceNeverStarves
  <1>12. JobInv'
    BY <1>1 DEF IInv, JobInv, RegTypeOK, LiveChildHasRunningJob, Alive
  <1> QED
    BY <1>2, <1>9, <1>10, <1>11, <1>12 DEF IInv

(* A handler that is known to keep the gate. *)
LEMMA KeptStep ==
    ASSUME IInv, WorldInv', Alive, NEW t, Kept(sup, t), Folds(t), UNCHANGED evidenceVars,
           GateInv', CycleInv'
    PROVE  IInv'
  <1>1. /\ sup' = t /\ port' = [port EXCEPT ![Job] = sup'.state]
        /\ UNCHANGED regRest /\ UNCHANGED review /\ UNCHANGED daemon
    BY DEF Folds, Becomes
  <1>2. Alive' /\ IsSup(sup)
    BY <1>1 DEF Alive, IInv, SupInv
  <1>3. JobInv' /\ Cadence'
    BY <1>1, <1>2, JobKept, CadenceKept DEF IInv, Kept
  <1>4. DaemonInv' /\ TraceInv'
    BY <1>1, DaemonKept, TraceKept DEF IInv, evidenceVars
  <1> QED
    BY <1>1, <1>3, <1>4 DEF IInv, Kept

LEMMA NotHandedOffAt ==
    ASSUME NEW s, IsSup(s)
    PROVE  NotHandedOff(s).at.pc \notin {"accept", "prompt"} /\ NotHandedOff(s).at.content = "none"
  <1>1. s.at \in AtRec /\ DOMAIN s = Fields
    BY SupPlaces, SupDomain
  <1>2. [s.at EXCEPT !.pc = "record", !.content = "none"].pc = "record"
        /\ [s.at EXCEPT !.pc = "record", !.content = "none"].content = "none"
    BY <1>1 DEF AtRec
  <1>3. [s EXCEPT !.at.pc = "record", !.at.content = "none"].at
            = [s.at EXCEPT !.pc = "record", !.content = "none"]
    BY <1>1 DEF Fields, AtRec
  <1>4. [Idle EXCEPT !.pc = "repair"].pc = "repair" /\ [Idle EXCEPT !.pc = "repair"].content = "none"
    BY DEF Idle
  <1>5. [s EXCEPT !.at = Idle].at = Idle
        /\ [s EXCEPT !.at = [Idle EXCEPT !.pc = "repair"]].at = [Idle EXCEPT !.pc = "repair"]
    BY <1>1 DEF Fields
  <1> QED
    BY <1>2, <1>3, <1>4, <1>5, IdleTyped DEF NotHandedOff

(* The version of an accepted artifact is one of the writes. *)
LEMMA AcceptGate ==
    ASSUME GateInv, sup.at.pc = "accept", sup.at.content \in Contents, NEW how,
           Commits(Accepting(sup.at.content), how), UNCHANGED <<artifact, writes, prompts, handoffs>>,
           since' \in When, sup'.at.pc \notin {"accept", "prompt"}
    PROVE  GateInv'
  <1> DEFINE content == sup.at.content
  <1>1. GateTypeOK
    BY DEF GateInv
  <1>2. /\ sidecar.version \in Nat /\ writes \in Nat /\ writes <= MaxWrites /\ MaxWrites \in Nat
        /\ Versions \subseteq Nat /\ sidecar.version \in Versions
    BY <1>1, SidecarTyped, GateAssumption
  <1>3. sidecar.version + ToAccept + ToRead <= writes
    BY DEF GateInv
  <1>4. ToAccept = (IF content # sidecar.sha THEN 1 ELSE 0)
        /\ ToRead = (IF artifact \in Contents /\ artifact # content THEN 1 ELSE 0)
    BY DEF ToAccept, ToRead, Expected, Reading
  <1>5. ToAccept' = 0 /\ ToRead' = (IF artifact \in Contents /\ artifact # sidecar'.sha THEN 1 ELSE 0)
    BY DEF ToAccept, ToRead, Expected, Reading
  <1>6. Prompted' = Prompted /\ ToPrompt' = 0 /\ ToPrompt = 0
    BY DEF Prompted, ToPrompt
  <1>7. CASE sidecar' = sidecar
    <2>1. GateTypeOK'
      <3>1. sidecar \in SidecarRec
        BY <1>1 DEF GateTypeOK, SidecarRec
      <3>2. faults' \in 0..MaxFaults
        <4>1. faults \in 0..MaxFaults
          BY <1>1 DEF GateTypeOK
        <4> QED
          BY <4>1, GateAssumption DEF Commits
      <3> QED
        BY <1>1, <1>7, <3>2 DEF GateTypeOK
    <2>2. (sidecar.version + ToAccept + ToRead <= writes)'
      BY <1>2, <1>3, <1>4, <1>5, <1>7
    <2> QED
      BY <1>6, <1>7, <2>1, <2>2 DEF GateInv
  <1>8. CASE sidecar' # sidecar
    <2> DEFINE n == sidecar.version + 1
    <2>1. sidecar.sha # content
      BY <1>8 DEF Commits, Accepting
    <2>2. n <= writes /\ n \in Versions
      BY <1>2, <1>3, <1>4, <2>1 DEF Versions, ToRead
    <2>3. sidecar' = [sidecar EXCEPT !.sha = content, !.version = n]
      BY <1>8, <2>1 DEF Commits, Accepting
    <2> HIDE DEF n
    <2>4. [sidecar EXCEPT !.sha = content, !.version = n] \in SidecarRec
      BY <1>1, <2>2 DEF GateTypeOK, SidecarRec
    <2>5. /\ sidecar'.sha = content /\ sidecar'.version = n /\ sidecar'.fence = sidecar.fence
          /\ sidecar'.attempts = sidecar.attempts
      BY <1>1, <2>3 DEF GateTypeOK
    <2>6. faults' \in 0..MaxFaults
      <3>1. faults \in 0..MaxFaults
        BY <1>1 DEF GateTypeOK
      <3> QED
        BY <3>1, GateAssumption DEF Commits
    <2>7. GateTypeOK'
      BY <1>1, <2>3, <2>4, <2>6 DEF GateTypeOK, SidecarRec
    <2>8. (sidecar.version + ToAccept + ToRead <= writes)'
      BY <1>2, <1>3, <1>4, <1>5, <2>1, <2>5 DEF n
    <2>9. \A v \in Versions : prompts[v] > 0 => v <= n /\ v # n
      <3>1. \A v \in Versions : prompts[v] > 0 => v <= sidecar.version
        BY DEF GateInv
      <3>2. \A v \in Nat : v <= sidecar.version => v <= n /\ v # n
        BY <1>2 DEF n
      <3> QED
        BY <1>2, <3>1, <3>2
    <2> QED
      BY <1>6, <2>5, <2>7, <2>8, <2>9 DEF GateInv
  <1> QED
    BY <1>7, <1>8

(* An acceptance is of the cycle it is made in, or of the one it was made in. *)
LEMMA AcceptCycle ==
    ASSUME CycleInv, GateTypeOK, Alive, sup.at.content \in Contents, sup.managed = TRUE,
           daemon \in [pc: {"up", "flushing", "stopping", "down"}, boot: Nat],
           UNCHANGED <<daemon, handoffs>>, sup'.managed = sup.managed, NEW how,
           Commits(Accepting(sup.at.content), how),
           since' = IF how # "lost" /\ sidecar.sha # sup.at.content THEN Now ELSE since,
           \/ Cycled(sup, sup')
           \/ /\ how = "ok" /\ ~IsStale(sup.at.content, sup.open)
              /\ sup'.cycles = sup.cycles \/ sup'.open = TRUE,
           sup'.at.content = "none" \/ how = "ok"
    PROVE  CycleInv'
  <1> DEFINE content == sup.at.content
  <1>1. content # "none"
    BY GateAssumption
  <1>2. since'.boot <= daemon'.boot
    BY DEF CycleInv, Now
  <1>3. (sup.at.pc = "record" /\ sup.at.content # "none" => sidecar.sha # "none")'
    <2>1. how = "ok" => sidecar'.sha = content
      BY SidecarTyped DEF Commits, Accepting, GateTypeOK
    <2> QED
      BY <1>1, <2>1
  <1>4. AcceptedInItsCycle'
    BY DEF CycleInv, AcceptedInItsCycle
  <1>5. ASSUME Alive', since'.boot = daemon'.boot, sidecar'.sha # "none"
        PROVE  sup'.managed /\ (~sup'.open => since'.cycle = sup'.cycles)
    <2>1. CASE since' = Now /\ how # "lost" /\ sidecar.sha # content
      BY <2>1 DEF Cycled, Now
    <2>2. CASE since' = since /\ (how = "lost" \/ sidecar.sha = content)
      <3>1. sidecar' = sidecar
        BY <2>2 DEF Commits, Accepting
      <3>2. ~sup.open => since.cycle = sup.cycles
        BY <1>5, <2>2, <3>1 DEF CycleInv
      <3> QED
        BY <2>2, <3>2 DEF Cycled, IsStale
    <2> QED
      BY <2>1, <2>2
  <1> QED
    BY <1>2, <1>3, <1>4, <1>5 DEF CycleInv

LEMMA AcceptKeeps ==
    ASSUME IInv, AcceptArtifact, UNCHANGED evidenceVars PROVE IInv'
  <1> DEFINE content == sup.at.content
             stale == IsStale(content, sup.open)
             m == [sup EXCEPT !.life = sidecar.life, !.accepted = content]
             a == [m EXCEPT !.open = FALSE, !.at.pc = "record"]
             c == [m EXCEPT !.open = FALSE]
             t(how) == IF how # "ok" THEN NotHandedOff(sup)
                       ELSE IF stale THEN NotHandedOff(m)
                       ELSE IF sup.at.outcome # "none" \/ GateMatches(content, sup.status) THEN a
                       ELSE NotHandedOff(c)
  <1>1. PICK how \in WriteEnds :
         /\ Commits(Accepting(content), how)
         /\ since' = IF how # "lost" /\ sidecar.sha # content THEN Now ELSE since
         /\ Folds(t(how))
    BY DEF AcceptArtifact
  <1>2. /\ WorldInv' /\ SupInv(sup) /\ IsSup(sup) /\ Alive /\ sup.at.pc = "accept"
        /\ GateInv /\ GateTypeOK /\ CycleInv
        /\ UNCHANGED <<artifact, writes, handoffs, prompts>>
    BY WorldUnchanged DEF IInv, GateInv, AcceptArtifact, SupInv
  <1>3. content \in Contents /\ sup.managed = TRUE /\ sup.at \in AtRec
    BY <1>2, SupFlags, SupPlaces DEF SupInv, Tasks
  <1>4. /\ UNCHANGED daemon /\ sup' = t(how)
        /\ daemon \in [pc: {"up", "flushing", "stopping", "down"}, boot: Nat]
    BY <1>1 DEF Folds, Becomes, IInv, DaemonInv
  <1>5. since' \in When
    <2>1. sup.cycles \in Nat /\ daemon.boot \in Nat
      BY <1>2, <1>4, SupNumbers
    <2>2. Now \in When
      BY <2>1 DEF Now, When
    <2> QED
      BY <1>1, <1>2, <2>2 DEF GateTypeOK
  <1>6. Handled(sup, m) /\ Alike(sup, m) /\ IsSup(m) /\ SupInv(m)
    <2>1. sidecar.life \in Lives
      BY <1>2, SidecarTyped
    <2>2. \A l \in Lives, k \in Contents : IsSup([sup EXCEPT !.life = l, !.accepted = k])
      <3>1. IsSup(sup)
        BY <1>2
      <3> QED
        BY <3>1 DEF IsSup, Fields
    <2>4. IsSup(m)
      BY <1>3, <2>1, <2>2
    <2>3. Alike(sup, m)
      BY <1>2, SupDomain DEF Alike, Fields
    <2> QED
      BY <1>2, <2>3, <2>4, AlikeHandled DEF Handled
  <1>7. m.at = sup.at /\ m.cycles = sup.cycles /\ m.managed = sup.managed /\ m.open = sup.open
    BY <1>6 DEF Alike
  <1> HIDE DEF m
  <1>8. ASSUME NEW u, Kept(sup, u), Folds(u), u.at.pc \notin {"accept", "prompt"},
               \/ Cycled(sup, u)
               \/ /\ how = "ok" /\ ~stale
                  /\ u.cycles = sup.cycles \/ u.open = TRUE,
               u.at.content = "none" \/ how = "ok"
        PROVE  IInv'
    <2>1. sup' = u /\ u.managed = sup.managed
      BY <1>8 DEF Folds, Becomes, Kept
    <2>2. GateInv'
      BY <1>1, <1>2, <1>3, <1>5, <1>8, <2>1, AcceptGate
    <2>3. CycleInv'
      BY <1>1, <1>2, <1>3, <1>4, <1>8, <2>1, AcceptCycle
    <2> QED
      BY <1>2, <1>8, <2>2, <2>3, KeptStep
  <1>9. CASE how # "ok"
    BY <1>1, <1>2, <1>8, <1>9, NotHandedOffHandled, NotHandedOffAt, HandledKept DEF Handled
  <1>10. CASE how = "ok" /\ stale
    <2>1. Handled(sup, NotHandedOff(m))
      BY <1>2, <1>6, <1>7, NotHandedOffHandled, HandledAgain
    <2> QED
      BY <1>1, <1>6, <1>8, <1>10, <2>1, NotHandedOffAt, HandledKept DEF Handled
  <1>11. CASE how = "ok" /\ ~stale /\ (sup.at.outcome # "none" \/ GateMatches(content, sup.status))
    <2> DEFINE x == [m.at EXCEPT !.pc = "record"]
    <2>1. x \in AtRec /\ x.pc = "record" /\ x.outcome = m.at.outcome
      BY <1>3, <1>7 DEF AtRec
    <2>2. a = [m EXCEPT !.open = FALSE, !.at = x]
      BY <1>6, SupDomain DEF Fields
    <2> HIDE DEF x, a
    <2>9. m.at.pc = "accept" /\ SupInv(m)
      BY <1>2, <1>6, <1>7
    <2>10. LET u == [m EXCEPT !.open = FALSE, !.at = x] IN
           Kept(m, u) /\ u.open = FALSE /\ u.cycles = m.cycles /\ u.at = x
      BY <2>1, <2>9, CloseKept
    <2>3. Kept(m, a) /\ a.cycles = m.cycles /\ a.at = x
      BY <2>2, <2>10
    <2>4. Kept(sup, a)
      BY <1>6, <2>3, HandledKept, KeptAgain
    <2> QED
      BY <1>1, <1>7, <1>8, <1>11, <2>1, <2>3, <2>4
  <1>12. CASE how = "ok" /\ ~stale /\ ~(sup.at.outcome # "none" \/ GateMatches(content, sup.status))
    <2> DEFINE x == m.at
    <2>1. x \in AtRec /\ x = m.at /\ x.outcome = "none"
      BY <1>3, <1>7, <1>12
    <2>2. c = [m EXCEPT !.open = FALSE, !.at = x]
      BY <1>6, SupDomain DEF Fields
    <2> HIDE DEF x, c
    <2>9. m.at.pc = "accept" /\ SupInv(m)
      BY <1>2, <1>6, <1>7
    <2>10. LET u == [m EXCEPT !.open = FALSE, !.at = x] IN
           Kept(m, u) /\ u.open = FALSE /\ u.cycles = m.cycles /\ u.at = x
      BY <2>1, <2>9, CloseKept
    <2>3. Kept(m, c) /\ c.cycles = m.cycles /\ c.at = x
      BY <2>2, <2>10
    <2>4. Kept(sup, c) /\ SupInv(c) /\ IsSup(c) /\ c.managed = TRUE
      BY <1>3, <1>6, <1>7, <2>3, HandledKept, KeptAgain DEF Kept, SupInv
    <2>5. Handled(c, NotHandedOff(c))
      BY <1>2, <1>7, <2>1, <2>3, <2>4, NotHandedOffHandled
    <2>6. Kept(sup, NotHandedOff(c))
      BY <2>4, <2>5, HandledKept, KeptAgain
    <2>7. NotHandedOff(c).cycles = sup.cycles \/ NotHandedOff(c).open = TRUE
      BY <1>7, <2>3, <2>4, <2>5 DEF Handled, Cycled
    <2>8. NotHandedOff(c).at.pc \notin {"accept", "prompt"} /\ NotHandedOff(c).at.content = "none"
      BY <2>4, NotHandedOffAt
    <2> QED
      BY <1>1, <1>8, <1>12, <2>6, <2>7, <2>8
  <1> QED
    BY <1>9, <1>10, <1>11, <1>12

LEMMA RecordingAnnotates ==
    ASSUME GateTypeOK, NEW s PROVE Annotated(Recording(s)) /\ Recording(s).life \in Lives
  <1>1. \A life \in Lives, detail \in Details :
           Annotated(WithOutcome(life, detail)) /\ WithOutcome(life, detail).life \in Lives
    BY OutcomeAnnotates
  <1>2. {"handed_off", "failed", "cancelled"} \subseteq Lives /\ {"provider_limit", "none", "other"} \subseteq Details
    BY DEF Lives, Details
  <1>3. \E life \in {"handed_off", "failed", "cancelled"}, detail \in {"provider_limit", "none", "other"} :
           Recording(s) = WithOutcome(life, detail)
    BY DEF Recording
  <1> QED
    BY <1>1, <1>2, <1>3

(* A verdict is recorded in the cycle its acceptance is of. *)
LEMMA RecordKeeps ==
    ASSUME IInv, RecordOutcome, UNCHANGED evidenceVars PROVE IInv'
  <1> DEFINE m(how) == IF how = "ok" THEN [sup EXCEPT !.life = sidecar'.life] ELSE sup
             t(how) == IF sup.at.outcome # "none" THEN Settled(m(how), sup.at.outcome)
                       ELSE IF how = "ok" THEN Retire([m(how) EXCEPT !.at = Idle])
                       ELSE [sup EXCEPT !.at = Idle]
  <1>1. PICK how \in WriteEnds :
         /\ Commits(Recording(sup), how)
         /\ handoffs' = IF how # "lost" /\ sup.at.content # "none"
                        THEN handoffs \cup {[accepted |-> since, recorded |-> Now]} ELSE handoffs
         /\ Folds(t(how))
    BY DEF RecordOutcome
  <1>2. /\ WorldInv' /\ SupInv(sup) /\ IsSup(sup) /\ Alive /\ sup.at.pc = "record"
        /\ GateInv /\ GateTypeOK /\ CycleInv
        /\ UNCHANGED <<artifact, writes, since, prompts>>
    BY WorldUnchanged DEF IInv, GateInv, RecordOutcome, SupInv
  <1>3. /\ UNCHANGED daemon /\ sup' = t(how)
        /\ daemon \in [pc: {"up", "flushing", "stopping", "down"}, boot: Nat]
    BY <1>1 DEF Folds, Becomes, IInv, DaemonInv
  <1>4. /\ sidecar' \in SidecarRec /\ faults' \in 0..MaxFaults
        /\ sidecar'.sha = sidecar.sha /\ sidecar'.version = sidecar.version
        /\ sidecar'.fence = sidecar.fence /\ sidecar'.attempts = sidecar.attempts
        /\ sidecar'.life \in Lives
    <2>1. Annotated(Recording(sup))
      BY <1>2, RecordingAnnotates
    <2>2. /\ sidecar' \in SidecarRec /\ faults' \in 0..MaxFaults
          /\ sidecar' \in {Recording(sup), sidecar}
      BY <1>1, <1>2, <2>1, CommitsTyped DEF Annotated
    <2> QED
      BY <2>1, <2>2 DEF Annotated, SidecarRec
  <1>5. Handled(sup, t(how)) /\ t(how).at = Idle
    <2> DEFINE u == m(how)
    <2>1. Handled(sup, u) /\ Alike(sup, u) /\ SupInv(u) /\ IsSup(u) /\ DOMAIN u = Fields
      <3>1. CASE how = "ok"
        <4>1. Handled(sup, [sup EXCEPT !.life = sidecar'.life]) /\ Alike(sup, [sup EXCEPT !.life = sidecar'.life])
          BY <1>2, <1>4, LifeHandled
        <4> QED
          BY <3>1, <4>1, SupDomain DEF Handled, SupInv
      <3>2. CASE how # "ok"
        BY <1>2, <3>2, HandledSelf, SupDomain DEF Alike
      <3> QED
        BY <3>1, <3>2
    <2>2. u.at = sup.at /\ u.status = sup.status /\ u.managed = sup.managed /\ u.bind = sup.bind
      BY <2>1 DEF Alike
    <2>3. how # "ok" => u = sup
      OBVIOUS
    <2>4. sup.at.outcome \in Outcomes
      BY <1>2, SupPlaces DEF AtRec
    <2>5. t(how) = IF sup.at.outcome # "none" THEN Settled(u, sup.at.outcome)
                   ELSE IF how = "ok" THEN Retire([u EXCEPT !.at = Idle])
                   ELSE [u EXCEPT !.at = Idle]
      BY <2>3
    <2> HIDE DEF u, t
    <2>6. CASE sup.at.outcome # "none"
      <3>1. Settled(u, sup.at.outcome).at = Idle
        BY <2>1 DEF Settled, Fields
      <3> QED
        BY <2>1, <2>4, <2>5, <2>6, <3>1, SettledHandled, HandledAgain
    <2>7. CASE sup.at.outcome = "none"
      <3> DEFINE w == [u EXCEPT !.at = Idle]
      <3>1. Handled(u, w) /\ w.at = Idle
        BY <2>1, <2>2, <2>7, FreeHandled
      <3>2. Handled(sup, w) /\ SupInv(w) /\ IsSup(w)
        BY <2>1, <3>1, HandledAgain DEF Handled, SupInv
      <3>3. CASE how # "ok"
        BY <2>5, <2>7, <3>1, <3>2, <3>3
      <3>4. CASE how = "ok"
        <4>1. sup.managed = TRUE /\ sup.status # "working" /\ sup.bind \notin {"no", "reading"}
          BY <1>2, <2>7, SupFlags, IdleTyped DEF SupInv, Tasks, Binding, Terminal
        <4>2. w.managed = u.managed /\ w.status = u.status /\ w.bind = u.bind
          BY <2>1 DEF Fields
        <4> HIDE DEF w
        <4>3. Handled(w, Retire(w))
          BY <2>2, <3>2, <4>1, <4>2, RetireHandled
        <4>4. Retire(w).at = w.at
          BY <3>2, SupDomain DEF Retire, Fields
        <4> QED
          BY <2>5, <2>7, <3>1, <3>2, <3>4, <4>3, <4>4, HandledAgain DEF w
      <3> QED
        BY <3>3, <3>4
    <2> QED
      BY <2>6, <2>7
  <1> HIDE DEF t
  <1>6. [accepted |-> since, recorded |-> Now] \in [accepted: When, recorded: When]
    BY <1>2, <1>3, SupNumbers DEF GateTypeOK, Now, When
  <1>7. GateTypeOK'
    BY <1>1, <1>2, <1>4, <1>6 DEF GateTypeOK, SidecarRec
  <1>8. GateInv'
    BY <1>2, <1>3, <1>4, <1>5, <1>7, IdleTyped, GateKept
  <1>9. AcceptedInItsCycle'
    <2>1. sup.at.content # "none" /\ since.boot = daemon.boot => since.cycle = sup.cycles
      <3>1. sup.at.content # "none" => ~sup.open /\ sidecar.sha # "none"
        BY <1>2 DEF SupInv, Tasks, CycleInv
      <3> QED
        BY <1>2, <3>1 DEF CycleInv
    <2>2. AcceptedInItsCycle
      BY <1>2 DEF CycleInv
    <2> QED
      BY <1>1, <2>1, <2>2 DEF AcceptedInItsCycle, Now
  <1>10. CycleInv'
    <2>1. sup'.managed = sup.managed /\ Cycled(sup, sup') /\ sup'.at = Idle
      BY <1>3, <1>5 DEF Handled
    <2>2. sup'.at.content = "none"
      BY <2>1, IdleTyped
    <2> QED
      BY <1>2, <1>3, <1>4, <1>9, <2>1, <2>2 DEF CycleInv, Cycled, Alive
  <1> QED
    BY <1>1, <1>2, <1>5, <1>8, <1>10, HandledKept, KeptStep

(* A fence is of a version that was never prompted for. *)
LEMMA FenceGate ==
    ASSUME GateInv, sup.at.pc = "repair", NEW how, Commits(WithFence, how),
           UNCHANGED <<artifact, writes, since, handoffs, prompts>>,
           \/ sup'.at.pc \notin {"accept", "prompt"}
           \/ sup'.at.pc = "prompt" /\ sup'.at.n = sidecar.version /\ how = "ok" /\ Fenceable
    PROVE  GateInv' /\ sidecar'.sha = sidecar.sha
  <1>1. GateTypeOK /\ sidecar \in SidecarRec
    BY DEF GateInv, GateTypeOK, SidecarRec
  <1>2. /\ sidecar.version \in Nat /\ writes \in Nat /\ MaxWrites \in Nat /\ MaxRepairs \in Nat
        /\ sidecar.attempts \in Nat /\ Versions \subseteq Nat /\ sidecar.version \in Versions
    BY <1>1, SidecarTyped, GateAssumption
  <1>3. faults' \in 0..MaxFaults
    <2>1. faults \in 0..MaxFaults
      BY <1>1 DEF GateTypeOK
    <2> QED
      BY <2>1, GateAssumption DEF Commits
  <1>4. CASE sidecar' = sidecar /\ sup'.at.pc \notin {"accept", "prompt"}
    <2>1. GateTypeOK'
      BY <1>1, <1>3, <1>4 DEF GateTypeOK
    <2> QED
      BY <1>4, <2>1, GateKept
  <1>5. CASE Fenceable /\ how # "lost"
    <2> DEFINE k == sidecar.attempts + 1
    <2>1. k \in 0..MaxRepairs
      BY <1>2, <1>5 DEF Fenceable
    <2>2. sidecar' = [sidecar EXCEPT !.attempts = k, !.fence = sidecar.version]
      BY <1>5 DEF Commits, WithFence
    <2> HIDE DEF k
    <2>3. sidecar' \in SidecarRec
      BY <1>1, <1>2, <2>1, <2>2 DEF SidecarRec
    <2>4. /\ sidecar'.sha = sidecar.sha /\ sidecar'.version = sidecar.version
          /\ sidecar'.fence = sidecar.version /\ sidecar'.attempts = k
      BY <1>1, <2>2 DEF SidecarRec
    <2>5. GateTypeOK'
      BY <1>1, <1>3, <2>3 DEF GateTypeOK, SidecarRec
    <2>6. prompts[sidecar.version] = 0
      <3>1. prompts[sidecar.version] \in Nat
        BY <1>1, <1>2 DEF GateTypeOK
      <3>2. ~(prompts[sidecar.version] > 0)
        BY <1>2, <1>5 DEF GateInv, Fenceable
      <3> QED
        BY <3>1, <3>2
    <2>7. ToAccept' = 0 /\ ToRead' = ToRead /\ ToAccept = 0 /\ ToRead \in {0, 1}
      BY <2>4 DEF ToAccept, ToRead, Expected, Reading
    <2>8. (sidecar.version + ToAccept + ToRead <= writes)'
      BY <1>2, <2>4, <2>7 DEF GateInv
    <2>9. Prompted' = Prompted /\ ToPrompt = 0 /\ ToPrompt' \in {0, 1}
      BY DEF Prompted, ToPrompt
    <2>10. (Cardinality(Prompted) + ToPrompt <= sidecar.attempts)'
      <3>1. Cardinality(Prompted) <= sidecar.attempts /\ Cardinality(Prompted) \in Nat
        BY <2>9, CardTyped DEF GateInv
      <3> QED
        BY <1>2, <2>4, <2>9, <3>1 DEF k
    <2>11. \A v \in Versions :
             prompts[v] <= 1 /\ (prompts[v] > 0 => v <= sidecar.version)
      BY DEF GateInv
    <2> QED
      BY <2>4, <2>5, <2>6, <2>8, <2>10, <2>11 DEF GateInv
  <1> QED
    BY <1>4, <1>5 DEF Commits, WithFence

LEMMA BeginRepairKeeps ==
    ASSUME IInv, BeginRepair, UNCHANGED evidenceVars PROVE IInv'
  <1> DEFINE m == [sup EXCEPT !.life = sidecar.life]
             p == [Idle EXCEPT !.pc = "prompt", !.n = sidecar.version]
             t(how) == IF how # "ok" THEN [sup EXCEPT !.at = Idle]
                       ELSE [sup EXCEPT !.life = sidecar.life, !.at = IF Fenceable THEN p ELSE Idle]
  <1>1. PICK how \in WriteEnds : Commits(WithFence, how) /\ Folds(t(how))
    BY DEF BeginRepair
  <1>2. /\ WorldInv' /\ SupInv(sup) /\ IsSup(sup) /\ Alive /\ sup.at.pc = "repair"
        /\ GateInv /\ GateTypeOK /\ CycleInv
        /\ UNCHANGED <<artifact, writes, since, handoffs, prompts>>
    BY WorldUnchanged DEF IInv, GateInv, BeginRepair, SupInv
  <1>3. UNCHANGED daemon /\ sup' = t(how)
    BY <1>1 DEF Folds, Becomes
  <1>4. Handled(sup, m) /\ Alike(sup, m) /\ SupInv(m) /\ m.at = sup.at
    BY <1>2, LifeHandled, SidecarTyped DEF Handled, Alike
  <1>5. Handled(sup, [sup EXCEPT !.at = Idle]) /\ [sup EXCEPT !.at = Idle].at = Idle
    BY <1>2, FreeHandled
  <1>6. Handled(sup, [m EXCEPT !.at = Idle]) /\ [m EXCEPT !.at = Idle].at = Idle
    BY <1>2, <1>4, FreeHandled, HandledAgain
  <1>7. LET u == [m EXCEPT !.at = p] IN
        Kept(sup, u) /\ u.open = sup.open /\ u.cycles = sup.cycles /\ u.managed = sup.managed
        /\ u.at.pc = "prompt" /\ u.at.n = sidecar.version /\ u.at.content = "none"
    <2> DEFINE u == [m EXCEPT !.at = p]
    <2>0. SupInv(m) /\ m.at.pc = "repair" /\ sidecar.version \in Nat
      BY <1>2, <1>4, SidecarTyped
    <2>2. u.at = p
      BY <1>4, SupDomain DEF SupInv, Fields
    <2>3. p.content = "none"
      BY DEF Idle
    <2>4. m.open = sup.open /\ m.cycles = sup.cycles /\ m.managed = sup.managed /\ Kept(sup, m)
      BY <1>4, HandledKept DEF Alike
    <2> HIDE DEF m
    <2>1. Kept(m, u) /\ u.open = m.open /\ u.cycles = m.cycles /\ u.at.pc = "prompt" /\ u.at.n = sidecar.version
      BY <2>0, PromptKept
    <2>5. Kept(sup, u) /\ u.managed = m.managed
      BY <2>1, <2>4, KeptAgain DEF Kept
    <2> QED
      BY <2>1, <2>2, <2>3, <2>4, <2>5
  <1>8. /\ how = "ok" => t(how) = [m EXCEPT !.at = IF Fenceable THEN p ELSE Idle]
        /\ how # "ok" => t(how) = [sup EXCEPT !.at = Idle]
    BY <1>2, SupDomain DEF Fields
  <1>9. ASSUME NEW u, Folds(u), Kept(sup, u), Cycled(sup, u), u.managed = sup.managed, u.at.content = "none",
               \/ u.at.pc \notin {"accept", "prompt"}
               \/ u.at.pc = "prompt" /\ u.at.n = sidecar.version /\ how = "ok" /\ Fenceable
        PROVE  IInv'
    <2>1. sup' = u
      BY <1>9 DEF Folds, Becomes
    <2>2. GateInv' /\ sidecar'.sha = sidecar.sha
      BY <1>1, <1>2, <1>9, <2>1, FenceGate
    <2>3. CycleInv'
      BY <1>2, <1>3, <1>9, <2>1, <2>2, CycleKept
    <2> QED
      BY <1>2, <1>9, <2>2, <2>3, KeptStep
  <1> HIDE DEF m, p, t
  <1>10. CASE how # "ok"
    BY <1>1, <1>5, <1>8, <1>9, <1>10, IdleTyped, HandledKept DEF Handled
  <1>11. CASE how = "ok" /\ ~Fenceable
    BY <1>1, <1>6, <1>8, <1>9, <1>11, IdleTyped, HandledKept DEF Handled
  <1>12. CASE how = "ok" /\ Fenceable
    BY <1>1, <1>7, <1>8, <1>9, <1>12 DEF Cycled
  <1> QED
    BY <1>10, <1>11, <1>12

(* The prompt a fence was written for. *)
LEMMA SendRepairKeeps ==
    ASSUME IInv, SendRepair, UNCHANGED evidenceVars PROVE IInv'
  <1>1. /\ WorldInv' /\ SupInv(sup) /\ Alive /\ sup.at.pc = "prompt"
        /\ GateInv /\ GateTypeOK /\ CycleInv
        /\ UNCHANGED <<sidecar, artifact, faults, writes, since, handoffs>>
        /\ prompts' = [prompts EXCEPT ![sup.at.n] = @ + 1]
        /\ Folds([sup EXCEPT !.at = Idle])
    BY WorldUnchanged DEF IInv, GateInv, SendRepair
  <1> DEFINE t == [sup EXCEPT !.at = Idle]
             n == sidecar.version
  <1>2. Handled(sup, t) /\ t.at = Idle
    BY <1>1, FreeHandled
  <1>3. UNCHANGED daemon /\ sup' = t /\ sup'.at.pc = "none" /\ sup'.at.content = "none"
    BY <1>1, <1>2, IdleTyped DEF Folds, Becomes
  <1>4. /\ sup.at.n = n /\ sidecar.fence = n /\ prompts[n] = 0 /\ n \in Versions /\ n \in Nat
        /\ Versions \subseteq Nat /\ prompts \in [Versions -> Nat] /\ writes \in Nat /\ sidecar.attempts \in Nat
    BY <1>1, SidecarTyped DEF GateInv, GateTypeOK
  <1> HIDE DEF n, t
  <1>5. prompts' = [prompts EXCEPT ![n] = 1]
    BY <1>1, <1>4
  <1>6. /\ prompts' \in [Versions -> Nat] /\ prompts'[n] = 1
        /\ \A v \in Versions : v # n => prompts'[v] = prompts[v]
    BY <1>4, <1>5
  <1>7. GateTypeOK'
    BY <1>1, <1>6 DEF GateTypeOK
  <1>8. ToAccept' = 0 /\ ToRead' = ToRead /\ ToAccept = 0
    BY <1>1, <1>3 DEF ToAccept, ToRead, Expected, Reading
  <1>9. (sidecar.version + ToAccept + ToRead <= writes)'
    BY <1>1, <1>8 DEF GateInv
  <1>10. Prompted' = Prompted \cup {n} /\ n \notin Prompted
    <2>1. \A v \in Versions : prompts'[v] > 0 <=> prompts[v] > 0 \/ v = n
      BY <1>4, <1>6
    <2>2. Prompted' = {v \in Versions : prompts'[v] > 0}
      BY DEF Prompted
    <2>3. n \notin Prompted
      BY <1>4 DEF Prompted
    <2> QED
      BY <1>4, <2>1, <2>2, <2>3 DEF Prompted
  <1>11. (Cardinality(Prompted) + ToPrompt <= sidecar.attempts)'
    <2>1. Cardinality(Prompted') = Cardinality(Prompted) + 1 /\ Cardinality(Prompted) \in Nat
      BY <1>10, CardTyped, FS_AddElement
    <2>2. ToPrompt = 1 /\ ToPrompt' = 0
      BY <1>1, <1>3 DEF ToPrompt
    <2>3. Cardinality(Prompted) + ToPrompt <= sidecar.attempts
      BY <1>1 DEF GateInv
    <2> QED
      BY <1>1, <1>4, <2>1, <2>2, <2>3
  <1>12. \A v \in Versions :
           prompts'[v] <= 1 /\ (prompts'[v] > 0 => v <= n /\ (v = n => sidecar.fence = v))
    <2>1. \A v \in Versions :
            prompts[v] <= 1 /\ (prompts[v] > 0 => v <= n)
      BY <1>1 DEF GateInv, n
    <2> QED
      BY <1>4, <1>6, <2>1
  <1>13. GateInv'
    BY <1>1, <1>3, <1>7, <1>9, <1>11, <1>12 DEF GateInv, n
  <1>14. CycleInv'
    BY <1>1, <1>2, <1>3, CycleKept DEF Handled
  <1> QED
    BY <1>1, <1>2, <1>13, <1>14, HandledKept, KeptStep DEF t

LEMMA RegUnfolds ==
    ASSUME RegTypeOK
    PROVE  /\ Job \in Sups /\ Job \in Jobs /\ Jobs = {Job}
           /\ rec[Job] \in JobRecord /\ prep[Job] \in [how: Bindings \cup {"none"}, stage: Stages]
           /\ rec[Job].stage \in Stages
  <1>1. Job \in Sups /\ Job \in Jobs /\ Jobs = {Job}
    BY SupervisorAssumption DEF Jobs
  <1> QED
    BY <1>1 DEF RegTypeOK, JobRecord

LEMMA RegSame ==
    ASSUME JobInv, Alive', UNCHANGED regVars, sup'.state = sup.state PROVE JobInv'
  <1>1. UNCHANGED <<session, asked, rec, runner, answer, port, prep, retired, call, told, posted>>
    BY DEF regVars
  <1>2. RegTypeOK' /\ LiveChildHasRunningJob'
    BY <1>1 DEF JobInv, RegTypeOK, LiveChildHasRunningJob
  <1> QED
    BY <1>1, <1>2 DEF JobInv

LEMMA PrepareJob ==
    ASSUME JobInv, Alive', PrepareBinding(Job, "exact"), sup'.state = sup.state PROVE JobInv'
  <1>1. /\ UNCHANGED <<session, asked, rec, runner, answer, port, retired, call, told, posted>>
        /\ prep' = [prep EXCEPT ![Job] = [how |-> "exact", stage |-> rec[Job].stage]]
        /\ rec[Job].listed
    BY DEF PrepareBinding, Preparable
  <1>2. RegTypeOK
    BY DEF JobInv
  <1>3. [how |-> "exact", stage |-> rec[Job].stage] \in [how: Bindings \cup {"none"}, stage: Stages]
    BY <1>2, RegUnfolds DEF Bindings
  <1>4. prep' \in [Sups -> [how: Bindings \cup {"none"}, stage: Stages]] /\ prep'[Job].how = "exact"
    BY <1>1, <1>2, <1>3, RegUnfolds DEF RegTypeOK
  <1>5. RegTypeOK' /\ LiveChildHasRunningJob'
    BY <1>1, <1>2, <1>4 DEF JobInv, RegTypeOK, LiveChildHasRunningJob
  <1> QED
    BY <1>1, <1>4, <1>5 DEF JobInv

LEMMA RollbackJob ==
    ASSUME JobInv, Alive', RollbackBinding(Job), sup'.state = sup.state PROVE JobInv'
  <1>1. /\ UNCHANGED <<session, asked, rec, runner, answer, port, retired, call, told, posted>>
        /\ prep' = [prep EXCEPT ![Job] = NoPrep]
    BY DEF RollbackBinding
  <1>2. RegTypeOK
    BY DEF JobInv
  <1>3. NoPrep \in [how: Bindings \cup {"none"}, stage: Stages]
    BY DEF NoPrep, Bindings, Stages
  <1>4. prep' \in [Sups -> [how: Bindings \cup {"none"}, stage: Stages]] /\ prep'[Job] = NoPrep
    BY <1>1, <1>2, <1>3, RegUnfolds DEF RegTypeOK
  <1>5. RegTypeOK' /\ LiveChildHasRunningJob'
    BY <1>1, <1>2, <1>4 DEF JobInv, RegTypeOK, LiveChildHasRunningJob
  <1> QED
    BY <1>1, <1>4, <1>5 DEF JobInv

LEMMA CommitJob ==
    ASSUME JobInv, Alive', CommitBinding(Job), ~IsSettled(sup), sup'.state = "active" PROVE JobInv'
  <1>1. /\ UNCHANGED <<session, asked, runner, answer, retired, call, told, posted>>
        /\ prep' = [prep EXCEPT ![Job] = NoPrep] /\ prep[Job] # NoPrep
        /\ rec[Job].gate /\ rec[Job].phase = "running"
    BY DEF CommitBinding, Committable
  <1>2. RegTypeOK /\ rec[Job].listed /\ prep[Job].how = "exact" /\ answer[Job] = "none"
    BY <1>1 DEF JobInv, IsSettled
  <1>3. rec' = [rec EXCEPT ![Job].stage = "exact"] /\ port' = [port EXCEPT ![Job] = "active"]
    BY <1>2 DEF CommitBinding
  <1>4. NoPrep \in [how: Bindings \cup {"none"}, stage: Stages] /\ "exact" \in Stages
    BY DEF NoPrep, Bindings, Stages
  <1>5. prep' \in [Sups -> [how: Bindings \cup {"none"}, stage: Stages]] /\ prep'[Job] = NoPrep
    BY <1>1, <1>2, <1>4, RegUnfolds DEF RegTypeOK
  <1>6. port' \in [Sups -> {"none", "starting", "provisional", "active", "settled"}] /\ port'[Job] = "active"
    BY <1>2, <1>3, RegUnfolds DEF RegTypeOK
  <1> DEFINE r == [rec[Job] EXCEPT !.stage = "exact"]
  <1>7. r \in JobRecord /\ r.gate = rec[Job].gate /\ r.phase = rec[Job].phase /\ r.listed = rec[Job].listed
    BY <1>2, <1>4, RegUnfolds DEF JobRecord
  <1>8. rec' = [rec EXCEPT ![Job] = r]
    BY <1>3
  <1> HIDE DEF r
  <1>9. rec' \in [Jobs -> JobRecord] /\ rec'[Job] = r
    BY <1>2, <1>7, <1>8, RegUnfolds DEF RegTypeOK
  <1>10. RegTypeOK'
    BY <1>1, <1>2, <1>5, <1>6, <1>9 DEF RegTypeOK
  <1>11. LiveChildHasRunningJob'
    BY <1>1, <1>2, <1>7, <1>9 DEF LiveChildHasRunningJob
  <1>12. \A c \in Callers : call'[c].pc # "idle" => call'[c].job = Job /\ rec'[Job].phase # "running"
    BY <1>1, <1>7, <1>9 DEF JobInv
  <1> QED
    BY <1>1, <1>2, <1>5, <1>6, <1>10, <1>11, <1>12 DEF JobInv

(* A step that leaves the review and the daemon alone. *)
LEMMA PartsStep ==
    ASSUME IInv, WorldInv', UNCHANGED <<review, daemon>>, UNCHANGED evidenceVars,
           SupInv(sup'), JobInv', GateInv', CycleInv', Cadence'
    PROVE  IInv'
  <1>1. DaemonInv' /\ TraceInv'
    BY DaemonKept, TraceKept DEF IInv, evidenceVars
  <1> QED
    BY <1>1 DEF IInv

(* The gate's binding has not been asked for, and the job is reserved. *)
LEMMA UnboundFresh ==
    ASSUME NEW s, SupInv(s), s.bind = "no", s.state = "starting"
    PROVE  Fresh(s)
  BY SupFlags DEF SupInv, Binding, Armed, Fresh

LEMMA ReadingFresh ==
    ASSUME NEW s, Fresh(s), s.bind = "no", NEW p \in 0..MaxPanes
    PROVE  LET t == [s EXCEPT !.bind = "reading", !.pane = p] IN
           /\ Fresh(t) /\ t.managed = s.managed /\ t.open = s.open /\ t.cycles = s.cycles
           /\ t.bind = "reading"
           /\ \A state : [Mirrored(s, state) EXCEPT !.bind = "reading", !.pane = p] = Mirrored(t, state)
  <1> DEFINE t == [s EXCEPT !.bind = "reading", !.pane = p]
  <1>1. IsSup(s) /\ DOMAIN s = Fields
    BY SupDomain DEF Fresh, SupInv
  <1>3. IsSup(t)
    <2>1. IsSup(s)
      BY <1>1
    <2> QED
      BY <2>1 DEF IsSup, Fields
  <1>4. /\ t.state = s.state /\ t.bind = "reading" /\ t.published = s.published
        /\ t.retired = s.retired /\ t.stopped = s.stopped /\ t.managed = s.managed /\ t.at = s.at
        /\ t.moved = s.moved /\ t.ends = s.ends /\ t.gen = s.gen
        /\ t.status = s.status /\ t.run = s.run /\ t.timer = s.timer
        /\ t.held = s.held /\ t.deliver = s.deliver /\ t.due = s.due /\ t.woken = s.woken
        /\ t.late = s.late /\ t.limited = s.limited /\ t.recorded = s.recorded
        /\ t.open = s.open /\ t.cycles = s.cycles
    BY <1>1 DEF Fields
  <1>5. \A state : [Mirrored(s, state) EXCEPT !.bind = "reading", !.pane = p] = Mirrored(t, state)
    <2> TAKE state
    <2> DEFINE a == [s EXCEPT !.managed = TRUE, !.life = state.life, !.accepted = state.sha,
                              !.open = state.sha = "none"]
               b == [a EXCEPT !.bind = "reading", !.pane = p]
               c == [t EXCEPT !.managed = TRUE, !.life = state.life, !.accepted = state.sha,
                              !.open = state.sha = "none"]
    <2>1. b = [i \in Fields |-> b[i]] /\ c = [i \in Fields |-> c[i]]
      BY <1>1
    <2>2. \A i \in Fields : b[i] = c[i]
      <3> TAKE i \in Fields
      <3>1. CASE i \in {"bind", "pane", "managed", "life", "accepted", "open"}
        BY <1>1, <3>1 DEF Fields
      <3>2. CASE i \notin {"bind", "pane", "managed", "life", "accepted", "open"}
        BY <1>1, <3>2
      <3> QED
        BY <3>1, <3>2
    <2> HIDE DEF b, c
    <2>3. b = c
      BY <2>1, <2>2
    <2> QED
      BY <2>3 DEF Mirrored, b, c
  <1> HIDE DEF t
  <1>6. Armed(t) /\ Reopened(t) /\ (~t.stopped => Sent(t))
    BY <1>4 DEF Fresh, SupInv, Armed, Reopened, Over, IsSettled, Sent, Even, Waiting, Latched
  <1>7. Tasks(t) /\ Binding(t)
    BY <1>4 DEF Fresh, SupInv, Tasks, Binding, IsSettled
  <1>8. SupInv(t)
    BY <1>3, <1>4, <1>6, <1>7 DEF SupInv, Fresh
  <1>9. Fresh(t)
    BY <1>4, <1>8 DEF Fresh
  <1> QED
    BY <1>4, <1>5, <1>9 DEF t

LEMMA FailedHandled ==
    ASSUME NEW s, SupInv(s), s.bind # "done"
    PROVE  LET t == [s EXCEPT !.bind = "failed"] IN
           Handled(s, t) /\ t.state = s.state /\ t.at = s.at
  <1> DEFINE t == [s EXCEPT !.bind = "failed"]
  <1>1. IsSup(s) /\ DOMAIN s = Fields
    BY SupDomain DEF SupInv
  <1>3. IsSup(t)
    <2>1. IsSup(s)
      BY <1>1
    <2> QED
      BY <2>1 DEF IsSup, Fields
  <1>4. /\ t.state = s.state /\ t.bind = "failed" /\ t.published = s.published
        /\ t.retired = s.retired /\ t.stopped = s.stopped /\ t.managed = s.managed /\ t.at = s.at
        /\ t.moved = s.moved /\ t.ends = s.ends /\ t.gen = s.gen
        /\ t.status = s.status /\ t.run = s.run /\ t.timer = s.timer
        /\ t.held = s.held /\ t.deliver = s.deliver /\ t.due = s.due /\ t.woken = s.woken
        /\ t.late = s.late /\ t.limited = s.limited /\ t.recorded = s.recorded
        /\ t.open = s.open /\ t.cycles = s.cycles
    BY <1>1 DEF Fields
  <1> HIDE DEF t
  <1>6. Armed(t) /\ Reopened(t) /\ (~t.stopped => Sent(t))
    BY <1>4 DEF SupInv, Armed, Reopened, Over, IsSettled, Sent, Even, Waiting, Latched
  <1>7. Tasks(t) /\ Binding(t)
    BY <1>4 DEF SupInv, Tasks, Binding, IsSettled
  <1>8. SupInv(t)
    BY <1>3, <1>4, <1>6, <1>7 DEF SupInv
  <1>9. Cadent(s, t) /\ Cycled(s, t)
    BY <1>4 DEF Cadent, Cycled, RunLive, Over, IsSettled
  <1> QED
    BY <1>4, <1>8, <1>9 DEF Handled, t

(* A binding that begins: the mirror is what the sidecar says, and in this    *)
(* daemon nothing was accepted yet.                                           *)
LEMMA BindStartsKeeps ==
    ASSUME IInv, BindStarts, UNCHANGED evidenceVars PROVE IInv'
  <1> DEFINE t == [sup EXCEPT !.bind = "reading", !.pane = 1]
             n == [Mirrored(sup, sidecar) EXCEPT !.bind = "reading", !.pane = 1]
             f == [sup EXCEPT !.bind = "failed"]
  <1>1. /\ WorldInv' /\ SupInv(sup) /\ IsSup(sup) /\ Alive /\ sup.bind = "no" /\ ~Over(sup)
        /\ GateInv /\ GateTypeOK /\ CycleInv /\ JobInv
        /\ UNCHANGED <<artifact, writes, since, handoffs, prompts>>
        /\ UNCHANGED review /\ UNCHANGED daemon
    BY WorldUnchanged DEF IInv, GateInv, BindStarts, SupInv
  <1>2. Alive' /\ sup.at = Idle /\ sup.managed = FALSE
    BY <1>1 DEF Alive, SupInv, Binding
  <1>3. sidecar \in SidecarRec /\ sidecar.life \in Lives /\ sidecar.sha \in Contents \cup {"none"}
    BY <1>1, SidecarTyped DEF GateTypeOK, SidecarRec
  <1>4. sidecar.sha # "none" => since.boot # daemon.boot
    BY <1>1, <1>2 DEF CycleInv
  <1>5. ASSUME sidecar' = sidecar, faults' \in 0..MaxFaults, SupInv(sup'), sup'.at = Idle,
               sup'.published = FALSE, JobInv'
        PROVE  IInv'
    <2>1. GateTypeOK'
      BY <1>1, <1>5 DEF GateTypeOK
    <2>2. GateInv'
      BY <1>1, <1>2, <1>5, <2>1, GateKept
    <2>3. AcceptedInItsCycle'
      BY <1>1 DEF CycleInv, AcceptedInItsCycle
    <2>4. CycleInv'
      BY <1>1, <1>4, <1>5, <2>3, IdleTyped DEF CycleInv
    <2>5. Cadence'
      <3>1. sup.published = FALSE /\ Cadence
        BY <1>1 DEF IInv, SupInv, Binding
      <3> QED
        BY <1>1, <1>5, <3>1 DEF Cadence, CadenceNeverStarves
    <2> QED
      BY <1>1, <1>5, <2>2, <2>4, <2>5, PartsStep
  <1>6. \/ /\ faults' \in 0..MaxFaults /\ sidecar' = sidecar
           /\ \/ PrepareBinding(Job, "exact") /\ (sup' = n \/ sup' = t)
              \/ sup' = f /\ UNCHANGED regVars
    <2>1. CASE "managed" \in cast
      <3>1. PICK how \in WriteEnds :
              /\ Commits(sidecar, how)
              /\ IF how = "ok" THEN PrepareBinding(Job, "exact") /\ sup' = n
                 ELSE sup' = f /\ UNCHANGED regVars
        BY <2>1 DEF BindStarts
      <3>2. faults' \in 0..MaxFaults /\ sidecar' = sidecar
        BY <1>1, <1>3, <3>1, CommitsTyped
      <3> QED
        BY <3>1, <3>2
    <2>2. CASE "managed" \notin cast
      BY <1>1, <2>2 DEF BindStarts, GateTypeOK
    <2> QED
      BY <2>1, <2>2
  <1>7. CASE PrepareBinding(Job, "exact") /\ (sup' = n \/ sup' = t)
    <2>1. sup.state = "starting"
      <3>1. sup.state # "active"
        BY <1>1, <1>7 DEF JobInv, PrepareBinding
      <3> QED
        BY <1>1, <3>1, SupPlaces DEF Over, IsSettled
    <2>2. Fresh(sup)
      BY <1>1, <2>1, UnboundFresh
    <2>3. Fresh(t) /\ t.bind = "reading" /\ n = Mirrored(t, sidecar)
      <3>1. 1 \in 0..MaxPanes
        BY PanesTyped
      <3>2. sup.bind = "no"
        BY <1>1
      <3>3. \A p \in 0..MaxPanes :
              LET u == [sup EXCEPT !.bind = "reading", !.pane = p] IN
              /\ Fresh(u) /\ u.bind = "reading"
              /\ \A state : [Mirrored(sup, state) EXCEPT !.bind = "reading", !.pane = p] = Mirrored(u, state)
        BY <2>2, <3>2, ReadingFresh, Zenon
      <3> QED
        BY <3>1, <3>3, Zenon
    <2> HIDE DEF t, n
    <2>4. Fresh(n)
      BY <1>3, <2>3, MirroredFresh
    <2>5. Fresh(sup')
      BY <1>7, <2>3, <2>4
    <2>6. SupInv(sup') /\ sup'.at = Idle /\ sup'.published = FALSE /\ sup'.state = "starting"
      BY <2>5 DEF Fresh
    <2>7. JobInv'
      BY <1>1, <1>2, <1>7, <2>1, <2>6, PrepareJob
    <2> QED
      BY <1>5, <1>6, <2>6, <2>7
  <1>8. CASE sup' = f /\ UNCHANGED regVars
    <2>1. Handled(sup, f) /\ f.state = sup.state /\ f.at = sup.at
      BY <1>1, FailedHandled
    <2>2. f.published = FALSE
      BY <1>1, SupDomain, SupFlags DEF Fields, SupInv, Binding
    <2>3. JobInv'
      BY <1>1, <1>2, <1>8, <2>1, RegSame
    <2> QED
      BY <1>2, <1>5, <1>6, <1>8, <2>1, <2>2, <2>3 DEF Handled
  <1> QED
    BY <1>6, <1>7, <1>8

(* A step of the binding that handles the supervisor and leaves the gate. *)
LEMMA BindingStep ==
    ASSUME IInv, WorldInv', Alive, Handled(sup, sup'), JobInv', UNCHANGED <<review, daemon>>,
           UNCHANGED <<gateVars, evidenceVars>>
    PROVE  IInv'
  <1>1. GateTypeOK /\ GateInv /\ CycleInv /\ Cadence
    BY DEF IInv, GateInv
  <1>2. UNCHANGED <<sidecar, artifact, faults, writes, since, handoffs, prompts>>
    BY DEF gateVars
  <1>3. GateInv'
    BY <1>1, <1>2, GateUnchanged, GateKept DEF Handled
  <1>4. CycleInv'
    BY <1>1, <1>2, CycleKept DEF Handled
  <1>5. Cadence'
    BY <1>1, CadenceKept DEF Handled
  <1> QED
    BY <1>3, <1>4, <1>5, PartsStep DEF Handled

LEMMA BindAnchorsKeeps ==
    ASSUME IInv, BindAnchors, UNCHANGED evidenceVars PROVE IInv'
  <1>1. PICK r \in {Snap(TRUE), Snap(FALSE)} :
         /\ Reads(r)
         /\ \/ sup' = Anchored(sup, r) /\ UNCHANGED regVars
            \/ sup' = Reset(sup) /\ RollbackBinding(Job)
    BY DEF BindAnchors
  <1>2. /\ SupInv(sup) /\ IsSup(sup) /\ Alive /\ sup.bind = "reading" /\ JobInv /\ WorldInv
        /\ UNCHANGED gateVars /\ UNCHANGED <<cast, child, log, link, boot, periodic>>
        /\ UNCHANGED review /\ UNCHANGED daemon
    BY DEF IInv, BindAnchors, SupInv
  <1>3. Alive' /\ sup.at = Idle /\ sup.published = FALSE /\ sup.retired = FALSE
    BY <1>2, SupFlags DEF Alive, SupInv, Binding
  <1>4. r \in Snapshot /\ spent' \in SpentRec
    BY <1>1, <1>2, ReadsTyped
  <1>5. WorldInv'
    BY <1>2, <1>4 DEF WorldInv, WorldTypeOK, SpentRec
  <1>6. child.ends \in Nat
    BY <1>2 DEF WorldInv, WorldTypeOK, Child
  <1>7. CASE sup' = Anchored(sup, r) /\ UNCHANGED regVars
    <2>1. Handled(sup, Anchored(sup, r))
      BY <1>2, <1>3, <1>4, <1>6, AnchoredHandled
    <2>2. Anchored(sup, r).state = sup.state
      BY <1>2, SupDomain DEF Anchored, Fields
    <2>3. JobInv'
      BY <1>2, <1>3, <1>7, <2>2, RegSame
    <2> QED
      BY <1>2, <1>5, <1>7, <2>1, <2>3, BindingStep
  <1>8. CASE sup' = Reset(sup) /\ RollbackBinding(Job)
    <2>2. Reset(sup).state = sup.state
      BY DEF Reset, Reserved
    <2>3. JobInv'
      BY <1>2, <1>3, <1>8, <2>2, RollbackJob
    <2> QED
      BY <1>2, <1>5, <1>8, <2>3, ResetHandled, BindingStep
  <1> QED
    BY <1>1, <1>7, <1>8

LEMMA BindRefusedKeeps ==
    ASSUME IInv, BindRefused, UNCHANGED evidenceVars PROVE IInv'
  <1>1. /\ SupInv(sup) /\ Alive /\ JobInv /\ WorldInv' /\ RollbackBinding(Job)
        /\ UNCHANGED gateVars /\ UNCHANGED review /\ UNCHANGED daemon
        /\ \/ sup' = [sup EXCEPT !.bind = "failed"]
           \/ sup' = Reset(sup)
        /\ sup.bind # "done"
    BY WorldUnchanged DEF IInv, BindRefused, Drained
  <1>2. Alive'
    BY <1>1 DEF Alive
  <1>3. Reset(sup).state = sup.state
    BY DEF Reset, Reserved
  <1>4. Handled(sup, sup') /\ sup'.state = sup.state
    BY <1>1, <1>3, FailedHandled, ResetHandled
  <1>5. JobInv'
    BY <1>1, <1>2, <1>4, RollbackJob
  <1> QED
    BY <1>1, <1>4, <1>5, BindingStep

(* What is published is a job that still runs. *)
LEMMA BindCommitsKeeps ==
    ASSUME IInv, BindCommits, UNCHANGED evidenceVars PROVE IInv'
  <1>1. /\ SupInv(sup) /\ Alive /\ JobInv /\ WorldInv /\ WorldInv' /\ CommitBinding(Job)
        /\ GateInv /\ GateTypeOK /\ CycleInv
        /\ UNCHANGED gateVars /\ UNCHANGED review /\ UNCHANGED daemon
        /\ sup' = Published(sup, link.degraded) /\ sup.at = Idle /\ sup.bind = "drain"
        /\ ~IsSettled(sup)
    BY WorldUnchanged DEF IInv, GateInv, BindCommits, Drained
  <1>2. Alive' /\ link.degraded \in BOOLEAN
    BY <1>1 DEF Alive, WorldInv, WorldTypeOK
  <1>3. /\ SupInv(sup') /\ sup'.state = "active" /\ sup'.at = sup.at
        /\ sup'.managed = sup.managed /\ sup'.open = sup.open /\ sup'.cycles = sup.cycles
        /\ sup'.published = TRUE /\ (RunLive(sup') => sup'.timer)
    BY <1>1, <1>2, PublishedKept
  <1>4. JobInv'
    BY <1>1, <1>2, <1>3, CommitJob
  <1>5. UNCHANGED <<sidecar, artifact, faults, writes, since, handoffs, prompts>>
    BY <1>1 DEF gateVars
  <1>6. GateInv'
    BY <1>1, <1>3, <1>5, GateUnchanged, GateKept
  <1>7. CycleInv'
    BY <1>1, <1>3, <1>5, CycleKept DEF Cycled
  <1>8. Cadence'
    BY <1>3 DEF Cadence, CadenceNeverStarves
  <1> QED
    BY <1>1, <1>3, <1>4, <1>6, <1>7, <1>8, PartsStep

LEMMA ReleaseKeeps ==
    ASSUME IInv, ReleaseReservation, UNCHANGED evidenceVars PROVE IInv'
  <1>1. /\ SupInv(sup) /\ IsSup(sup) /\ Alive /\ JobInv /\ WorldInv' /\ Release(Job)
        /\ UNCHANGED gateVars /\ UNCHANGED review /\ UNCHANGED daemon
        /\ sup' = Stopped(sup, "failed")
    BY WorldUnchanged DEF IInv, ReleaseReservation, SupInv
  <1>2. Alive' /\ "failed" \in Outcomes
    BY <1>1 DEF Alive, Outcomes
  <1>3. Handled(sup, sup') /\ sup'.state = "settled"
    BY <1>1, <1>2, StoppedHandled
  <1>4. port' = [port EXCEPT ![Job] = sup'.state] /\ UNCHANGED regRest
    BY <1>1, <1>3 DEF Release, regRest
  <1>5. JobInv'
    BY <1>1, <1>2, <1>3, <1>4, JobKept, HandledKept
  <1> QED
    BY <1>1, <1>3, <1>5, BindingStep

(* The job. *)

LEMMA JobRest ==
    ASSUME JobInv, Alive', UNCHANGED <<sup, port, prep>>, RegTypeOK',
           port[Job] # "active" \/ rec' = rec, rec'[Job].listed = rec[Job].listed,
           answer'[Job] # "none" => sup.state = "settled",
           \A c \in Callers : call'[c].pc # "idle" => call'[c].job = Job /\ rec'[Job].phase # "running"
    PROVE  JobInv'
  <1>1. LiveChildHasRunningJob'
    BY DEF JobInv, LiveChildHasRunningJob
  <1> QED
    BY <1>1 DEF JobInv

LEMMA SettleOnceTyped ==
    ASSUME NEW r \in JobRecord, NEW outcome \in Results
    PROVE  /\ SettleOnce(r, outcome) \in JobRecord /\ SettleOnce(r, outcome).listed = r.listed
           /\ SettleOnce(r, outcome).phase = "settled"
  <1>1. [r EXCEPT !.gate = FALSE, !.phase = "settled", !.result = outcome] \in JobRecord
    BY DEF JobRecord, Phases
  <1>2. [r EXCEPT !.gate = FALSE, !.phase = "settled", !.result = outcome].listed = r.listed
        /\ [r EXCEPT !.gate = FALSE, !.phase = "settled", !.result = outcome].phase = "settled"
    BY DEF JobRecord
  <1> QED
    BY <1>1, <1>2 DEF SettleOnce

LEMMA LateTyped ==
    ASSUME NEW r \in JobRecord, NEW kind \in {"rejected", "fulfilled"}
    PROVE  Late(r, kind) \in JobRecord /\ Late(r, kind).listed = r.listed /\ Late(r, kind).phase = r.phase
  <1>1. [r EXCEPT !.late = kind] \in JobRecord
    BY DEF JobRecord
  <1>2. [r EXCEPT !.late = kind].listed = r.listed /\ [r EXCEPT !.late = kind].phase = r.phase
    BY DEF JobRecord
  <1> QED
    BY <1>1, <1>2 DEF Late

LEMMA SettleLockedTyped ==
    ASSUME RegTypeOK, NEW outcome \in Results, SettleLocked(Job, outcome)
    PROVE  /\ rec' \in [Jobs -> JobRecord] /\ rec'[Job].listed = rec[Job].listed
           /\ rec'[Job].phase = "settled"
           /\ told' \in [Jobs -> Nat] /\ posted' \in [Jobs -> Nat]
  <1>1. Job \in Sups /\ Job \in Jobs /\ rec[Job] \in JobRecord
    BY RegUnfolds
  <1>2. /\ rec' = [rec EXCEPT ![Job] = SettleOnce(rec[Job], outcome)]
        /\ UNCHANGED told
        /\ posted' = [posted EXCEPT ![Job] = @ + 1] \/ posted' = posted
    BY <1>1 DEF SettleLocked, PersistTerminalEvent
  <1>3. told \in [Jobs -> Nat] /\ posted \in [Jobs -> Nat] /\ rec \in [Jobs -> JobRecord]
    BY DEF RegTypeOK
  <1>4. posted' \in [Jobs -> Nat]
    BY <1>1, <1>2, <1>3
  <1>5. /\ SettleOnce(rec[Job], outcome) \in JobRecord
        /\ SettleOnce(rec[Job], outcome).listed = rec[Job].listed
        /\ SettleOnce(rec[Job], outcome).phase = "settled"
    BY <1>1, SettleOnceTyped
  <1> QED
    BY <1>1, <1>2, <1>3, <1>4, <1>5

LEMMA ReturnsJob ==
    ASSUME JobInv, Alive', UNCHANGED sup, SupervisorReturns(Job) PROVE JobInv'
  <1>1. PICK outcome \in SupResults \cup {"failed", "cancelled"} : RunnerEnds(Job, outcome)
    BY DEF SupervisorReturns
  <1>2. /\ UNCHANGED <<session, asked, port, prep, retired, call, told, posted>>
        /\ runner' = [runner EXCEPT ![Job] = "ended"]
        /\ answer' = [answer EXCEPT ![Job] = outcome]
        /\ rec' = [rec EXCEPT ![Job].done = TRUE]
        /\ port[Job] = "settled"
    BY <1>1 DEF RunnerEnds, SupervisorReturns
  <1>3. RegTypeOK /\ sup.state = "settled"
    BY <1>2 DEF JobInv
  <1> DEFINE r == [rec[Job] EXCEPT !.done = TRUE]
  <1>4. Job \in Jobs /\ rec[Job] \in JobRecord /\ rec \in [Jobs -> JobRecord]
    BY <1>3, RegUnfolds DEF RegTypeOK
  <1>5. r \in JobRecord /\ r.listed = rec[Job].listed /\ r.phase = rec[Job].phase
    BY <1>4 DEF JobRecord
  <1>6. rec' = [rec EXCEPT ![Job] = r]
    BY <1>2
  <1> HIDE DEF r
  <1>7. rec' \in [Jobs -> JobRecord] /\ rec'[Job] = r
    BY <1>4, <1>5, <1>6
  <1>8. outcome \in Results
    BY <1>1 DEF SupResults, Results, GenericTerminals
  <1>9. /\ answer' \in [Jobs -> Results \cup {"none", "rejected"}]
        /\ runner' \in [Jobs -> {"none", "queued", "live", "ended"}]
    BY <1>2, <1>3, <1>8 DEF RegTypeOK
  <1>10. RegTypeOK'
    BY <1>2, <1>3, <1>7, <1>9 DEF RegTypeOK
  <1>11. \A c \in Callers : call'[c].pc # "idle" => call'[c].job = Job /\ rec'[Job].phase # "running"
    BY <1>2, <1>5, <1>7 DEF JobInv
  <1> QED
    BY <1>2, <1>3, <1>5, <1>7, <1>10, <1>11, JobRest

LEMMA SettleRunnerJob ==
    ASSUME JobInv, Alive', UNCHANGED sup, SettleRunner(Job) PROVE JobInv'
  <1>1. /\ UNCHANGED <<session, asked, runner, port, prep, retired, call>>
        /\ answer' = [answer EXCEPT ![Job] = "none"] /\ answer[Job] # "none"
    BY DEF SettleRunner
  <1>2. RegTypeOK /\ sup.state = "settled" /\ port[Job] # "active"
    BY <1>1 DEF JobInv
  <1>3. Job \in Jobs /\ rec[Job] \in JobRecord /\ rec \in [Jobs -> JobRecord]
    BY <1>2, RegUnfolds DEF RegTypeOK
  <1>4. /\ rec' \in [Jobs -> JobRecord] /\ rec'[Job].listed = rec[Job].listed
        /\ rec'[Job].phase = rec[Job].phase \/ rec'[Job].phase # "running"
        /\ told' \in [Jobs -> Nat] /\ posted' \in [Jobs -> Nat]
    <2>1. CASE rec[Job].phase # "running"
      <3> DEFINE k == IF answer[Job] = "rejected" THEN "rejected" ELSE "fulfilled"
      <3>1. rec' = [rec EXCEPT ![Job] = Late(rec[Job], k)] /\ UNCHANGED <<told, posted>>
        BY <2>1 DEF SettleRunner
      <3>2. k \in {"rejected", "fulfilled"}
        OBVIOUS
      <3> HIDE DEF k
      <3>3. Late(rec[Job], k) \in JobRecord /\ Late(rec[Job], k).listed = rec[Job].listed
            /\ Late(rec[Job], k).phase = rec[Job].phase
        BY <1>3, <3>2, LateTyped
      <3> QED
        BY <1>2, <1>3, <3>1, <3>3 DEF RegTypeOK
    <2>2. CASE rec[Job].phase = "running"
      <3> DEFINE o == IF answer[Job] = "rejected" THEN "failed" ELSE answer[Job]
      <3>1. SettleLocked(Job, o)
        BY <2>2 DEF SettleRunner
      <3>2. o \in Results
        BY <1>1, <1>2, <1>3 DEF RegTypeOK, Results, GenericTerminals
      <3> HIDE DEF o
      <3> QED
        BY <1>2, <3>1, <3>2, SettleLockedTyped
    <2> QED
      BY <2>1, <2>2
  <1>5. answer' \in [Jobs -> Results \cup {"none", "rejected"}]
    BY <1>1, <1>2 DEF RegTypeOK
  <1>6. RegTypeOK'
    BY <1>1, <1>2, <1>4, <1>5 DEF RegTypeOK
  <1>7. \A c \in Callers : call'[c].pc # "idle" => call'[c].job = Job /\ rec'[Job].phase # "running"
    BY <1>1, <1>4 DEF JobInv
  <1> QED
    BY <1>1, <1>2, <1>4, <1>6, <1>7, JobRest

LEMMA RequestCancelJob ==
    ASSUME JobInv, Alive', UNCHANGED sup, NEW c \in Callers, RequestCancel(c, Job) PROVE JobInv'
  <1>1. /\ UNCHANGED <<session, asked, runner, answer, port, prep, retired, told, posted>>
        /\ call' = [call EXCEPT ![c] = [pc |-> "draining", job |-> Job, drained |-> FALSE]]
    BY DEF RequestCancel
  <1>2. RegTypeOK
    BY DEF JobInv
  <1>3. Job \in Sups /\ Job \in Jobs /\ rec[Job] \in JobRecord /\ rec \in [Jobs -> JobRecord]
    BY <1>2, RegUnfolds DEF RegTypeOK
  <1> DEFINE r == [rec[Job] EXCEPT !.gate = FALSE, !.phase = "cancel_requested", !.reason = "cancelled"]
             k == [pc |-> "draining", job |-> Job, drained |-> FALSE]
  <1>4. r \in JobRecord /\ r.listed = rec[Job].listed /\ r.phase = "cancel_requested"
    BY <1>3 DEF JobRecord, Phases
  <1>5. k \in CallStates /\ k.job = Job
    BY <1>3 DEF CallStates
  <1> HIDE DEF r, k
  <1>6. call' \in [Callers -> CallStates] /\ \A d \in Callers : call'[d] = k \/ call'[d] = call[d]
    BY <1>1, <1>2, <1>5 DEF RegTypeOK, k
  <1>7. \/ rec' = rec /\ rec[Job].phase = "cancel_requested"
        \/ rec' = [rec EXCEPT ![Job] = r] /\ port[Job] # "active"
    BY <1>3 DEF RequestCancel, ChildLive, r
  <1>8. /\ rec' \in [Jobs -> JobRecord] /\ rec'[Job].listed = rec[Job].listed
        /\ rec'[Job].phase = "cancel_requested"
    BY <1>3, <1>4, <1>7
  <1>9. RegTypeOK'
    BY <1>1, <1>2, <1>6, <1>8 DEF RegTypeOK
  <1>10. \A d \in Callers : call'[d].pc # "idle" => call'[d].job = Job /\ rec'[Job].phase # "running"
    BY <1>5, <1>6, <1>8 DEF JobInv
  <1>11. answer'[Job] # "none" => sup.state = "settled"
    BY <1>1 DEF JobInv
  <1> QED
    BY <1>1, <1>7, <1>8, <1>9, <1>10, <1>11, JobRest

LEMMA DrainObservedJob ==
    ASSUME JobInv, Alive', UNCHANGED sup, NEW c \in Callers, DrainObserved(c) PROVE JobInv'
  <1>1. /\ UNCHANGED <<session, asked, rec, runner, answer, port, prep, retired, told, posted>>
        /\ call' = [call EXCEPT ![c] = [call[c] EXCEPT !.pc = "settling",
                                                       !.drained = IsDrained(call[c].job)]]
        /\ call[c].pc = "draining"
    BY DEF DrainObserved
  <1>2. RegTypeOK /\ call[c].job = Job /\ rec[Job].phase # "running"
    BY <1>1 DEF JobInv
  <1> DEFINE b == IsDrained(call[c].job)
             k == [call[c] EXCEPT !.pc = "settling", !.drained = b]
  <1>3. b \in BOOLEAN
    BY DEF IsDrained
  <1> HIDE DEF b
  <1>4. call[c] \in CallStates /\ call \in [Callers -> CallStates]
    BY <1>2 DEF RegTypeOK
  <1>5. k \in CallStates /\ k.job = Job
    BY <1>2, <1>3, <1>4 DEF CallStates
  <1>6. call' = [call EXCEPT ![c] = k]
    BY <1>1 DEF b
  <1> HIDE DEF k
  <1>7. call' \in [Callers -> CallStates] /\ \A d \in Callers : call'[d] = k \/ call'[d] = call[d]
    BY <1>4, <1>5, <1>6
  <1>8. RegTypeOK'
    BY <1>1, <1>2, <1>7 DEF RegTypeOK
  <1>9. \A d \in Callers : call'[d].pc # "idle" => call'[d].job = Job /\ rec'[Job].phase # "running"
    BY <1>1, <1>2, <1>5, <1>7 DEF JobInv
  <1>10. answer'[Job] # "none" => sup.state = "settled"
    BY <1>1 DEF JobInv
  <1> QED
    BY <1>1, <1>8, <1>9, <1>10, JobRest

LEMMA SettleCancelJob ==
    ASSUME JobInv, Alive', UNCHANGED sup, NEW c \in Callers, SettleCancel(c) PROVE JobInv'
  <1> DEFINE o == IF call[c].drained THEN "cancelled" ELSE "unknown"
  <1>1. /\ UNCHANGED <<session, asked, runner, answer, port, prep, retired>>
        /\ call' = [call EXCEPT ![c] = NoCall]
        /\ call[c].pc = "settling" /\ SettleLocked(call[c].job, o)
    BY DEF SettleCancel
  <1>2. RegTypeOK /\ call[c].job = Job /\ rec[Job].phase # "running" /\ port[Job] # "active"
    BY <1>1 DEF JobInv, LiveChildHasRunningJob
  <1>3. o \in Results
    BY DEF Results, GenericTerminals
  <1> HIDE DEF o
  <1>4. /\ rec' \in [Jobs -> JobRecord] /\ rec'[Job].listed = rec[Job].listed
        /\ rec'[Job].phase = "settled"
        /\ told' \in [Jobs -> Nat] /\ posted' \in [Jobs -> Nat]
    BY <1>1, <1>2, <1>3, SettleLockedTyped
  <1>5. NoCall \in CallStates /\ NoCall.pc = "idle"
    BY DEF NoCall, CallStates
  <1>6. call' \in [Callers -> CallStates] /\ \A d \in Callers : call'[d] = NoCall \/ call'[d] = call[d]
    BY <1>1, <1>2, <1>5 DEF RegTypeOK
  <1>7. RegTypeOK'
    BY <1>1, <1>2, <1>4, <1>6 DEF RegTypeOK
  <1>8. \A d \in Callers : call'[d].pc # "idle" => call'[d].job = Job /\ rec'[Job].phase # "running"
    BY <1>4, <1>5, <1>6 DEF JobInv
  <1>9. answer'[Job] # "none" => sup.state = "settled"
    BY <1>1 DEF JobInv
  <1> QED
    BY <1>1, <1>2, <1>4, <1>7, <1>8, <1>9, JobRest

(* Only the job moves. *)
LEMMA JobStepsKeeps ==
    ASSUME IInv, JobSteps, UNCHANGED evidenceVars PROVE IInv'
  <1>1. /\ SupInv(sup) /\ Alive /\ JobInv /\ WorldInv'
        /\ UNCHANGED gateVars /\ UNCHANGED review /\ UNCHANGED daemon /\ UNCHANGED sup
    BY WorldUnchanged DEF IInv, JobSteps, supVars
  <1>2. Alive'
    BY <1>1 DEF Alive
  <1>3. JobInv'
    BY <1>1, <1>2, ReturnsJob, SettleRunnerJob, RequestCancelJob, DrainObservedJob, SettleCancelJob DEF JobSteps
  <1>4. Handled(sup, sup')
    BY <1>1, HandledSelf
  <1> QED
    BY <1>1, <1>3, <1>4, BindingStep

(* The daemon. *)

LEMMA DaemonPc ==
    ASSUME DaemonInv, NEW p \in {"up", "flushing", "stopping", "down"}, daemon' = [daemon EXCEPT !.pc = p],
           UNCHANGED <<review, evidence>>
    PROVE  DaemonInv' /\ daemon'.boot = daemon.boot /\ daemon'.pc = p
  <1>1. daemon' \in [pc: {"up", "flushing", "stopping", "down"}, boot: Nat]
        /\ daemon'.boot = daemon.boot /\ daemon'.pc = p
    BY DEF DaemonInv
  <1> QED
    BY <1>1 DEF DaemonInv, ReviewRec, EvidenceRec

LEMMA StopBeginsKeeps ==
    ASSUME IInv, StopBegins, UNCHANGED evidenceVars PROVE IInv'
  <1> DEFINE p == IF sup.managed /\ sup.life = "awaiting_handoff" THEN "flushing" ELSE "stopping"
  <1>1. /\ SupInv(sup) /\ Alive /\ JobInv /\ WorldInv' /\ DaemonInv /\ GateInv /\ GateTypeOK /\ CycleInv
        /\ UNCHANGED gateVars /\ UNCHANGED review /\ UNCHANGED sup /\ UNCHANGED regVars
        /\ UNCHANGED <<trace, store, evidence>>
        /\ daemon' = [daemon EXCEPT !.pc = p]
    BY WorldUnchanged DEF IInv, GateInv, StopBegins, Alive, evidenceVars
  <1>2. p \in {"flushing", "stopping"}
    OBVIOUS
  <1> HIDE DEF p
  <1>3. DaemonInv' /\ daemon'.boot = daemon.boot /\ Alive'
    BY <1>1, <1>2, DaemonPc DEF Alive
  <1>4. JobInv'
    BY <1>1, <1>3, RegSame
  <1>5. UNCHANGED <<sidecar, artifact, faults, writes, since, handoffs, prompts>>
    BY <1>1 DEF gateVars
  <1>6. GateInv'
    BY <1>1, <1>5, GateUnchanged, GateKept
  <1>7. CycleInv'
    BY <1>1, <1>3, <1>5, CycleKept DEF Cycled
  <1>8. Cadence' /\ TraceInv'
    BY <1>1, TraceKept DEF IInv, Cadence, CadenceNeverStarves
  <1> QED
    BY <1>1, <1>3, <1>4, <1>6, <1>7, <1>8 DEF IInv

LEMMA FlushHandoffsKeeps ==
    ASSUME IInv, FlushHandoffs, UNCHANGED evidenceVars PROVE IInv'
  <1> DEFINE new == WithOutcome("recovery_pending", "other")
  <1>1. /\ SupInv(sup) /\ IsSup(sup) /\ Alive /\ JobInv /\ WorldInv' /\ DaemonInv /\ GateInv /\ GateTypeOK /\ CycleInv
        /\ UNCHANGED <<artifact, writes, since, handoffs, prompts>>
        /\ UNCHANGED review /\ UNCHANGED regVars
        /\ UNCHANGED <<trace, store, evidence>>
        /\ daemon' = [daemon EXCEPT !.pc = "stopping"]
    BY WorldUnchanged DEF IInv, GateInv, FlushHandoffs, Alive, evidenceVars, SupInv
  <1>2. PICK how : Commits(new, how) /\ (sup' = [sup EXCEPT !.life = "recovery_pending"] \/ sup' = sup)
    BY DEF FlushHandoffs
  <1>3. DaemonInv' /\ daemon'.boot = daemon.boot /\ Alive'
    BY <1>1, DaemonPc DEF Alive
  <1>4. Handled(sup, sup') /\ Alike(sup, sup')
    <2>1. "recovery_pending" \in Lives
      BY DEF Lives
    <2>2. CASE sup' = sup
      BY <1>1, <2>2, HandledSelf DEF Alike
    <2>3. CASE sup' = [sup EXCEPT !.life = "recovery_pending"]
      BY <1>1, <2>1, <2>3, LifeHandled
    <2> QED
      BY <1>2, <2>2, <2>3
  <1>5. JobInv'
    BY <1>1, <1>3, <1>4, RegSame DEF Alike
  <1>6. Annotated(new)
    BY <1>1, OutcomeAnnotates DEF Lives, Details
  <1> HIDE DEF new
  <1>7. /\ sidecar' \in SidecarRec /\ faults' \in 0..MaxFaults /\ sidecar' \in {new, sidecar}
    BY <1>1, <1>2, <1>6, CommitsTyped DEF Annotated
  <1>8. /\ sidecar'.sha = sidecar.sha /\ sidecar'.version = sidecar.version
        /\ sidecar'.fence = sidecar.fence /\ sidecar'.attempts = sidecar.attempts
    BY <1>6, <1>7 DEF Annotated
  <1>9. GateTypeOK'
    BY <1>1, <1>7 DEF GateTypeOK, SidecarRec
  <1>10. GateInv'
    BY <1>1, <1>4, <1>8, <1>9, GateKept DEF Alike
  <1>11. CycleInv'
    BY <1>1, <1>3, <1>4, <1>8, CycleKept DEF Handled
  <1>12. Cadence' /\ TraceInv'
    BY <1>1, <1>4, TraceKept, CadenceKept DEF IInv, Handled
  <1> QED
    BY <1>1, <1>3, <1>4, <1>5, <1>10, <1>11, <1>12 DEF IInv, Handled

LEMMA StopSupervisorsKeeps ==
    ASSUME IInv, StopSupervisors, UNCHANGED evidenceVars PROVE IInv'
  <1> DEFINE t == Stopped(sup, "cancelled")
  <1>1. /\ SupInv(sup) /\ Alive /\ WorldInv
        /\ UNCHANGED gateVars /\ UNCHANGED <<cast, child, log, boot, periodic, spent>>
        /\ Folds(t) /\ link' = [link EXCEPT !.up = FALSE]
    BY DEF IInv, StopSupervisors, Alive, Folds
  <1>2. link' \in LinkRec /\ link'.next = link.next
    BY <1>1 DEF WorldInv, WorldTypeOK, LinkRec
  <1>3. WorldInv'
    BY <1>1, <1>2 DEF WorldInv, WorldTypeOK, LinkRec
  <1>4. Handled(sup, t)
    BY <1>1, StoppedHandled DEF Outcomes
  <1> QED
    BY <1>1, <1>3, <1>4, HandlerStep

(* What the anchor writes over. *)
LEMMA AnchorAgain ==
    ASSUME NEW s, DOMAIN s = Fields, NEW p, s.pane = p, NEW o
    PROVE  Anchored([s EXCEPT !.bind = "reading", !.pane = p], o) = Anchored(s, o)
  <1> DEFINE a == [s EXCEPT !.bind = "reading", !.pane = p]
             b == Anchored(a, o)
             c == Anchored(s, o)
  <1>1. a.managed = s.managed /\ DOMAIN a = Fields
    BY DEF Fields
  <1>2. \A i \in Fields : i # "bind" => a[i] = s[i]
    OBVIOUS
  <1> HIDE DEF a
  <1>3. b = [i \in Fields |-> b[i]] /\ c = [i \in Fields |-> c[i]]
    BY <1>1 DEF Anchored
  <1>4. \A i \in Fields : b[i] = c[i]
    <2> TAKE i \in Fields
    <2>1. CASE i \in {"bind", "status", "rev", "seq", "last", "paused", "base"}
      BY <1>1, <2>1 DEF Anchored, Fields
    <2>2. CASE i \notin {"bind", "status", "rev", "seq", "last", "paused", "base"}
      BY <1>1, <1>2, <2>2 DEF Anchored
    <2> QED
      BY <2>1, <2>2
  <1> HIDE DEF b, c
  <1>5. b = c
    BY <1>3, <1>4
  <1> QED
    BY <1>5 DEF a, b, c

Watching(t) ==
    /\ SupInv(t)
    /\ t.state = "active" /\ t.at = Idle /\ t.published = TRUE
    /\ RunLive(t) => t.timer

(* A supervisor that is anchored and published in one go: the first one of a  *)
(* behaviour, and one that a restart attached again.                          *)
LEMMA PublishedAtOnce ==
    ASSUME NEW s, Fresh(s), s.bind = "no", NEW o \in Snapshot, child.ends \in Nat,
           NEW state, state.life \in Lives, state.sha \in Contents \cup {"none"}
    PROVE  Watching(Published(Anchored(Mirrored(s, state), o), FALSE)) /\ Watching(Published(Anchored(s, o), FALSE))
  <1> DEFINE p == s.pane
             a == [s EXCEPT !.bind = "reading", !.pane = p]
             n == Mirrored(s, state)
  <1>1. IsSup(s) /\ DOMAIN s = Fields /\ p \in 0..MaxPanes
    BY SupDomain, SupPlaces DEF Fresh, SupInv
  <1>2. DOMAIN n = Fields /\ n.pane = p
    BY <1>1 DEF Mirrored, Fields
  <1>3. /\ Fresh(a) /\ a.bind = "reading" /\ a.cycles = s.cycles
        /\ [n EXCEPT !.bind = "reading", !.pane = p] = Mirrored(a, state)
    <2>1. \A q \in 0..MaxPanes :
            LET u == [s EXCEPT !.bind = "reading", !.pane = q] IN
            /\ Fresh(u) /\ u.bind = "reading" /\ u.cycles = s.cycles
            /\ \A w : [Mirrored(s, w) EXCEPT !.bind = "reading", !.pane = q] = Mirrored(u, w)
      BY ReadingFresh, Zenon
    <2> HIDE DEF p
    <2> QED
      BY <1>1, <2>1, Zenon
  <1>4. Anchored(a, o) = Anchored(s, o)
    <2>1. \A q : q = s.pane => Anchored([s EXCEPT !.bind = "reading", !.pane = q], o) = Anchored(s, o)
      BY <1>1, AnchorAgain
    <2> QED
      BY <2>1
  <1>5. Anchored(Mirrored(a, state), o) = Anchored(n, o)
    <2> HIDE DEF n, p, a
    <2>1. Anchored([n EXCEPT !.bind = "reading", !.pane = p], o) = Anchored(n, o)
      BY <1>2, AnchorAgain, Zenon
    <2>2. [n EXCEPT !.bind = "reading", !.pane = p] = Mirrored(a, state)
      BY <1>3
    <2> QED
      BY <2>1, <2>2, Zenon
  <1> HIDE DEF n, p, a
  <1>6. Fresh(Mirrored(a, state))
    <2>1. a.bind # "no" /\ Fresh(a)
      BY <1>3
    <2> QED
      BY <2>1, MirroredFresh
  <1>7. ASSUME NEW u, Fresh(u) PROVE Watching(Published(Anchored(u, o), FALSE))
    <2> DEFINE v == Anchored(u, o)
    <2>1. SupInv(u) /\ u.at = Idle /\ u.published = FALSE /\ u.retired = FALSE
      BY <1>7 DEF Fresh
    <2>2. Fresh(v) /\ v.at = Idle /\ v.bind = "drain"
      BY <1>7, <2>1, AnchoredHandled
    <2> HIDE DEF v
    <2>3. SupInv(v) /\ ~IsSettled(v)
      BY <2>2 DEF Fresh, IsSettled
    <2>4. Watching(Published(v, FALSE))
      BY <2>2, <2>3, PublishedKept DEF Watching
    <2> QED
      BY <2>4 DEF v
  <1>8. Watching(Published(Anchored(n, o), FALSE))
    BY <1>5, <1>6, <1>7, Zenon
  <1>9. Watching(Published(Anchored(s, o), FALSE))
    BY <1>3, <1>4, <1>7, Zenon
  <1> QED
    BY <1>8, <1>9 DEF n

LEMMA RunningTyped ==
    /\ LET r == [Running EXCEPT !.stage = "exact"] IN
       r \in JobRecord /\ r.phase = "running" /\ r.gate = TRUE /\ r.listed = TRUE
    /\ Running \in JobRecord /\ Absent \in JobRecord
  <1>1. 0 \in 0..NoGeneration /\ NoGeneration \in 0..NoGeneration
    BY JobsAssumption DEF NoGeneration
  <1>2. Absent \in JobRecord
    BY <1>1 DEF Absent, JobRecord, Phases, Stages
  <1>3. Running \in JobRecord /\ Running.phase = "running" /\ Running.gate = TRUE /\ Running.listed = TRUE
    BY <1>1, <1>2 DEF Running, JobRecord, Phases
  <1> QED
    BY <1>2, <1>3 DEF JobRecord, Stages

LEMMA ReattachKeeps ==
    ASSUME IInv, Reattach, UNCHANGED evidenceVars PROVE IInv'
  <1> DEFINE s == [Reserved EXCEPT !.cycles = sup.cycles, !.pane = child.pane]
             r == [Running EXCEPT !.stage = "exact"]
  <1>1. /\ SupInv(sup) /\ IsSup(sup) /\ ~Alive /\ JobInv /\ WorldInv /\ WorldTypeOK /\ DaemonInv
        /\ GateInv /\ GateTypeOK /\ CycleInv
        /\ UNCHANGED <<artifact, faults, writes, since, handoffs, prompts>>
        /\ UNCHANGED <<cast, child, log, boot, periodic, spent>>
        /\ UNCHANGED <<session, asked, answer, prep, retired, call, told, posted>>
        /\ UNCHANGED review /\ UNCHANGED <<trace, store, evidence>>
        /\ daemon' = [pc |-> "up", boot |-> daemon.boot + 1]
        /\ sidecar' \in {WithOutcome("awaiting_handoff", "other"), sidecar}
        /\ sup' = Published(Anchored(Mirrored(s, sidecar'), Snap(TRUE)), FALSE)
        /\ rec' = [rec EXCEPT ![Job] = r]
        /\ runner' = [runner EXCEPT ![Job] = "live"] /\ port' = [port EXCEPT ![Job] = "active"]
    BY DEF IInv, GateInv, WorldInv, Reattach, Alive, evidenceVars, SupInv
  <1>2. sup.at = Idle /\ sup.state = "starting" /\ answer[Job] = "none" /\ (\A c \in Callers : call[c].pc = "idle")
    BY <1>1 DEF JobInv
  <1>3. daemon.boot \in Nat
    BY <1>1 DEF DaemonInv
  <1>4. /\ daemon' \in [pc: {"up", "flushing", "stopping", "down"}, boot: Nat]
        /\ daemon'.boot = daemon.boot + 1 /\ Alive'
    BY <1>1, <1>3 DEF Alive
  <1>5. DaemonInv'
    BY <1>1, <1>4 DEF DaemonInv, ReviewRec, EvidenceRec
  <1>6. PICK from \in 1..(Len(log) + 1) : link' = [up |-> TRUE, next |-> from, degraded |-> FALSE]
    BY DEF Reattach
  <1>7. link' \in LinkRec /\ link'.next > 0
    <2>1. Len(log) \in Nat
      BY <1>1 DEF WorldTypeOK
    <2>2. from \in Nat /\ from > 0
      BY <1>6, <2>1
    <2> QED
      BY <1>6, <2>2 DEF LinkRec
  <1>8. WorldInv'
    BY <1>1, <1>7 DEF WorldInv, WorldTypeOK, LinkRec
  <1>9. /\ sidecar' \in SidecarRec
        /\ sidecar'.sha = sidecar.sha /\ sidecar'.version = sidecar.version
        /\ sidecar'.fence = sidecar.fence /\ sidecar'.attempts = sidecar.attempts
    <2>1. Annotated(WithOutcome("awaiting_handoff", "other")) /\ Annotated(sidecar)
      BY <1>1, OutcomeAnnotates DEF Lives, Details
    <2> QED
      BY <1>1, <2>1 DEF Annotated
  <1>10. /\ SupInv(sup') /\ sup'.state = "active" /\ sup'.at = Idle /\ sup'.published = TRUE
         /\ RunLive(sup') => sup'.timer
    <2>1. sup.cycles \in Nat /\ child.pane \in 0..MaxPanes /\ child.ends \in Nat
      BY <1>1, SupNumbers, PanesTyped DEF WorldTypeOK, Child
    <2>2. Fresh(s) /\ s.bind = "no"
      BY <2>1, ReservedFresh DEF Reserved
    <2>3. Snap(TRUE) \in Snapshot /\ sidecar'.life \in Lives /\ sidecar'.sha \in Contents \cup {"none"}
      BY <1>1, <1>9, SnapTyped DEF SidecarRec
    <2> HIDE DEF s
    <2>4. Fresh(s) /\ s.bind = "no" /\ child.ends \in Nat
      BY <2>1, <2>2
    <2>5. Watching(Published(Anchored(Mirrored(s, sidecar'), Snap(TRUE)), FALSE))
      BY <2>3, <2>4, PublishedAtOnce
    <2> QED
      BY <1>1, <2>5 DEF Watching
  <1>11. GateTypeOK'
    BY <1>1, <1>9 DEF GateTypeOK, SidecarRec
  <1>12. GateInv'
    BY <1>1, <1>2, <1>9, <1>10, <1>11, GateKept
  <1>13. CycleInv'
    <2>1. since.boot <= daemon.boot /\ since.boot \in Nat /\ AcceptedInItsCycle
      BY <1>1 DEF CycleInv, GateTypeOK, When
    <2>2. since'.boot <= daemon'.boot /\ since'.boot # daemon'.boot
      BY <1>1, <1>3, <1>4, <2>1
    <2> QED
      BY <1>1, <1>10, <2>1, <2>2, IdleTyped DEF CycleInv, AcceptedInItsCycle
  <1>14. JobInv'
    <2>1. RegTypeOK /\ Job \in Sups /\ Job \in Jobs
      BY <1>1, RegUnfolds DEF JobInv
    <2>2. /\ r \in JobRecord /\ r.phase = "running" /\ r.gate = TRUE /\ r.listed = TRUE
      BY RunningTyped
    <2> HIDE DEF r
    <2>3. /\ rec' \in [Jobs -> JobRecord] /\ rec'[Job] = r
          /\ runner' \in [Jobs -> {"none", "queued", "live", "ended"}]
          /\ port' \in [Sups -> {"none", "starting", "provisional", "active", "settled"}] /\ port'[Job] = "active"
      BY <1>1, <2>1, <2>2 DEF RegTypeOK
    <2>4. RegTypeOK'
      BY <1>1, <2>1, <2>3 DEF RegTypeOK
    <2>5. prep'[Job] # NoPrep => prep'[Job].how = "exact"
      BY <1>1 DEF JobInv
    <2> QED
      BY <1>1, <1>2, <1>4, <1>10, <2>2, <2>3, <2>4, <2>5 DEF JobInv, LiveChildHasRunningJob
  <1>15. Cadence' /\ TraceInv'
    BY <1>1, <1>10, TraceKept DEF Cadence, CadenceNeverStarves, IInv
  <1> QED
    BY <1>5, <1>8, <1>10, <1>12, <1>13, <1>14, <1>15 DEF IInv

LEMMA ReattachRefusedKeeps ==
    ASSUME IInv, ReattachRefused, UNCHANGED evidenceVars PROVE IInv'
  <1> DEFINE new == WithOutcome("recovery_pending", "other")
  <1>1. /\ SupInv(sup) /\ ~Alive /\ JobInv /\ WorldInv' /\ DaemonInv
        /\ GateInv /\ GateTypeOK /\ CycleInv /\ Cadence
        /\ UNCHANGED <<artifact, writes, since, handoffs, prompts>>
        /\ UNCHANGED regVars /\ UNCHANGED review /\ UNCHANGED <<trace, store, evidence>>
        /\ daemon' = [pc |-> "up", boot |-> daemon.boot + 1]
        /\ sup' = Stopped(sup, "failed")
    BY WorldUnchanged DEF IInv, GateInv, ReattachRefused, Alive, evidenceVars
  <1>2. daemon.boot \in Nat
    BY <1>1 DEF DaemonInv
  <1>3. /\ daemon' \in [pc: {"up", "flushing", "stopping", "down"}, boot: Nat]
        /\ daemon'.boot = daemon.boot + 1 /\ Alive'
    BY <1>1, <1>2 DEF Alive
  <1>4. DaemonInv'
    BY <1>1, <1>3 DEF DaemonInv, ReviewRec, EvidenceRec
  <1>5. Handled(sup, sup') /\ sup'.state = "settled" /\ sup'.at = sup.at /\ sup.at = Idle
    BY <1>1, StoppedHandled DEF Outcomes, JobInv
  <1>6. /\ sidecar' \in SidecarRec /\ faults' \in 0..MaxFaults
        /\ sidecar'.sha = sidecar.sha /\ sidecar'.version = sidecar.version
        /\ sidecar'.fence = sidecar.fence /\ sidecar'.attempts = sidecar.attempts
    <2>1. Annotated(new)
      BY <1>1, OutcomeAnnotates DEF Lives, Details
    <2>2. Annotated(sidecar) /\ faults \in 0..MaxFaults
      BY <1>1 DEF Annotated, GateTypeOK, SidecarRec
    <2>3. \/ \E how : Commits(new, how)
          \/ UNCHANGED <<sidecar, faults>>
      BY DEF ReattachRefused
    <2> HIDE DEF new
    <2>4. sidecar' \in {new, sidecar} /\ sidecar' \in SidecarRec /\ faults' \in 0..MaxFaults
      BY <1>1, <2>1, <2>2, <2>3, CommitsTyped DEF Annotated
    <2> QED
      BY <2>1, <2>4 DEF Annotated
  <1>7. GateTypeOK'
    BY <1>1, <1>6 DEF GateTypeOK, SidecarRec
  <1>8. GateInv'
    BY <1>1, <1>5, <1>6, <1>7, GateKept
  <1>9. CycleInv'
    <2>1. since.boot <= daemon.boot /\ since.boot \in Nat /\ AcceptedInItsCycle
      BY <1>1 DEF CycleInv, GateTypeOK, When
    <2>2. since'.boot <= daemon'.boot /\ since'.boot # daemon'.boot
      BY <1>1, <1>2, <1>3, <2>1
    <2> QED
      BY <1>1, <1>5, <2>1, <2>2, IdleTyped DEF CycleInv, AcceptedInItsCycle
  <1>10. JobInv'
    <2>1. UNCHANGED <<session, asked, rec, runner, answer, port, prep, retired, call, told, posted>>
      BY <1>1 DEF regVars
    <2>2. port[Job] # "active"
      BY <1>1 DEF JobInv
    <2>3. RegTypeOK' /\ LiveChildHasRunningJob'
      BY <1>1, <2>1 DEF JobInv, RegTypeOK, LiveChildHasRunningJob
    <2> QED
      BY <1>1, <1>3, <1>5, <2>1, <2>2, <2>3 DEF JobInv
  <1>11. Cadence' /\ TraceInv'
    BY <1>1, <1>5, CadenceKept, TraceKept DEF Handled, IInv
  <1> QED
    BY <1>1, <1>4, <1>5, <1>8, <1>9, <1>10, <1>11 DEF IInv, Handled

(* The process ends; only files stay. *)
LEMMA ExitKeeps ==
    ASSUME IInv, Exit PROVE IInv'
  <1>1. /\ SupInv(sup) /\ IsSup(sup) /\ Alive /\ JobInv /\ WorldInv /\ DaemonInv /\ TraceInv
        /\ GateInv /\ GateTypeOK /\ CycleInv
        /\ UNCHANGED gateVars /\ UNCHANGED <<cast, child, log, spent>>
        /\ UNCHANGED <<session, asked, retired, told, posted>> /\ UNCHANGED <<trace, store>>
        /\ daemon' = [daemon EXCEPT !.pc = "down"]
        /\ review' = NoReview /\ evidence' = FreshEvidence
        /\ link' = [up |-> FALSE, next |-> 1, degraded |-> FALSE]
        /\ boot' = NoSnapshot /\ periodic' = NoSnapshot
    BY DEF IInv, GateInv, Exit, SupInv
  <1>2. /\ sup' = [Reserved EXCEPT !.cycles = sup.cycles]
        /\ rec' = [rec EXCEPT ![Job] = Absent] /\ runner' = [runner EXCEPT ![Job] = "none"]
        /\ answer' = [answer EXCEPT ![Job] = "none"] /\ port' = [port EXCEPT ![Job] = "none"]
        /\ prep' = [prep EXCEPT ![Job] = NoPrep] /\ call' = [c \in Callers |-> NoCall]
    BY DEF Exit
  <1>3. /\ daemon' \in [pc: {"up", "flushing", "stopping", "down"}, boot: Nat]
        /\ daemon'.boot = daemon.boot /\ daemon'.pc = "down"
    BY <1>1 DEF DaemonInv
  <1>4. ~Alive'
    BY <1>3 DEF Alive
  <1>5. DaemonInv'
    <2>1. NoReview \in [pc: {"none", "reading", "building", "judging", "storing"}, run: Nat, gen: Nat,
                        window: {NoReview.window}]
      BY DEF NoReview
    <2>2. /\ FreshEvidence \in [cursor: {FreshEvidence.cursor}, degraded: BOOLEAN, fails: 0..Threshold,
                                announced: BOOLEAN, windows: {FreshEvidence.windows},
                                passed: {FreshEvidence.passed}]
          /\ FreshEvidence.announced = FALSE
      BY SupervisorAssumption DEF FreshEvidence
    <2>3. review' \in ReviewRec' /\ evidence' \in EvidenceRec'
      BY <1>1, <2>1, <2>2 DEF ReviewRec, EvidenceRec
    <2> QED
      BY <1>1, <1>3, <2>2, <2>3 DEF DaemonInv
  <1>6. WorldInv'
    <2>1. link' \in LinkRec /\ link'.next > 0
      BY <1>1 DEF LinkRec
    <2> QED
      BY <1>1, <2>1 DEF WorldInv, WorldTypeOK, LinkRec
  <1>7. Fresh(sup') /\ sup'.state = "starting" /\ sup'.at = Idle /\ sup'.published = FALSE
    <2>1. sup.cycles \in Nat /\ 0 \in 0..MaxPanes
      BY <1>1, SupNumbers, PanesTyped
    <2>2. Fresh([Reserved EXCEPT !.cycles = sup.cycles, !.pane = 0])
      BY <2>1, ReservedFresh
    <2>3. [Reserved EXCEPT !.cycles = sup.cycles, !.pane = 0] = [Reserved EXCEPT !.cycles = sup.cycles]
      <3> DEFINE x == [Reserved EXCEPT !.cycles = sup.cycles]
      <3>1. DOMAIN x = Fields
        BY ReservedTyped, SupDomain
      <3>2. x.pane = 0
        BY DEF Reserved
      <3>3. x = [i \in Fields |-> x[i]]
        BY <3>1
      <3> HIDE DEF x
      <3>4. [x EXCEPT !.pane = 0] = x
        BY <3>1, <3>2, <3>3
      <3> QED
        BY <3>4 DEF x
    <2> QED
      BY <1>2, <2>2, <2>3 DEF Fresh
  <1>8. UNCHANGED <<sidecar, artifact, faults, writes, since, handoffs, prompts>>
    BY <1>1 DEF gateVars
  <1>9. GateInv'
    BY <1>1, <1>7, <1>8, IdleTyped, GateUnchanged, GateKept
  <1>10. CycleInv'
    BY <1>1, <1>3, <1>4, <1>7, <1>8, IdleTyped DEF CycleInv, AcceptedInItsCycle
  <1>11. JobInv'
    <2>1. RegTypeOK /\ Job \in Sups /\ Job \in Jobs
      BY <1>1, RegUnfolds DEF JobInv
    <2>2. Absent \in JobRecord /\ NoCall \in CallStates /\ NoCall.pc = "idle"
          /\ NoPrep \in [how: Bindings \cup {"none"}, stage: Stages]
      BY RunningTyped DEF NoCall, CallStates, NoPrep, Bindings, Stages
    <2>3. /\ rec' \in [Jobs -> JobRecord] /\ runner' \in [Jobs -> {"none", "queued", "live", "ended"}]
          /\ answer' \in [Jobs -> Results \cup {"none", "rejected"}] /\ answer'[Job] = "none"
          /\ port' \in [Sups -> {"none", "starting", "provisional", "active", "settled"}] /\ port'[Job] = "none"
      BY <1>2, <2>1, <2>2 DEF RegTypeOK
    <2>4. /\ prep' \in [Sups -> [how: Bindings \cup {"none"}, stage: Stages]] /\ prep'[Job] = NoPrep
          /\ call' \in [Callers -> CallStates] /\ \A c \in Callers : call'[c].pc = "idle"
      BY <1>2, <2>1, <2>2 DEF RegTypeOK
    <2>5. RegTypeOK'
      BY <1>1, <2>1, <2>3, <2>4 DEF RegTypeOK
    <2>6. LiveChildHasRunningJob'
      BY <2>3 DEF LiveChildHasRunningJob
    <2> QED
      BY <1>1, <1>7, <2>3, <2>4, <2>5, <2>6 DEF JobInv
  <1>12. Cadence' /\ TraceInv'
    BY <1>1, <1>7, TraceKept DEF Cadence, CadenceNeverStarves, NoReview
  <1> QED
    BY <1>5, <1>6, <1>7, <1>9, <1>10, <1>11, <1>12 DEF IInv, Fresh

-----------------------------------------------------------------------------
(* Reviews. *)

(* Only the cadence's timer may differ. *)
Ticked(s, t) ==
    /\ t.state = s.state /\ t.published = s.published /\ t.managed = s.managed /\ t.at = s.at
    /\ t.open = s.open /\ t.cycles = s.cycles /\ t.run = s.run /\ t.status = s.status
    /\ t.retired = s.retired /\ t.stopped = s.stopped

LEMMA TimerTicked ==
    ASSUME NEW s, SupInv(s), NEW b \in BOOLEAN, b = TRUE => s.published = TRUE /\ ~Over(s)
    PROVE  LET t == [s EXCEPT !.timer = b] IN SupInv(t) /\ Ticked(s, t) /\ t.timer = b
  <1> DEFINE t == [s EXCEPT !.timer = b]
  <1>0. IsSup(s)
    BY DEF SupInv
  <1>1. IsSup(t)
    BY <1>0 DEF IsSup, Fields
  <1>2. /\ t.state = s.state /\ t.bind = s.bind /\ t.published = s.published
        /\ t.retired = s.retired /\ t.stopped = s.stopped /\ t.managed = s.managed /\ t.at = s.at
        /\ t.moved = s.moved /\ t.ends = s.ends /\ t.gen = s.gen
        /\ t.status = s.status /\ t.run = s.run /\ t.timer = b
        /\ t.held = s.held /\ t.deliver = s.deliver /\ t.due = s.due /\ t.woken = s.woken
        /\ t.late = s.late /\ t.limited = s.limited /\ t.recorded = s.recorded
        /\ t.open = s.open /\ t.cycles = s.cycles
    BY <1>0, SupDomain DEF Fields
  <1> HIDE DEF t
  <1>3. Armed(t) /\ Reopened(t)
    BY <1>2 DEF SupInv, Armed, Reopened, Over, IsSettled
  <1>4. Tasks(t) /\ Binding(t)
    BY <1>2 DEF SupInv, Tasks, Binding, IsSettled
  <1>5. ~t.stopped => Sent(t)
    BY <1>2 DEF SupInv, Sent, Even, Waiting, Latched
  <1>6. SupInv(t)
    BY <1>1, <1>2, <1>3, <1>4, <1>5 DEF SupInv
  <1> QED
    BY <1>2, <1>6 DEF Ticked, t

LEMMA TickedSelf == ASSUME NEW s PROVE Ticked(s, s)
  BY DEF Ticked

LEMMA TickedJob ==
    ASSUME JobInv, Alive, UNCHANGED daemon, SupInv(sup'), Ticked(sup, sup'), Becomes(sup'), UNCHANGED regRest
    PROVE  JobInv'
  <1>1. Alive' /\ port' = [port EXCEPT ![Job] = sup'.state] /\ sup'.state = sup.state /\ IsSup(sup')
    BY DEF Alive, Becomes, Ticked, SupInv
  <1> QED
    BY <1>1, JobBecomes

LEMMA ReviewStep ==
    ASSUME IInv, Alive, UNCHANGED gateVars, UNCHANGED worldVars, UNCHANGED daemon, UNCHANGED <<trace, store>>,
           SupInv(sup'), Ticked(sup, sup'), JobInv', DaemonInv', Cadence'
    PROVE  IInv'
  <1>1. GateTypeOK /\ GateInv /\ CycleInv /\ WorldInv /\ TraceInv
    BY DEF IInv, GateInv
  <1>2. UNCHANGED <<sidecar, artifact, faults, writes, since, handoffs, prompts>>
    BY DEF gateVars
  <1>3. sup'.at = sup.at /\ sup'.managed = sup.managed /\ Cycled(sup, sup')
    BY DEF Ticked, Cycled
  <1>4. GateInv'
    BY <1>1, <1>2, <1>3, GateUnchanged, GateKept
  <1>5. CycleInv'
    BY <1>1, <1>2, <1>3, CycleKept
  <1>6. WorldInv' /\ TraceInv'
    BY <1>1, WorldUnchanged, TraceKept
  <1> QED
    BY <1>4, <1>5, <1>6 DEF IInv

LEMMA NoReviewTyped ==
    /\ NoReview.pc = "none" /\ NoReview.run = 0
    /\ NoReview \in [pc: {"none", "reading", "building", "judging", "storing"}, run: Nat, gen: Nat,
                     window: {NoReview.window}]
    /\ \A run \in Nat, gen \in Nat :
         LET r == [NoReview EXCEPT !.pc = "reading", !.run = run, !.gen = gen]
         IN /\ r \in [pc: {"none", "reading", "building", "judging", "storing"}, run: Nat, gen: Nat,
                      window: {r.window}]
            /\ r.pc = "reading" /\ r.run = run
  BY DEF NoReview

(* A review that is over leaves the cadence of its run armed. *)
LEMMA OverTicks ==
    ASSUME IInv, review.pc # "none", ReviewOver
    PROVE  SupInv(sup') /\ Ticked(sup, sup') /\ Becomes(sup') /\ Cadence' /\ review' = NoReview
  <1>1. SupInv(sup) /\ Cadence /\ sup.published = TRUE
    <2>1. SupInv(sup) /\ Cadence
      BY DEF IInv
    <2>2. sup.published \in BOOLEAN
      BY <2>1, SupFlags DEF SupInv
    <2> QED
      BY <2>1, <2>2 DEF Cadence
  <1>2. /\ review' = NoReview /\ Becomes(sup')
        /\ sup' = IF RunLive(sup) /\ sup.run = review.run THEN [sup EXCEPT !.timer = TRUE] ELSE sup
    BY DEF ReviewOver, Becomes
  <1>3. review'.pc = "none"
    BY <1>2, NoReviewTyped
  <1>4. CASE RunLive(sup) /\ sup.run = review.run
    <2>1. sup' = [sup EXCEPT !.timer = TRUE] /\ ~Over(sup)
      BY <1>2, <1>4 DEF RunLive
    <2>2. SupInv(sup') /\ Ticked(sup, sup') /\ sup'.timer = TRUE
      BY <1>1, <2>1, TimerTicked
    <2>3. Cadence'
      BY <1>3, <2>2 DEF Cadence, CadenceNeverStarves
    <2> QED
      BY <1>2, <2>2, <2>3
  <1>5. CASE ~(RunLive(sup) /\ sup.run = review.run)
    <2>1. sup' = sup
      BY <1>2, <1>5
    <2>2. SupInv(sup') /\ Ticked(sup, sup')
      BY <1>1, <2>1, TickedSelf
    <2>3. RunLive(sup) => sup.timer
      BY <1>1, <1>5 DEF Cadence, CadenceNeverStarves
    <2>4. Cadence'
      BY <1>3, <2>1, <2>3 DEF Cadence, CadenceNeverStarves
    <2> QED
      BY <1>2, <2>2, <2>4
  <1> QED
    BY <1>4, <1>5

(* A review that goes on is about the same run. *)
LEMMA AdvancesTicks ==
    ASSUME IInv, review.pc # "none", UNCHANGED <<sup, port>>, UNCHANGED regRest, UNCHANGED daemon, Alive,
           review'.pc # "none", review'.run = review.run
    PROVE  SupInv(sup') /\ Ticked(sup, sup') /\ JobInv' /\ Cadence'
  <1>1. SupInv(sup) /\ Cadence /\ JobInv
    BY DEF IInv
  <1>2. SupInv(sup') /\ Ticked(sup, sup') /\ UNCHANGED regVars /\ Alive' /\ sup'.state = sup.state
    BY <1>1, TickedSelf DEF regVars, regRest, Alive
  <1>3. JobInv'
    BY <1>1, <1>2, RegSame
  <1>4. review' # NoReview
    BY NoReviewTyped
  <1>5. CadenceNeverStarves'
    BY <1>1, <1>4 DEF Cadence, CadenceNeverStarves
  <1> QED
    BY <1>1, <1>2, <1>3, <1>5 DEF Cadence

EvidenceOf(e) ==
    /\ e \in [cursor: {e.cursor}, degraded: BOOLEAN, fails: 0..Threshold, announced: BOOLEAN,
              windows: {e.windows}, passed: {e.passed}]
    /\ e.announced => e.degraded
ReviewOf(r) ==
    r \in [pc: {"none", "reading", "building", "judging", "storing"}, run: Nat, gen: Nat, window: {r.window}]

LEMMA DaemonParts ==
    ASSUME DaemonInv
    PROVE  /\ EvidenceOf(evidence) /\ ReviewOf(review)
           /\ UNCHANGED daemon /\ EvidenceOf(evidence') /\ ReviewOf(review') => DaemonInv'
  BY DEF DaemonInv, ReviewRec, EvidenceRec, EvidenceOf, ReviewOf

LEMMA FailsTyped ==
    ASSUME NEW e, EvidenceOf(e)
    PROVE  /\ EvidenceOf([e EXCEPT !.degraded = TRUE, !.fails = IF @ < Threshold THEN @ + 1 ELSE @,
                                   !.announced = @ \/ e.fails + 1 >= Threshold])
           /\ EvidenceOf([e EXCEPT !.degraded = FALSE, !.fails = 0, !.announced = FALSE])
           /\ \A c, w, p : EvidenceOf([e EXCEPT !.cursor = c, !.windows = w, !.passed = p])
  <1> DEFINE f == IF e.fails < Threshold THEN e.fails + 1 ELSE e.fails
             a == e.announced \/ e.fails + 1 >= Threshold
  <1>1. e.fails \in 0..Threshold
    BY DEF EvidenceOf
  <1>2. f \in 0..Threshold /\ 0 \in 0..Threshold /\ a \in BOOLEAN
    BY <1>1, SupervisorAssumption
  <1>3. [e EXCEPT !.degraded = TRUE, !.fails = IF @ < Threshold THEN @ + 1 ELSE @,
                  !.announced = @ \/ e.fails + 1 >= Threshold]
          = [e EXCEPT !.degraded = TRUE, !.fails = f, !.announced = a]
    BY DEF EvidenceOf
  <1> HIDE DEF f, a
  <1>4. EvidenceOf([e EXCEPT !.degraded = TRUE, !.fails = f, !.announced = a])
    BY <1>2 DEF EvidenceOf
  <1>5. EvidenceOf([e EXCEPT !.degraded = FALSE, !.fails = 0, !.announced = FALSE])
    BY <1>2 DEF EvidenceOf
  <1>6. \A c, w, p : EvidenceOf([e EXCEPT !.cursor = c, !.windows = w, !.passed = p])
    BY DEF EvidenceOf
  <1> QED
    BY <1>3, <1>4, <1>5, <1>6

LEMMA CadenceFiresKeeps ==
    ASSUME IInv, CadenceFires PROVE IInv'
  <1> DEFINE held == review # NoReview \/ sup.moved # NoEvent \/ sup.paused
             b == held /\ RunLive(sup)
             starts == ~held /\ Reviewable(sup, sup.run, sup.gen)
             r == [NoReview EXCEPT !.pc = "reading", !.run = sup.run, !.gen = sup.gen]
  <1>1. /\ SupInv(sup) /\ IsSup(sup) /\ Alive /\ JobInv /\ DaemonInv /\ Cadence /\ sup.timer
        /\ UNCHANGED gateVars /\ UNCHANGED worldVars /\ UNCHANGED regRest /\ UNCHANGED daemon
        /\ UNCHANGED <<trace, store, evidence>>
        /\ Becomes([sup EXCEPT !.timer = b])
        /\ review' = IF starts THEN r ELSE review
    BY DEF IInv, SupInv, CadenceFires, evidenceVars
  <1>2. sup.published = TRUE /\ sup.run \in Nat /\ sup.gen \in Nat
    <2>1. sup.published \in BOOLEAN /\ sup.run \in Nat /\ sup.gen \in Nat
      BY <1>1, SupFlags, SupNumbers
    <2> QED
      BY <1>1, <2>1 DEF SupInv, Armed
  <1>3. RunLive(sup) => ~Over(sup)
    BY DEF RunLive
  <1>4. r.pc = "reading" /\ r.run = sup.run /\ ReviewOf(r) /\ r # NoReview
    <2>1. r.pc = "reading" /\ r.run = sup.run /\ ReviewOf(r)
      BY <1>2, NoReviewTyped DEF ReviewOf
    <2> QED
      BY <2>1, NoReviewTyped
  <1>5. (b \in BOOLEAN) /\ sup' = [sup EXCEPT !.timer = b] /\ Becomes(sup')
    BY <1>1 DEF Becomes
  <1>6. /\ b => RunLive(sup)
        /\ starts => RunLive(sup)
        /\ RunLive(sup) /\ ~b => starts
    BY DEF Reviewable
  <1> HIDE DEF b, starts, r
  <1>7. SupInv(sup') /\ Ticked(sup, sup') /\ sup'.timer = b
    BY <1>1, <1>2, <1>3, <1>5, <1>6, TimerTicked
  <1>8. JobInv'
    BY <1>1, <1>5, <1>7, TickedJob
  <1>9. DaemonInv'
    BY <1>1, <1>4, DaemonParts
  <1>10. Cadence'
    <2>1. sup'.published = sup.published /\ (RunLive(sup') <=> RunLive(sup)) /\ sup'.run = sup.run
      BY <1>7 DEF Ticked, RunLive, Over, IsSettled
    <2>2. sup'.published = TRUE
      BY <1>2, <2>1
    <2>3. CASE ~RunLive(sup)
      BY <2>1, <2>2, <2>3 DEF Cadence, CadenceNeverStarves
    <2>4. CASE b
      BY <1>7, <2>2, <2>4 DEF Cadence, CadenceNeverStarves
    <2>5. CASE RunLive(sup) /\ ~b
      <3>1. review' = r
        BY <1>1, <1>6, <2>5
      <3> QED
        BY <1>4, <2>1, <2>2, <3>1 DEF Cadence, CadenceNeverStarves
    <2> QED
      BY <2>3, <2>4, <2>5
  <1> QED
    BY <1>1, <1>7, <1>8, <1>9, <1>10, ReviewStep

(* A review that ends, however it does. *)
LEMMA OverStep ==
    ASSUME IInv, Alive, review.pc # "none", ReviewOver, EvidenceOf(evidence'),
           UNCHANGED gateVars, UNCHANGED worldVars, UNCHANGED regRest, UNCHANGED daemon, UNCHANGED <<trace, store>>
    PROVE  IInv'
  <1>1. SupInv(sup') /\ Ticked(sup, sup') /\ Becomes(sup') /\ Cadence' /\ review' = NoReview
    BY OverTicks
  <1>2. JobInv /\ DaemonInv
    BY DEF IInv
  <1>3. JobInv'
    BY <1>1, <1>2, TickedJob
  <1>4. DaemonInv'
    BY <1>1, <1>2, NoReviewTyped, DaemonParts DEF ReviewOf
  <1> QED
    BY <1>1, <1>3, <1>4, ReviewStep

(* A review that goes on. *)
LEMMA AdvanceStep ==
    ASSUME IInv, Alive, review.pc # "none", UNCHANGED <<sup, port>>, EvidenceOf(evidence'),
           ReviewOf(review'), review'.pc # "none", review'.run = review.run,
           UNCHANGED gateVars, UNCHANGED worldVars, UNCHANGED regRest, UNCHANGED daemon, UNCHANGED <<trace, store>>
    PROVE  IInv'
  <1>1. SupInv(sup') /\ Ticked(sup, sup') /\ JobInv' /\ Cadence'
    BY AdvancesTicks
  <1>2. DaemonInv'
    BY DaemonParts DEF IInv
  <1> QED
    BY <1>1, <1>2, ReviewStep

LEMMA ReviewEnds ==
    ASSUME EvidenceOf(evidence)
    PROVE  /\ ReviewerFails => ReviewOver /\ EvidenceOf(evidence')
           /\ ReviewCompletes => ReviewOver /\ EvidenceOf(evidence')
           /\ Consumes => EvidenceOf(evidence')
  <1>1. ReviewerFails => ReviewOver /\ EvidenceOf(evidence')
    <2>1. EvidenceOf([evidence EXCEPT !.degraded = TRUE, !.fails = IF @ < Threshold THEN @ + 1 ELSE @,
                                      !.announced = @ \/ evidence.fails + 1 >= Threshold])
      BY FailsTyped
    <2> QED
      BY <2>1, Zenon DEF ReviewerFails
  <1>2. ReviewCompletes => ReviewOver /\ EvidenceOf(evidence')
    <2>1. EvidenceOf([evidence EXCEPT !.degraded = FALSE, !.fails = 0, !.announced = FALSE])
      BY FailsTyped
    <2> QED
      BY <2>1, Zenon DEF ReviewCompletes
  <1>3. Consumes => EvidenceOf(evidence')
    <2> DEFINE c == review.window.to
               w == IF review.window.events = {} THEN evidence.windows
                    ELSE Append(evidence.windows, review.window.events)
               p == evidence.passed \cup review.window.skipped
    <2>1. Consumes => evidence' = [evidence EXCEPT !.cursor = c, !.windows = w, !.passed = p]
      BY DEF Consumes, EvidenceOf
    <2> HIDE DEF c, w, p
    <2>2. EvidenceOf([evidence EXCEPT !.cursor = c, !.windows = w, !.passed = p])
      BY FailsTyped
    <2> QED
      BY <2>1, <2>2, Zenon
  <1> QED
    BY <1>1, <1>2, <1>3

LEMMA AdvancesOn ==
    ASSUME DaemonInv, NEW pc \in {"building", "judging", "storing"}, Advances(pc)
    PROVE  UNCHANGED <<sup, port>> /\ ReviewOf(review') /\ review'.pc # "none" /\ review'.run = review.run
  <1>1. review' = [review EXCEPT !.pc = pc] /\ UNCHANGED <<sup, port>>
    BY DEF Advances
  <1>2. ReviewOf([review EXCEPT !.pc = pc]) /\ [review EXCEPT !.pc = pc].pc = pc
          /\ [review EXCEPT !.pc = pc].run = review.run
    BY DEF ReviewOf, DaemonInv, ReviewRec
  <1> QED
    BY <1>1, <1>2

LEMMA ReviewReadsKeeps ==
    ASSUME IInv, ReviewReads PROVE IInv'
  <1>1. /\ Alive /\ review.pc = "reading" /\ DaemonInv /\ EvidenceOf(evidence)
        /\ UNCHANGED gateVars /\ UNCHANGED worldVars /\ UNCHANGED regRest /\ UNCHANGED daemon
        /\ UNCHANGED <<trace, store>>
    BY DaemonParts DEF IInv, ReviewReads
  <1>2. CASE ReviewerFails
    BY <1>1, <1>2, ReviewEnds, OverStep
  <1>3. CASE /\ \E w : review' = [review EXCEPT !.pc = "building", !.window = w]
             /\ UNCHANGED <<sup, port, evidence>>
    <2>1. PICK w : review' = [review EXCEPT !.pc = "building", !.window = w]
      BY <1>3
    <2>2. ReviewOf(review') /\ review'.pc = "building" /\ review'.run = review.run
      BY <1>1, <2>1 DEF DaemonInv, ReviewRec, ReviewOf
    <2>3. EvidenceOf(evidence') /\ UNCHANGED <<sup, port>>
      BY <1>1, <1>3
    <2> QED
      BY <1>1, <2>2, <2>3, AdvanceStep
  <1> QED
    BY <1>2, <1>3 DEF ReviewReads

LEMMA ReviewBuildsKeeps ==
    ASSUME IInv, ReviewBuilds PROVE IInv'
  <1>1. /\ Alive /\ review.pc = "building" /\ DaemonInv /\ EvidenceOf(evidence)
        /\ UNCHANGED gateVars /\ UNCHANGED worldVars /\ UNCHANGED regRest /\ UNCHANGED daemon
        /\ UNCHANGED <<trace, store>>
        /\ ReviewDropped \/ EmitTier0Violations \/ EvidenceUnavailable \/ CallsReviewer
    BY DaemonParts DEF IInv, ReviewBuilds
  <1>2. CASE ReviewDropped \/ EvidenceUnavailable
    <2>1. ReviewOver /\ EvidenceOf(evidence')
      BY <1>1, <1>2 DEF ReviewDropped, EvidenceUnavailable
    <2> QED
      BY <1>1, <2>1, OverStep
  <1>3. CASE EmitTier0Violations \/ CallsReviewer
    <2>1. (Advances("storing") \/ Advances("judging")) /\ EvidenceOf(evidence')
      BY <1>1, <1>3, ReviewEnds DEF EmitTier0Violations, CallsReviewer
    <2>2. UNCHANGED <<sup, port>> /\ ReviewOf(review') /\ review'.pc # "none" /\ review'.run = review.run
      BY <1>1, <2>1, AdvancesOn
    <2> QED
      BY <1>1, <2>1, <2>2, AdvanceStep
  <1> QED
    BY <1>1, <1>2, <1>3

LEMMA ReviewJudgedKeeps ==
    ASSUME IInv, ReviewJudged PROVE IInv'
  <1>1. /\ Alive /\ review.pc = "judging" /\ DaemonInv /\ EvidenceOf(evidence)
        /\ UNCHANGED gateVars /\ UNCHANGED worldVars /\ UNCHANGED regRest /\ UNCHANGED daemon
        /\ UNCHANGED <<trace, store>>
        /\ ReviewDropped \/ ReviewerFailure \/ (Consumes /\ Advances("storing"))
    BY DaemonParts DEF IInv, ReviewJudged
  <1>2. CASE ReviewDropped \/ ReviewerFailure
    <2>1. ReviewOver /\ EvidenceOf(evidence')
      BY <1>1, <1>2 DEF ReviewDropped, ReviewerFailure
    <2> QED
      BY <1>1, <2>1, OverStep
  <1>3. CASE Consumes /\ Advances("storing")
    <2>1. EvidenceOf(evidence')
      BY <1>1, <1>3, ReviewEnds
    <2>2. UNCHANGED <<sup, port>> /\ ReviewOf(review') /\ review'.pc # "none" /\ review'.run = review.run
      BY <1>1, <1>3, AdvancesOn
    <2> QED
      BY <1>1, <2>1, <2>2, AdvanceStep
  <1> QED
    BY <1>1, <1>2, <1>3

LEMMA ReviewStoredKeeps ==
    ASSUME IInv, ReviewStored PROVE IInv'
  <1>1. /\ Alive /\ review.pc = "storing" /\ DaemonInv /\ EvidenceOf(evidence)
        /\ UNCHANGED gateVars /\ UNCHANGED worldVars /\ UNCHANGED regRest /\ UNCHANGED daemon
        /\ UNCHANGED <<trace, store>>
        /\ ReviewCompletes \/ ReviewerFails
    BY DaemonParts DEF IInv, ReviewStored, AppendFails
  <1>2. ReviewOver /\ EvidenceOf(evidence')
    BY <1>1, ReviewEnds
  <1> QED
    BY <1>1, <1>2, OverStep

-----------------------------------------------------------------------------
(* The trace and the store. *)

LEMMA AppendedTyped ==
    ASSUME TraceInv, trace.written < MaxRecords, NEW size \in Sizes, NEW kind \in Kinds,
           NEW at \in 0..MaxTicks, InOrder(at), trace' = Appended(size, kind, at), UNCHANGED store
    PROVE  TraceInv'
  <1> DEFINE e == [id |-> trace.written + 1, size |-> size, kind |-> kind, at |-> at]
             r == Append(trace.records, e)
             w == trace.written + 1
  <1>1. /\ trace \in TraceRec /\ trace.written \in 0..MaxRecords /\ trace.records \in Seq(Entry)
        /\ MaxRecords \in Nat /\ MaxTicks \in Nat /\ Slack \in Nat
    BY WindowAssumption, TraceAssumption DEF TraceInv, TraceRec
  <1>2. e \in Entry /\ w \in 0..MaxRecords
    BY <1>1 DEF Entry
  <1>3. e.at = at /\ at \in Nat
    BY <1>1
  <1>4. trace' = [trace EXCEPT !.tail = "none", !.written = w, !.records = r]
    BY <1>1 DEF Appended, TraceRec
  <1> HIDE DEF e, w
  <1>5. /\ r \in Seq(Entry) /\ Len(r) = Len(trace.records) + 1 /\ r[Len(trace.records) + 1] = e
        /\ \A i \in 1..Len(trace.records) : r[i] = trace.records[i]
    BY <1>1, <1>2
  <1> HIDE DEF r
  <1>6. trace' \in TraceRec /\ trace'.records = r /\ trace'.tail = "none"
    BY <1>1, <1>2, <1>4, <1>5 DEF TraceRec
  <1>7. Ordered(r)
    <2> SUFFICES ASSUME NEW i \in 1..Len(r), NEW j \in 1..Len(r), i < j, r[j].at # 0
                 PROVE  r[i].at < r[j].at + Slack
      BY DEF Ordered
    <2>0. Len(trace.records) \in Nat
      BY <1>1
    <2>1. i \in 1..Len(trace.records) /\ r[i] = trace.records[i]
      BY <1>5, <2>0
    <2>2. CASE j = Len(trace.records) + 1
      BY <1>3, <1>5, <2>1, <2>2 DEF InOrder
    <2>3. CASE j # Len(trace.records) + 1
      <3>1. j \in 1..Len(trace.records) /\ r[j] = trace.records[j]
        BY <1>5, <2>0, <2>3
      <3> QED
        BY <2>1, <3>1 DEF TraceInv, Ordered
    <2> QED
      BY <2>2, <2>3
  <1> QED
    BY <1>6, <1>7 DEF TraceInv, StoreTypeOK

LEMMA TraceGrowsTyped ==
    ASSUME TraceInv, TraceGrows PROVE TraceInv'
  <1>1. trace \in TraceRec /\ UNCHANGED store /\ 0 \in 0..MaxTicks
    BY TraceAssumption DEF TraceInv, TraceGrows
  <1>2. trace.tail \in {"none", "fits", "long"} /\ (trace.tail # "none" => trace.written < MaxRecords)
    BY <1>1 DEF TraceRec, TraceInv
  <1>3. ASSUME NEW size \in Sizes, NEW kind \in Kinds, NEW at \in 0..MaxTicks, WriteRecord(size, kind, at)
        PROVE  TraceInv'
    BY <1>1, <1>3, AppendedTyped DEF WriteRecord
  <1>4. ASSUME NEW size \in {"fits", "long"}, BeginRecord(size)
        PROVE  TraceInv'
    <2>1. trace' = [trace EXCEPT !.tail = size] /\ trace.written < MaxRecords
      BY <1>4 DEF BeginRecord
    <2>2. /\ trace' \in TraceRec /\ trace'.records = trace.records /\ trace'.written = trace.written
      BY <1>1, <2>1 DEF TraceRec
    <2> QED
      BY <1>1, <2>1, <2>2 DEF TraceInv, StoreTypeOK
  <1>5. CASE EndRecord("other")
    <2>1. trace.tail \in Sizes /\ "other" \in Kinds /\ InOrder(0) /\ trace.written < MaxRecords
      BY <1>2, <1>5 DEF EndRecord, Sizes, Kinds, InOrder
    <2>2. trace' = Appended(trace.tail, "other", 0)
      BY <1>5 DEF EndRecord
    <2> QED
      BY <1>1, <2>1, <2>2, AppendedTyped
  <1>6. CASE RewriteTrace
    <2>1. trace' = [trace EXCEPT !.records = <<>>, !.tail = "none"]
      BY <1>6 DEF RewriteTrace
    <2>4. <<>> \in Seq(Entry)
      OBVIOUS
    <2>2. trace' \in TraceRec /\ trace'.records = <<>> /\ trace'.tail = "none"
      BY <1>1, <2>1, <2>4 DEF TraceRec
    <2>3. Ordered(<<>>)
      BY DEF Ordered
    <2> QED
      BY <1>1, <2>2, <2>3 DEF TraceInv, StoreTypeOK
  <1> QED
    BY <1>1, <1>3, <1>4, <1>5, <1>6 DEF TraceGrows, Sizes, Kinds

LEMMA RestKept ==
    ASSUME IInv, UNCHANGED <<worldVars, gateVars, regVars, supVars, evidence>>, TraceInv'
    PROVE  IInv'
  <1>1. /\ UNCHANGED worldVars /\ UNCHANGED gateVars /\ UNCHANGED regVars
        /\ UNCHANGED <<sup, review, daemon, evidence>>
    BY DEF supVars
  <1>2. WorldInv' /\ DaemonInv'
    BY <1>1, WorldUnchanged, DaemonKept DEF IInv
  <1>3. GateInv' /\ CycleInv'
    BY <1>1 DEF IInv, GateInv, CycleInv, GateTypeOK, gateVars, Expected, Reading, ToAccept, ToRead, Prompted,
                ToPrompt, Alive, AcceptedInItsCycle
  <1>4. JobInv' /\ Cadence' /\ SupInv(sup')
    BY <1>1 DEF IInv, JobInv, RegTypeOK, regVars, LiveChildHasRunningJob, Alive, Cadence, CadenceNeverStarves
  <1> QED
    BY <1>2, <1>3, <1>4 DEF IInv

LEMMA TraceGrowsKeeps ==
    ASSUME IInv, TraceGrows PROVE IInv'
  <1>1. UNCHANGED <<worldVars, gateVars, regVars, supVars, evidence>>
    BY DEF TraceGrows
  <1>2. TraceInv'
    BY TraceGrowsTyped DEF IInv
  <1> QED
    BY <1>1, <1>2, RestKept

LEMMA StoreGrowsTyped ==
    ASSUME TraceInv, StoreGrows PROVE TraceInv'
  <1>1. /\ store \in [nodes: Seq(Node), head: Nat] /\ UNCHANGED trace
        /\ store.nodes \in Seq(Node) /\ store.head \in 0..Len(store.nodes) /\ Len(store.nodes) \in Nat
        /\ \A n \in 1..Len(store.nodes) : store.nodes[n].parent < n
        /\ MaxRecords \in Nat
    BY WindowAssumption DEF TraceInv, StoreTypeOK, StoreGrows
  <1>2. ASSUME store' \in [nodes: Seq(Node), head: Nat], store'.head \in 0..Len(store'.nodes),
               \A n \in 1..Len(store'.nodes) : store'.nodes[n].parent < n
        PROVE  TraceInv'
    BY <1>1, <1>2 DEF TraceInv, TraceRec, StoreTypeOK
  <1>3. ASSUME NEW parent \in 0..Len(store.nodes), NEW role \in Roles, NEW size \in {"fits", "long", "huge"},
               AddNode(parent, role, size)
        PROVE  TraceInv'
    <2> DEFINE e == [parent |-> parent, role |-> role, size |-> size, edition |-> 0]
               h == IF parent = store.head THEN Len(store.nodes) + 1 ELSE store.head
               ns == Append(store.nodes, e)
    <2>1. store' = [nodes |-> ns, head |-> h] /\ Len(store.nodes) < MaxRecords
      BY <1>3 DEF AddNode
    <2>2. e \in Node /\ e.parent = parent
      BY <1>1, <2>1 DEF Node
    <2>3. h \in 0..(Len(store.nodes) + 1)
      BY <1>1
    <2> HIDE DEF e, h
    <2>4. /\ ns \in Seq(Node) /\ Len(ns) = Len(store.nodes) + 1 /\ ns[Len(store.nodes) + 1] = e
          /\ \A i \in 1..Len(store.nodes) : ns[i] = store.nodes[i]
      BY <1>1, <2>2
    <2> HIDE DEF ns
    <2>5. \A n \in 1..Len(ns) : ns[n].parent < n
      <3> TAKE n \in 1..Len(ns)
      <3>1. CASE n = Len(store.nodes) + 1
        BY <1>1, <2>2, <2>4, <3>1
      <3>2. CASE n # Len(store.nodes) + 1
        <4>1. n \in 1..Len(store.nodes)
          BY <1>1, <2>4, <3>2
        <4> QED
          BY <1>1, <2>4, <4>1
      <3> QED
        BY <3>1, <3>2
    <2>6. store'.nodes = ns /\ store'.head = h /\ store' \in [nodes: Seq(Node), head: Nat]
      BY <1>1, <2>1, <2>3, <2>4
    <2>7. store'.head \in 0..Len(store'.nodes)
      BY <1>1, <2>3, <2>4, <2>6
    <2> QED
      BY <1>2, <2>5, <2>6, <2>7
  <1>4. CASE store.head # 0 /\ RevertHead(store.nodes[store.head].parent)
    <2> DEFINE p == store.nodes[store.head].parent
    <2>1. store' = [store EXCEPT !.head = p]
      BY <1>4 DEF RevertHead
    <2>2. store.head \in 1..Len(store.nodes)
      BY <1>1, <1>4
    <2>3. store.nodes[store.head] \in Node /\ p < store.head
      BY <1>1, <2>2
    <2>4. p \in 0..Len(store.nodes)
      BY <1>1, <2>2, <2>3 DEF Node
    <2> HIDE DEF p
    <2>5. store' \in [nodes: Seq(Node), head: Nat] /\ store'.nodes = store.nodes /\ store'.head = p
      BY <1>1, <2>1, <2>4
    <2> QED
      BY <1>1, <1>2, <2>4, <2>5
  <1>5. ASSUME NEW n \in 1..Len(store.nodes), EditNode(n)
        PROVE  TraceInv'
    <2> DEFINE e == [store.nodes[n] EXCEPT !.edition = 1]
               ns == [store.nodes EXCEPT ![n] = e]
    <2>1. store' = [store EXCEPT !.nodes = ns]
      BY <1>5 DEF EditNode
    <2>2. store.nodes[n] \in Node
      BY <1>1
    <2>3. e \in Node /\ e.parent = store.nodes[n].parent
      BY <2>2 DEF Node
    <2> HIDE DEF e
    <2>4. ns \in Seq(Node) /\ Len(ns) = Len(store.nodes)
      BY <1>1, <2>3
    <2>5. \A i \in 1..Len(ns) : ns[i].parent = store.nodes[i].parent
      BY <1>1, <2>3, <2>4
    <2> HIDE DEF ns
    <2>6. store' \in [nodes: Seq(Node), head: Nat] /\ store'.nodes = ns /\ store'.head = store.head
      BY <1>1, <2>1, <2>4
    <2>7. \A i \in 1..Len(ns) : ns[i].parent < i
      BY <1>1, <2>4, <2>5
    <2> QED
      BY <1>1, <1>2, <2>4, <2>6, <2>7
  <1>6. 0 \in 0..Len(store.nodes) /\ store.head \in 0..Len(store.nodes) /\ "user" \in Roles
    BY <1>1 DEF Roles
  <1> QED
    BY <1>3, <1>4, <1>5, <1>6 DEF StoreGrows

LEMMA StoreGrowsKeeps ==
    ASSUME IInv, StoreGrows PROVE IInv'
  <1>1. UNCHANGED <<worldVars, gateVars, regVars, supVars, evidence>>
    BY DEF StoreGrows
  <1>2. TraceInv'
    BY StoreGrowsTyped DEF IInv
  <1> QED
    BY <1>1, <1>2, RestKept

-----------------------------------------------------------------------------
(* The beginning. *)

LEMMA WorldStarts ==
    ASSUME NEW status \in Statuses, WorldInit(status) PROVE WorldInv /\ child.ends = 0
  <1>1. child \in Child /\ child.ends = 0
    <2>1. 1 \in Panes /\ 1 \in 1..(MaxTurns + 1) /\ "here" \in Theres
      BY ChildAssumption DEF Panes, Theres
    <2> QED
      BY <2>1 DEF WorldInit, Child
  <1>2. /\ log \in Seq(Event) /\ link \in [up: BOOLEAN, next: Nat, degraded: BOOLEAN] /\ link.next > 0
        /\ boot = NoSnapshot /\ periodic = NoSnapshot
        /\ spent \in [reads: Nat, drops: Nat, glitches: Nat, thin: Nat]
    BY DEF WorldInit
  <1> QED
    BY <1>1, <1>2 DEF WorldInv, WorldTypeOK

LEMMA GateStarts ==
    ASSUME GateInit, sup.at = Idle
    PROVE  /\ GateInv /\ since = [cycle |-> 0, boot |-> 0] /\ handoffs = {} /\ sidecar.sha = "none"
           /\ sidecar.life \in Lives
  <1>1. /\ sidecar \in SidecarRec /\ sidecar.sha = "none" /\ sidecar.version = 0 /\ sidecar.attempts = 0
        /\ sidecar.life \in Lives
    <2>1. 0 \in Versions /\ NoFence \in Versions \cup {NoFence} /\ 0 \in 0..MaxRepairs
      BY GateAssumption DEF Versions
    <2> QED
      BY <2>1 DEF GateInit, SidecarRec, Lives, Details
  <1>2. /\ artifact = "missing" /\ faults \in 0..MaxFaults /\ writes \in 0..MaxWrites /\ writes = 0
        /\ since = [cycle |-> 0, boot |-> 0] /\ since \in When /\ handoffs = {}
        /\ prompts \in [Versions -> Nat] /\ \A v \in Versions : prompts[v] = 0
    BY GateAssumption DEF GateInit, When
  <1>3. GateTypeOK
    BY <1>1, <1>2 DEF GateTypeOK, SidecarRec
  <1>4. ToAccept = 0 /\ ToRead = 0 /\ ToPrompt = 0 /\ sup.at.pc # "prompt"
    BY <1>1, <1>2, GateAssumption, IdleTyped DEF ToAccept, ToRead, ToPrompt, Expected, Reading, Idle
  <1>5. Prompted = {}
    BY <1>2 DEF Prompted
  <1>6. Cardinality(Prompted) = 0
    BY <1>5, FS_EmptySet
  <1> QED
    BY <1>1, <1>2, <1>3, <1>4, <1>6 DEF GateInv

LEMMA JobStarts ==
    ASSUME Init, NEW r \in JobRecord, rec = [j \in Jobs |-> r], NEW p \in {"starting", "active"},
           port = [j \in Sups |-> p], sup.state = p,
           p = "active" => r.phase = "running" /\ r.gate = TRUE /\ r.listed = TRUE
    PROVE  JobInv
  <1>1. /\ session = [gen |-> 0, accepting |-> TRUE]
        /\ asked = [j \in Jobs |-> 0]
        /\ answer = [j \in Jobs |-> "none"] /\ prep = [j \in Sups |-> NoPrep] /\ retired = {}
        /\ call = [c \in Callers |-> NoCall]
        /\ told = [j \in Jobs |-> 0] /\ posted = [j \in Jobs |-> 0]
        /\ runner = [j \in Jobs |-> "live"] /\ daemon.pc = "up"
    BY DEF Init
  <1>2. Job \in Sups /\ Job \in Jobs
    BY SupervisorAssumption DEF Jobs
  <1>3. /\ NoCall \in CallStates /\ NoCall.pc = "idle"
        /\ NoPrep \in [how: Bindings \cup {"none"}, stage: Stages]
        /\ 0 \in 0..MaxSessions /\ 0 \in 0..NoGeneration
    BY JobsAssumption DEF NoCall, CallStates, NoPrep, Bindings, Stages, NoGeneration
  <1>4. /\ session \in [gen: 0..MaxSessions, accepting: BOOLEAN]
        /\ asked \in [Jobs -> 0..NoGeneration]
        /\ rec \in [Jobs -> JobRecord]
        /\ runner \in [Jobs -> {"none", "queued", "live", "ended"}]
        /\ answer \in [Jobs -> Results \cup {"none", "rejected"}]
    BY <1>1, <1>3
  <1>5. /\ port \in [Sups -> {"none", "starting", "provisional", "active", "settled"}]
        /\ prep \in [Sups -> [how: Bindings \cup {"none"}, stage: Stages]]
        /\ retired \subseteq Sups
        /\ call \in [Callers -> CallStates]
        /\ told \in [Jobs -> Nat]
        /\ posted \in [Jobs -> Nat]
    BY <1>1, <1>3
  <1>6. RegTypeOK
    BY <1>4, <1>5 DEF RegTypeOK
  <1>7. /\ port[Job] = p /\ rec[Job] = r /\ answer[Job] = "none" /\ prep[Job] = NoPrep
        /\ \A c \in Callers : call[c].pc = "idle"
    BY <1>1, <1>2, <1>3
  <1>8. Alive
    BY <1>1 DEF Alive
  <1> QED
    BY <1>6, <1>7, <1>8 DEF JobInv, LiveChildHasRunningJob

LEMMA EvidenceStarts ==
    ASSUME Init PROVE TraceInv /\ DaemonInv
  <1>1. PICK source \in Sources : TraceInit(source) /\ StoreInit
    BY DEF Init, Sources
  <1>2. /\ review = NoReview /\ evidence = FreshEvidence
        /\ daemon \in [pc: {"up", "flushing", "stopping", "down"}, boot: Nat]
    BY DEF Init
  <1>3. TraceInv
    <2>1. trace \in TraceRec /\ trace.records = <<>> /\ trace.tail = "none"
      BY <1>1, WindowAssumption DEF TraceInit, TraceRec
    <2>2. store \in [nodes: Seq(Node), head: Nat] /\ store.nodes = <<>> /\ store.head = 0
      BY <1>1 DEF StoreInit
    <2>3. Ordered(<<>>) /\ StoreTypeOK
      BY <2>2 DEF Ordered, StoreTypeOK
    <2> QED
      BY <2>1, <2>2, <2>3 DEF TraceInv
  <1>4. EvidenceOf(FreshEvidence)
    BY SupervisorAssumption DEF EvidenceOf, FreshEvidence
  <1>5. ReviewOf(NoReview)
    BY NoReviewTyped DEF ReviewOf
  <1> QED
    BY <1>2, <1>3, <1>4, <1>5 DEF DaemonInv, EvidenceOf, ReviewOf, EvidenceRec, ReviewRec

LEMMA ReservedPane ==
    ASSUME NEW p \in 0..MaxPanes
    PROVE  Fresh([Reserved EXCEPT !.pane = p]) /\ [Reserved EXCEPT !.pane = p].bind = "no"
  <1> DEFINE x == Reserved
  <1>1. Fresh([x EXCEPT !.cycles = 0, !.pane = p])
    BY ReservedFresh
  <1>2. DOMAIN x = Fields /\ x = [i \in Fields |-> x[i]]
    BY ReservedTyped, SupDomain DEF Reserved
  <1>3. x.cycles = 0 /\ x.bind = "no"
    BY DEF Reserved
  <1> HIDE DEF x
  <1>4. [x EXCEPT !.cycles = 0] = x
    BY <1>2, <1>3
  <1>5. [x EXCEPT !.cycles = 0, !.pane = p] = [[x EXCEPT !.cycles = 0] EXCEPT !.pane = p]
    OBVIOUS
  <1>6. [x EXCEPT !.cycles = 0, !.pane = p] = [x EXCEPT !.pane = p]
    BY <1>4, <1>5
  <1>7. [x EXCEPT !.pane = p].bind = x.bind
    BY <1>2 DEF Fields
  <1> QED
    BY <1>1, <1>3, <1>6, <1>7 DEF x

LEMMA ReservedItself == Fresh(Reserved)
  <1> DEFINE x == Reserved
  <1>1. Fresh([x EXCEPT !.pane = 0])
    BY ReservedPane, PanesTyped
  <1>2. DOMAIN x = Fields /\ x = [i \in Fields |-> x[i]]
    BY ReservedTyped, SupDomain DEF Reserved
  <1>3. x.pane = 0
    BY DEF Reserved
  <1> HIDE DEF x
  <1>4. [x EXCEPT !.pane = 0] = x
    BY <1>2, <1>3
  <1> QED
    BY <1>1, <1>4 DEF x

LEMMA InitHolds == ASSUME Init PROVE IInv
  <1> DEFINE s == [Reserved EXCEPT !.pane = 1]
             m == IF "managed" \in cast THEN Mirrored(s, sidecar) ELSE s
             e == [Running EXCEPT !.stage = "exact"]
  <1>1. PICK status \in Statuses : WorldInit(status)
    BY ChildAssumption DEF Init
  <1>2. WorldInv /\ child.ends = 0 /\ WorldTypeOK
    BY <1>1, WorldStarts DEF WorldInv
  <1>3. TraceInv /\ DaemonInv
    BY EvidenceStarts
  <1>4. GateInit /\ review = NoReview /\ daemon.boot = 0
    BY DEF Init
  <1>5. review.pc = "none"
    BY <1>4, NoReviewTyped
  <1>6. ASSUME SupInv(sup), sup.at = Idle, sup.published /\ RunLive(sup) => sup.timer, JobInv PROVE IInv
    <2>1. GateInv /\ since = [cycle |-> 0, boot |-> 0] /\ handoffs = {} /\ sidecar.sha = "none"
      BY <1>4, <1>6, GateStarts
    <2>2. since.boot = 0
      BY <2>1
    <2>3. CycleInv
      BY <1>4, <1>6, <2>1, <2>2, IdleTyped DEF CycleInv, AcceptedInItsCycle
    <2>4. Cadence
      BY <1>5, <1>6 DEF Cadence, CadenceNeverStarves
    <2> QED
      BY <1>2, <1>3, <1>6, <2>1, <2>3, <2>4 DEF IInv
  <1>7. CASE "binding" \in cast
    <2>1. sup = Reserved /\ rec = [j \in Jobs |-> Running] /\ port = [j \in Sups |-> "starting"]
      BY <1>7 DEF Init
    <2>2. Fresh(sup)
      BY <2>1, ReservedItself
    <2>3. SupInv(sup) /\ sup.at = Idle /\ sup.published = FALSE /\ sup.state = "starting"
      BY <2>2 DEF Fresh
    <2>4. JobInv
      BY <2>1, <2>3, RunningTyped, JobStarts
    <2> QED
      BY <1>6, <2>3, <2>4
  <1>8. CASE "binding" \notin cast
    <2>1. /\ sup = Published(Anchored(m, Snap(TRUE)), FALSE)
          /\ rec = [j \in Jobs |-> e] /\ port = [j \in Sups |-> "active"]
      BY <1>8 DEF Init
    <2>2. Fresh(s) /\ s.bind = "no"
      BY ReservedPane, PanesTyped
    <2>3. /\ Snap(TRUE) \in Snapshot /\ child.ends \in Nat /\ sidecar.life \in Lives
          /\ sidecar.sha \in Contents \cup {"none"}
      <3>1. sidecar.life = "awaiting_handoff" /\ sidecar.sha = "none"
        BY <1>4 DEF GateInit
      <3>2. Snap(TRUE) \in Snapshot
        BY <1>2, SnapTyped
      <3>3. child.ends \in Nat
        BY <1>2
      <3> QED
        BY <3>1, <3>2, <3>3 DEF Lives
    <2> HIDE DEF s
    <2>4. /\ Watching(Published(Anchored(Mirrored(s, sidecar), Snap(TRUE)), FALSE))
          /\ Watching(Published(Anchored(s, Snap(TRUE)), FALSE))
      BY <2>2, <2>3, PublishedAtOnce
    <2>5. Watching(sup)
      BY <2>1, <2>4, Zenon
    <2>6. /\ SupInv(sup) /\ sup.at = Idle /\ sup.state = "active"
          /\ sup.published /\ RunLive(sup) => sup.timer
      BY <2>5 DEF Watching
    <2>7. e \in JobRecord /\ e.phase = "running" /\ e.gate = TRUE /\ e.listed = TRUE
      BY RunningTyped
    <2> HIDE DEF e
    <2>8. JobInv
      BY <2>1, <2>6, <2>7, JobStarts
    <2> QED
      BY <1>6, <2>6, <2>8
  <1> QED
    BY <1>7, <1>8

(* A step under which the evidence of reviews stays what it was. *)
LEMMA WatchKeeps ==
    ASSUME IInv, UNCHANGED evidenceVars,
           \/ World \/ ChildArtifact
           \/ DeliverEvent \/ AdmitEvent \/ AnnounceBootstrap \/ ResubscribeFails
           \/ DispatchPeriodic \/ PeriodicReadFails \/ MoveRead \/ CloseConsumed
           \/ OnCompletionSignal \/ TakeCompletion \/ SignalAnswers \/ LimitMarked \/ RetryFires
    PROVE  IInv'
  BY WorldKeeps, ChildArtifactKeeps, DeliverKeeps, AdmitKeeps, BootstrapKeeps, ResubscribeFailsKeeps,
     PeriodicKeeps, PeriodicFailsKeeps, MoveReadKeeps, CloseConsumedKeeps, OnSignalKeeps,
     TakeCompletionKeeps, SignalKeeps, LimitMarkedKeeps, RetryKeeps

LEMMA RunKeeps ==
    ASSUME IInv, UNCHANGED evidenceVars,
           \/ TakeHandoff \/ ReadArtifact \/ AcceptArtifact \/ RecordOutcome
           \/ BeginRepair \/ SendRepair \/ ReopenedMarked
           \/ BindStarts \/ BindAnchors \/ DrainAdmitted \/ BindCommits \/ BindRefused
           \/ ReleaseReservation \/ JobSteps
           \/ StopBegins \/ FlushHandoffs \/ StopSupervisors \/ Reattach \/ ReattachRefused
    PROVE  IInv'
  BY TakeHandoffKeeps, ReadArtifactKeeps, AcceptKeeps, RecordKeeps, BeginRepairKeeps, SendRepairKeeps,
     ReopenedKeeps, BindStartsKeeps, BindAnchorsKeeps, DrainKeeps, BindCommitsKeeps, BindRefusedKeeps,
     ReleaseKeeps, JobStepsKeeps, StopBeginsKeeps, FlushHandoffsKeeps, StopSupervisorsKeeps,
     ReattachKeeps, ReattachRefusedKeeps

LEMMA NextHolds == ASSUME IInv, [Next]_vars PROVE IInv'
  <1>1. CASE UNCHANGED vars
    <2>1. UNCHANGED <<worldVars, gateVars, regVars, supVars, evidence>> /\ UNCHANGED <<trace, store>>
      BY <1>1 DEF vars, evidenceVars
    <2>2. TraceInv'
      BY <2>1, TraceKept DEF IInv
    <2> QED
      BY <2>1, <2>2, RestKept
  <1>2. CASE Next
    <2>1. CASE CadenceFires \/ ReviewReads \/ ReviewBuilds \/ ReviewJudged \/ ReviewStored
               \/ TraceGrows \/ StoreGrows \/ Exit
      BY <2>1, CadenceFiresKeeps, ReviewReadsKeeps, ReviewBuildsKeeps, ReviewJudgedKeeps,
         ReviewStoredKeeps, TraceGrowsKeeps, StoreGrowsKeeps, ExitKeeps
    <2> QED
      BY <1>2, <2>1, WatchKeeps, RunKeeps DEF Next
  <1> QED
    BY <1>1, <1>2

(* IInv is inductive: a supervisor, its job, its run's gate and its reviews   *)
(* keep together whatever comes between two steps of any of them.             *)
THEOREM Invariance == Spec => []IInv
  <1>1. Init => IInv
    BY InitHolds
  <1>2. IInv /\ [Next]_vars => IInv'
    BY NextHolds
  <1> QED
    BY <1>1, <1>2, PTL DEF Spec

(* Every variable keeps to its type: at no time is a timer armed before the   *)
(* child is published, a move retained without its endpoints, or a degraded   *)
(* reviewer announced that is not degraded.                                   *)
THEOREM TypeCorrectness == Spec => []TypeOK
  <1>1. IInv => TypeOK
    <2> SUFFICES ASSUME IInv PROVE TypeOK
      OBVIOUS
    <2>1. WorldTypeOK /\ GateTypeOK /\ RegTypeOK /\ StoreTypeOK
      BY DEF IInv, WorldInv, GateInv, JobInv, TraceInv
    <2>2. TraceTypeOK
      BY DEF IInv, TraceInv, TraceRec, TraceTypeOK
    <2>3. SupTypeOK
      <3>1. SupInv(sup) /\ IsSup(sup) /\ DaemonInv
        BY DEF IInv, SupInv
      <3>2. /\ sup.state \in {"starting", "active", "settled"}
            /\ sup.bind \in {"no", "reading", "drain", "done", "failed"}
            /\ sup.pane \in 0..MaxPanes /\ sup.outcome \in Outcomes
            /\ sup.todo \in Seq({"completion", "handoff"}) /\ sup.at \in AtRec
        BY <3>1 DEF IsSup
      <3>3. \A i \in 1..Len(sup.todo) : sup.todo[i] \in {"completion", "handoff"}
        BY <3>2
      <3>4. sup.at.pc \in {"none", "move", "consume", "leave", "signal", "limit", "validate",
                           "accept", "record", "repair", "prompt"}
        BY <3>2 DEF AtRec
      <3>5. /\ sup.moved = NoEvent <=> sup.ends = <<>>
            /\ sup.bind = "done" /\ ~sup.published => sup.state # "active"
            /\ sup.timer => sup.published /\ (Over(sup) => sup.stopped /\ sup.gen > 0)
        BY <3>1 DEF SupInv, Binding, Armed
      <3>6. /\ review.pc \in {"none", "reading", "building", "judging", "storing"}
            /\ evidence.fails \in 0..Threshold
            /\ evidence.announced => evidence.degraded
        BY <3>1 DEF DaemonInv, ReviewRec, EvidenceRec
      <3> QED
        BY <3>2, <3>3, <3>4, <3>5, <3>6 DEF SupTypeOK
    <2> QED
      BY <2>1, <2>2, <2>3 DEF TypeOK
  <1> QED
    BY <1>1, Invariance, PTL

(* One repair prompt for an artifact version, and no more of them than the    *)
(* run allows: the fence beginRepair writes is durable before the prompt is   *)
(* sent, so neither a crash between the two nor a failed write that landed    *)
(* makes a second one.                                                        *)
THEOREM RepairsAreFenced == Spec => []RepairPerVersion
  <1>1. IInv => RepairPerVersion
    <2> SUFFICES ASSUME IInv PROVE RepairPerVersion
      OBVIOUS
    <2>1. /\ GateTypeOK /\ (\A v \in Versions : prompts[v] <= 1)
          /\ Cardinality(Prompted) + ToPrompt <= sidecar.attempts
      BY DEF IInv, GateInv
    <2>2. sidecar.attempts \in 0..MaxRepairs /\ MaxRepairs \in Nat
      BY <2>1, GateAssumption DEF GateTypeOK
    <2>3. ToPrompt \in {0, 1} /\ Cardinality(Prompted) \in Nat
      BY CardTyped DEF ToPrompt
    <2>4. Cardinality(Prompted) <= MaxRepairs
      BY <2>1, <2>2, <2>3
    <2> QED
      BY <2>1, <2>4 DEF RepairPerVersion, Prompted
  <1> QED
    BY <1>1, Invariance, PTL

(* Every verdict of a cycle that ended was sent, or is the one that waits for *)
(* the provider's log: a hand-off, a move or a settlement in between loses    *)
(* none and sends none twice.  What else woke the manager is a limit that     *)
(* came late, and each cycle has at most one limit: it is latched until the   *)
(* child works again.                                                         *)
THEOREM VerdictsArrive == Spec => []VerdictsReachTheManager
  <1>1. IInv => VerdictsReachTheManager
    BY DEF IInv, SupInv, Sent, Even, Waiting, Latched, VerdictsReachTheManager
  <1> QED
    BY <1>1, Invariance, PTL

(* A run is handed off in the cycle whose artifact it accepted, as long as    *)
(* one daemon sees both: a child that went back to work between the read of   *)
(* the artifact and the record of the outcome opened a new cycle.             *)
THEOREM AcceptanceIsCurrent == Spec => []AcceptedInItsCycle
  <1>1. IInv => AcceptedInItsCycle
    BY DEF IInv, CycleInv
  <1> QED
    BY <1>1, Invariance, PTL

(* A child that is watched belongs to a job that runs, whichever of           *)
(* commitBinding and a cancellation the lock served first.                    *)
THEOREM NoOrphan == Spec => []LiveChildHasRunningJob
  <1>1. IInv => LiveChildHasRunningJob
    BY DEF IInv, JobInv
  <1> QED
    BY <1>1, Invariance, PTL

(* A child that works is on its way to a review: the cadence is armed, or the *)
(* review under way is of this run and its end will arm it.                   *)
THEOREM CadenceGoesOn == Spec => []CadenceNeverStarves
  <1>1. IInv => CadenceNeverStarves
    BY DEF IInv, Cadence
  <1> QED
    BY <1>1, Invariance, PTL

-----------------------------------------------------------------------------
(* The tail scan. *)

LEMMA GreatestThere ==
    ASSUME NEW n \in Nat, NEW S, S \subseteq 1..n, S # {}
    PROVE  \E i \in S : \A j \in S : j <= i
  <1> DEFINE T == {m \in Nat : \A j \in S : j <= m}
  <1>1. n \in T
    OBVIOUS
  <1>2. PICK m \in T : \A k \in T : ~(<<k, m>> \in OpToRel(<, Nat))
    <2>1. IsWellFoundedOn(OpToRel(<, Nat), Nat)
      BY NatLessThanWellFounded
    <2> QED
      BY <1>1, <2>1, WFMin
  <1>3. \A k \in T : ~(k < m)
    BY <1>2 DEF OpToRel
  <1>4. m \in S
    <2> SUFFICES ASSUME m \notin S PROVE FALSE
      OBVIOUS
    <2>1. PICK j \in S : TRUE
      OBVIOUS
    <2>2. m >= 1
      BY <2>1
    <2>3. m - 1 \in T
      BY <2>2
    <2> QED
      BY <1>3, <2>3
  <1> QED
    BY <1>4

LEMMA EntryTime == ASSUME NEW e \in Entry PROVE e.at \in Nat
  <1>1. e.at \in 0..MaxTicks /\ MaxTicks \in Nat
    BY TraceAssumption DEF Entry
  <1> QED
    BY <1>1

(* The newest record that decides is not older than a follow-up by the slack. *)
LEMMA ScanFinds ==
    ASSUME NEW s \in Seq(Entry), Ordered(s), NEW anchor \in Nat, NEW i \in 1..Len(s),
           IsFollowUp(s[i], anchor)
    PROVE  ScanBackwards(s, anchor) \in {"ambiguous", "user_turn"}
  <1> DEFINE decides == {k \in 1..Len(s) : Unplaced(s[k], anchor) \/ IsFollowUp(s[k], anchor)
                                             \/ Precedes(s[k], anchor)}
             newest == CHOOSE k \in decides : \A j \in decides : j <= k
  <1>1. i \in decides /\ Len(s) \in Nat
    OBVIOUS
  <1>2. decides \subseteq 1..Len(s) /\ decides # {}
    BY <1>1
  <1>3. newest \in decides /\ \A j \in decides : j <= newest
    <2> HIDE DEF decides
    <2> QED
      BY <1>1, <1>2, GreatestThere
  <1>4. ScanBackwards(s, anchor) = IF Unplaced(s[newest], anchor) THEN "ambiguous"
                                   ELSE IF IsFollowUp(s[newest], anchor) THEN "user_turn" ELSE "reached_slack"
    <2>1. decides # {}
      BY <1>2
    <2> QED
      BY <2>1 DEF ScanBackwards
  <1>5. /\ newest \in 1..Len(s) /\ i <= newest
        /\ Unplaced(s[newest], anchor) \/ IsFollowUp(s[newest], anchor) \/ Precedes(s[newest], anchor)
    BY <1>1, <1>3
  <1> HIDE DEF decides, newest
  <1>6. /\ s[i] \in Entry /\ s[newest] \in Entry /\ s[i].at \in Nat /\ s[newest].at \in Nat /\ Slack \in Nat \ {0}
    <2>1. s[i] \in Entry /\ s[newest] \in Entry
      BY <1>5
    <2> QED
      BY <2>1, EntryTime, TraceAssumption
  <1>7. ~Precedes(s[newest], anchor)
    <2> SUFFICES ASSUME Precedes(s[newest], anchor) PROVE FALSE
      OBVIOUS
    <2>1. s[newest].at # 0 /\ s[newest].at + Slack <= anchor /\ s[i].at >= anchor
      BY DEF Precedes, IsFollowUp
    <2>2. CASE i = newest
      BY <1>6, <2>1, <2>2
    <2>3. CASE i < newest
      <3>1. s[i].at < s[newest].at + Slack
        BY <1>5, <2>1, <2>3 DEF Ordered
      <3> QED
        BY <1>6, <2>1, <3>1
    <2> QED
      BY <1>1, <1>5, <2>2, <2>3
  <1> QED
    BY <1>4, <1>5, <1>7

(* A follow-up that lies before what was read keeps the scan from its slack. *)
LEMMA TailFinds ==
    ASSUME NEW s \in Seq(Entry), NEW anchor \in Nat, NEW e, IsFollowUp(e, anchor), e.at \in Nat,
           \A k \in 1..Len(s) : s[k].at # 0 => e.at < s[k].at + Slack
    PROVE  ScanBackwards(s, anchor) \in {"none", "ambiguous", "user_turn"}
  <1> DEFINE decides == {k \in 1..Len(s) : Unplaced(s[k], anchor) \/ IsFollowUp(s[k], anchor)
                                             \/ Precedes(s[k], anchor)}
             newest == CHOOSE k \in decides : \A j \in decides : j <= k
  <1>1. CASE decides = {}
    BY <1>1 DEF ScanBackwards
  <1>2. CASE decides # {}
    <2>1. decides \subseteq 1..Len(s) /\ Len(s) \in Nat
      OBVIOUS
    <2>2. newest \in decides
      <3> HIDE DEF decides
      <3> QED
        BY <1>2, <2>1, GreatestThere
    <2>3. ScanBackwards(s, anchor) = IF Unplaced(s[newest], anchor) THEN "ambiguous"
                                     ELSE IF IsFollowUp(s[newest], anchor) THEN "user_turn" ELSE "reached_slack"
      BY <1>2 DEF ScanBackwards
    <2>4. /\ newest \in 1..Len(s)
          /\ Unplaced(s[newest], anchor) \/ IsFollowUp(s[newest], anchor) \/ Precedes(s[newest], anchor)
      BY <2>2
    <2> HIDE DEF decides, newest
    <2>5. s[newest].at \in Nat /\ Slack \in Nat
      <3>1. s[newest] \in Entry
        BY <2>4
      <3> QED
        BY <3>1, EntryTime, TraceAssumption
    <2>6. ~Precedes(s[newest], anchor)
      BY <2>4, <2>5 DEF Precedes, IsFollowUp
    <2> QED
      BY <2>3, <2>4, <2>6
  <1> QED
    BY <1>1, <1>2

LEMMA LatestTail ==
    ASSUME NEW s \in Seq(Entry), NEW n \in Nat \ {0}, Len(s) > n
    PROVE  LET t == Tail(Latest(n, s)) IN
           /\ t \in Seq(Entry)
           /\ Len(t) = n - 1
           /\ \A k \in 1..Len(t) : t[k] = s[k + Len(s) - n + 1]
  <1> DEFINE f == Len(s) - n + 1
             l == SubSeq(s, f, Len(s))
             t == Tail(l)
  <1>1. Len(s) \in Nat /\ f \in 1..Len(s) /\ Latest(n, s) = l
    BY DEF Latest
  <1>2. l \in Seq(Entry) /\ Len(l) = n /\ \A k \in 1..n : l[k] = s[f + k - 1]
    <2>1. \A k \in f..Len(s) : s[k] \in Entry
      BY <1>1
    <2>2. /\ l \in Seq(Entry)
          /\ Len(l) = Len(s) - f + 1
          /\ \A k \in 1..(Len(s) - f + 1) : l[k] = s[f + k - 1]
      <3> HIDE DEF f
      <3> QED
        BY <1>1
    <2>3. Len(s) - f + 1 = n
      BY <1>1
    <2> QED
      BY <2>2, <2>3
  <1> HIDE DEF l
  <1>3. t \in Seq(Entry) /\ Len(t) = n - 1 /\ \A k \in 1..(n - 1) : t[k] = l[k + 1]
    BY <1>2
  <1> HIDE DEF t
  <1>4. \A k \in 1..Len(t) : t[k] = s[k + Len(s) - n + 1]
    <2> TAKE k \in 1..Len(t)
    <2>3. Len(s) \in Nat /\ k \in 1..(n - 1)
      BY <1>1, <1>3
    <2>1. k \in 1..(n - 1) /\ k + 1 \in 1..n /\ f + (k + 1) - 1 = k + Len(s) - n + 1
      BY <2>3
    <2>2. t[k] = l[k + 1] /\ l[k + 1] = s[f + (k + 1) - 1]
      BY <1>2, <1>3, <2>1
    <2> QED
      BY <2>1, <2>2
  <1> QED
    BY <1>1, <1>3, <1>4 DEF t

(* Whatever part of a log was read, a follow-up in it is not passed by.       *)
LEMMA TailIsSound ==
    ASSUME TraceInv PROVE TailScanIsSound
  <1> SUFFICES ASSUME NEW i \in 1..Len(trace.records), NEW anchor \in 1..MaxTicks,
                      IsFollowUp(trace.records[i], anchor), NEW history
               PROVE  TailScan(anchor, history) # "none"
    BY DEF TailScanIsSound
  <1> DEFINE s == trace.records
  <1>1. s \in Seq(Entry) /\ Ordered(s) /\ Len(s) \in Nat
    BY DEF TraceInv, TraceRec
  <1>0. \A m \in Nat, n \in Nat \ {0} : m > n =>
          /\ \A k \in 1..(n - 1) : k + m - n + 1 \in 1..m
          /\ \A j \in 1..m : j > m - n + 1 =>
                j - (m - n + 1) \in 1..(n - 1) /\ (j - (m - n + 1)) + m - n + 1 = j
    OBVIOUS
  <1>2. anchor \in Nat /\ Budget \in Nat \ {0} /\ Slack \in Nat
    BY TraceAssumption
  <1>3. ScanBackwards(s, anchor) \in {"ambiguous", "user_turn"}
    BY <1>1, <1>2, ScanFinds
  <1>4. ScanDevin(anchor, history) # "none"
    BY <1>3 DEF ScanDevin
  <1>5. ScanJsonl(anchor, history) # "none"
    <2>1. CASE Len(s) > Budget
      <3> DEFINE t == Tail(Latest(Budget, s))
      <3>1. t \in Seq(Entry) /\ Len(t) = Budget - 1 /\ \A k \in 1..Len(t) : t[k] = s[k + Len(s) - Budget + 1]
        BY <1>1, <1>2, <2>1, LatestTail
      <3>2. ScanJsonl(anchor, history) =
              IF ~Extends(history) THEN "source_rewritten"
              ELSE IF trace.tail # "none" THEN "pending_tail"
              ELSE IF Malformed(t) THEN "source_malformed"
              ELSE IF ScanBackwards(t, anchor) = "reached_slack" THEN "none"
              ELSE IF ScanBackwards(t, anchor) = "none" THEN "ambiguous" ELSE ScanBackwards(t, anchor)
        BY <2>1 DEF ScanJsonl
      <3> HIDE DEF t
      <3>3. s[i] \in Entry /\ s[i].at \in Nat
        BY <1>1, EntryTime
      <3>4. ScanBackwards(t, anchor) \in {"none", "ambiguous", "user_turn"}
        <4>1. CASE i <= Len(s) - Budget + 1
          <5>1. ASSUME NEW k \in 1..Len(t), t[k].at # 0 PROVE s[i].at < t[k].at + Slack
            <6> DEFINE j == k + Len(s) - Budget + 1
            <6>0. Len(s) \in Nat /\ Len(t) = Budget - 1 /\ Budget \in Nat \ {0} /\ Len(s) > Budget
              BY <1>1, <1>2, <2>1, <3>1
            <6>1. j \in 1..Len(s) /\ i < j
              BY <1>0, <4>1, <6>0
            <6>2. t[k] = s[j]
              BY <3>1
            <6> HIDE DEF j
            <6> QED
              BY <1>1, <5>1, <6>1, <6>2 DEF Ordered
          <5> QED
            BY <1>2, <3>1, <3>3, <5>1, TailFinds
        <4>2. CASE i > Len(s) - Budget + 1
          <5> DEFINE k == i - (Len(s) - Budget + 1)
          <5>0. Len(s) \in Nat /\ Len(t) = Budget - 1 /\ Budget \in Nat \ {0} /\ Len(s) > Budget
            BY <1>1, <1>2, <2>1, <3>1
          <5>4. k \in 1..Len(t) /\ k + Len(s) - Budget + 1 = i
            BY <1>0, <4>2, <5>0
          <5>1. k \in 1..Len(t) /\ t[k] = s[i]
            <6> HIDE DEF k
            <6> QED
              BY <3>1, <5>4
          <5>2. Ordered(t)
            <6> SUFFICES ASSUME NEW a \in 1..Len(t), NEW b \in 1..Len(t), a < b, t[b].at # 0
                         PROVE  t[a].at < t[b].at + Slack
              BY DEF Ordered
            <6> DEFINE x == a + Len(s) - Budget + 1
                       y == b + Len(s) - Budget + 1
            <6>1. x \in 1..Len(s) /\ y \in 1..Len(s) /\ x < y
              BY <1>0, <5>0
            <6>2. t[a] = s[x] /\ t[b] = s[y]
              BY <3>1
            <6> HIDE DEF x, y
            <6> QED
              BY <1>1, <6>1, <6>2 DEF Ordered
          <5> HIDE DEF k
          <5>3. ScanBackwards(t, anchor) \in {"ambiguous", "user_turn"}
            BY <1>2, <3>1, <5>1, <5>2, ScanFinds
          <5> QED
            BY <5>3
        <4> QED
          BY <1>1, <1>2, <4>1, <4>2
      <3> QED
        BY <3>2, <3>4
    <2>2. CASE ~(Len(s) > Budget)
      <3>1. ScanJsonl(anchor, history) =
              IF ~Extends(history) THEN "source_rewritten"
              ELSE IF trace.tail # "none" THEN "pending_tail"
              ELSE IF Malformed(s) THEN "source_malformed"
              ELSE IF ScanBackwards(s, anchor) = "reached_slack" THEN "none"
              ELSE ScanBackwards(s, anchor)
        BY <2>2 DEF ScanJsonl
      <3> QED
        BY <1>3, <3>1
    <2> QED
      BY <2>1, <2>2
  <1> QED
    BY <1>4, <1>5 DEF TailScan

(* A scan of the tail that finds nothing means that no follow-up is in the    *)
(* trace at all, read or not: the records it did read are out of order by     *)
(* less than the slack it insists on.                                         *)
THEOREM TailScanHolds == Spec => []TailScanIsSound
  <1>1. IInv => TailScanIsSound
    BY TailIsSound DEF IInv
  <1> QED
    BY <1>1, Invariance, PTL

====
