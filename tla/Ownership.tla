----------------------------- MODULE Ownership -----------------------------
(***************************************************************************)
(* Transfers and claims of runs between managers (src/daemon/ownership.ts) *)
(* over the mailboxes: a journaled sequence of idempotent steps that a     *)
(* restart completes before the daemon serves again.                       *)
(*                                                                         *)
(* The transfers flock serializes the operations, so one operation is in   *)
(* progress at a time.  A snapshot says freely which managers are present  *)
(* and whether an unresolved intent stands in the way.                     *)
(***************************************************************************)
EXTENDS Mailbox

CONSTANTS
    Incidents,      \* owner-written claim instructions, claims/<id>.json
    Launcher,       \* the manager that launched the runs
    MaxEvents,      \* bound on minted run events and gaps
    MaxTransfers,   \* bound on journaled transfers
    MaxLosses,      \* bound on the losses after which operations are asked for
    MaxCrashes      \* bound on daemon crashes

ASSUME OwnershipAssumption ==
    /\ Launcher \in Managers
    /\ None \notin Incidents
    /\ "ownership" \notin Writers \cup {None}
    /\ {MaxEvents, MaxTransfers, MaxLosses, MaxCrashes} \subseteq Nat

VARIABLES
    phase,          \* startup phase of the daemon
    gapped,         \* mailboxes this start has written a gap to
    claims,         \* the claim instructions and what became of each
    journal,        \* transfers/<transferId>.json: plans not marked done
    done,           \* transfers/done/
    op,             \* the ownership operation in progress
    carried,        \* history: events moved by a transfer of other runs
    crashes

daemon == <<phase, gapped, crashes>>
book   == <<claims, journal, done, carried>>
box    == <<files, status, minted, subject, owners, locks, write, retry, faults, past>>
vars   == <<box, daemon, book, op>>

(* The operation's place; what was asked, nothing for completePending; the *)
(* plan it finishes and whether it froze that plan itself; the runs or     *)
(* files of the step still to do; the files found on neither side.         *)
NoAsk == [runs |-> {}]
NoPlan == [id |-> 0]
NoOp == [at |-> "idle", ask |-> NoAsk, plan |-> NoPlan, fresh |-> FALSE, todo |-> {}, missing |-> {}]

NoClaim == [state |-> "absent", from |-> None, to |-> None, runs |-> {}]

(* Every transfer mints two notices. *)
Ids == 1..(MaxEvents + 2 * MaxTransfers)

Init ==
    /\ unread = [k \in Managers |-> {}]
    /\ acked = [k \in Managers |-> {}]
    /\ unpersisted = [k \in Managers |-> 0]
    /\ pendingGap = [k \in Managers |-> 0]
    /\ capacity = "ok"
    /\ minted = 0
    /\ subject = [e \in Ids |-> 0]
    /\ owners = [r \in Runs |-> <<[session |-> Launcher, by |-> 0]>>]
    /\ runLock = [r \in Runs |-> None]
    /\ index = None
    /\ write = [p \in Writers |-> NoWrite]
    /\ retry = NoRetry
    /\ faults = 0
    /\ accepted = {}
    /\ refused = [k \in Managers |-> {}]
    /\ pruned = {}
    /\ unlogged = 0
    /\ gaps = {}
    /\ phase = "serving"
    /\ gapped = {}
    /\ claims = [i \in Incidents |-> NoClaim]
    /\ journal = {}
    /\ done = {}
    /\ op = NoOp
    /\ carried = {}
    /\ crashes = 0

Serving == phase = "serving"
Least(S) == CHOOSE x \in S : \A y \in S : x <= y
Holder == "ownership"

-----------------------------------------------------------------------------
(* Requests: change, and the completePending of reconcile and of a start. *)

(* The owner writes an instruction; one per incident. *)
Instruct(i, from, to, S) ==
    /\ claims[i] = NoClaim
    /\ from # to /\ S # {}
    /\ claims' = [claims EXCEPT ![i] = [state |-> "open", from |-> from, to |-> to, runs |-> S]]
    /\ UNCHANGED <<box, daemon, journal, done, carried, op>>

(* Transfers journaled so far; each minted two notices. *)
Transfers == Cardinality(journal) + Cardinality(done)

Bounded == \A k \in Managers : unpersisted[k] < MaxLosses

AskChange(from, to, S, i) ==
    /\ Serving
    /\ op.at = "idle"
    /\ from # to /\ S # {}
    /\ Bounded /\ Transfers < MaxTransfers
    /\ op' = [NoOp EXCEPT !.at = "replay", !.ask = [from |-> from, to |-> to, runs |-> S, incident |-> i]]
    /\ UNCHANGED <<box, daemon, book>>

AskPending ==
    /\ phase = "replaying" \/ (Serving /\ Bounded)
    /\ op.at = "idle"
    /\ journal # {}
    /\ op' = [NoOp EXCEPT !.at = "replay"]
    /\ UNCHANGED <<box, daemon, book>>

(* Mutant of ReleaseLocks: the run flocks are kept. *)
ReleaseLocksIndexOnly ==
    /\ index' = IF index = Holder THEN None ELSE index
    /\ UNCHANGED runLock

(* The finally clauses: every flock the operation holds is released. *)
ReleaseLocks ==
    /\ runLock' = [r \in Runs |-> IF runLock[r] = Holder THEN None ELSE runLock[r]]
    /\ index' = IF index = Holder THEN None ELSE index

(* The operation throws.  A start goes on after TRANSFER_PENDING and is    *)
(* refused after anything else.                                            *)
Abort(code) ==
    /\ ReleaseLocks
    /\ op' = NoOp
    /\ phase' = CASE Serving -> phase
                  [] ~Serving /\ code = "TRANSFER_PENDING" -> "gaps"
                  [] OTHER -> "down"
    /\ UNCHANGED <<gapped, crashes>>

Continue(next) ==
    /\ op' = next
    /\ UNCHANGED <<locks, daemon>>

-----------------------------------------------------------------------------
(* replayPending, then the run flocks in order. *)

ReplayNext(p) ==
    /\ op.at = "replay"
    /\ p \in journal
    /\ Continue([op EXCEPT !.at = "lock", !.plan = p, !.todo = p.runs])
    /\ UNCHANGED <<files, status, minted, subject, owners, write, retry, faults, past, book>>

(* Mutant of ReplayDone: the request does not wait for the pending plans. *)
ReplayDoneSkips ==
    /\ op.at = "replay"
    /\ IF op.ask = NoAsk
          THEN op' = NoOp
          ELSE op' = [op EXCEPT !.at = "lock", !.todo = op.ask.runs]
    /\ UNCHANGED <<box, daemon, book>>

ReplayDone ==
    /\ op.at = "replay"
    /\ journal = {}
    /\ IF op.ask = NoAsk
          THEN op' = NoOp
          ELSE op' = [op EXCEPT !.at = "lock", !.todo = op.ask.runs]
    /\ UNCHANGED <<box, daemon, book>>

LockRun ==
    /\ op.at = "lock"
    /\ op.todo # {}
    /\ LET r == Least(op.todo)
       IN  /\ runLock[r] = None
           /\ runLock' = [runLock EXCEPT ![r] = Holder]
           /\ op' = [op EXCEPT !.todo = @ \ {r}]
    /\ UNCHANGED <<files, status, minted, subject, owners, index, write, retry, faults, past, daemon, book>>

(* A flock did not come in time. *)
LockTimesOut ==
    /\ \/ op.at = "lock" /\ op.todo # {} /\ runLock[Least(op.todo)] # None
       \/ op.at \in {"lock", "verified"} /\ op.todo = {} /\ index # None
    /\ Abort("OWNERSHIP_UNAVAILABLE")
    /\ UNCHANGED <<files, status, minted, subject, owners, write, retry, faults, past, book>>

(* The request as the provenance and the claim instruction allow it. *)
Authorized(a) ==
    /\ \A r \in a.runs : OwnerOf(r) = a.from
    /\ a.incident # None => claims[a.incident] = [state |-> "open", from |-> a.from, to |-> a.to, runs |-> a.runs]

Verify ==
    /\ op.at = "lock" /\ op.todo = {} /\ op.plan = NoPlan
    /\ Authorized(op.ask)
    /\ Continue([op EXCEPT !.at = "verified"])
    /\ UNCHANGED <<files, status, minted, subject, owners, write, retry, faults, past, book>>

(* OWNER_MISMATCH, CLAIM_NOT_INSTRUCTED, OWNER_PRESENT, an unproven        *)
(* successor or an unresolved intent.                                      *)
VerifyRefuses ==
    /\ op.at = "lock" /\ op.todo = {} /\ op.plan = NoPlan
    /\ Abort("refused")
    /\ UNCHANGED <<files, status, minted, subject, owners, write, retry, faults, past, book>>

(* The index flock and the mailbox flocks. *)
LockMailboxes ==
    /\ \/ op.at = "lock" /\ op.todo = {} /\ op.plan # NoPlan
       \/ op.at = "verified"
    /\ index = None
    /\ index' = Holder
    /\ op' = [op EXCEPT !.at = IF op.plan # NoPlan THEN "claim" ELSE "freeze"]
    /\ UNCHANGED <<files, status, minted, subject, owners, runLock, write, retry, faults, past, daemon, book>>

(* Mutant of FrozenPlan: only the first run's provenance is recorded. *)
FrozenPlanFirstOnly(a) ==
    LET id == Transfers + 1
    IN  [id |-> id, from |-> a.from, to |-> a.to, runs |-> a.runs, incident |-> a.incident,
         owners |-> [r \in {Least(a.runs)} |-> Append(owners[r], [session |-> a.to, by |-> id])],
         unread |-> unread[a.from], notice |-> <<minted + 1, minted + 2>>, moved |-> FALSE]

(* The frozen plan: the owner entries, the unread files, the two notices. *)
FrozenPlan(a) ==
    LET id == Transfers + 1
    IN  [id |-> id, from |-> a.from, to |-> a.to, runs |-> a.runs, incident |-> a.incident,
         owners |-> [r \in a.runs |-> Append(owners[r], [session |-> a.to, by |-> id])],
         unread |-> unread[a.from], notice |-> <<minted + 1, minted + 2>>, moved |-> FALSE]

Freeze(w) ==
    LET p == FrozenPlan(op.ask)
    IN  /\ op.at = "freeze"
        /\ Attempt(w)
        /\ minted' = IF Lands(w) THEN minted + 2 ELSE minted
        /\ journal' = IF Lands(w) THEN journal \cup {p} ELSE journal
        /\ IF w = "ok" THEN Continue([op EXCEPT !.at = "claim", !.plan = p, !.fresh = TRUE]) ELSE Abort("thrown")
        /\ UNCHANGED <<files, status, subject, owners, write, retry, past, claims, done, carried>>

-----------------------------------------------------------------------------
(* finish: the steps a replay repeats from the start. *)

(* Mutant of ConsumeClaim: the instruction is left where it was. *)
ConsumeClaimReads(w) ==
    /\ op.at = "claim"
    /\ Attempt(w)
    /\ op.plan.incident = None => w = "ok"
    /\ IF w = "ok" THEN Continue([op EXCEPT !.at = "owners", !.todo = op.plan.runs]) ELSE Abort("thrown")
    /\ UNCHANGED <<files, status, minted, subject, owners, write, retry, past, book>>

(* The claim instruction is consumed before any other step. *)
ConsumeClaim(w) ==
    LET i == op.plan.incident
    IN  /\ op.at = "claim"
        /\ Attempt(w)
        /\ i = None => w = "ok"
        /\ claims' = IF i # None /\ Lands(w) THEN [claims EXCEPT ![i].state = "used"] ELSE claims
        /\ IF w = "ok" THEN Continue([op EXCEPT !.at = "owners", !.todo = op.plan.runs]) ELSE Abort("thrown")
        /\ UNCHANGED <<files, status, minted, subject, owners, write, retry, past, journal, done, carried>>

(* Each run's provenance is replaced by the frozen entries. *)
WriteOwners(w) ==
    /\ op.at = "owners"
    /\ op.todo # {}
    /\ Attempt(w)
    /\ LET r == Least(op.todo)
       IN  /\ owners' = IF Lands(w) THEN [owners EXCEPT ![r] = op.plan.owners[r]] ELSE owners
           /\ IF w = "ok" THEN Continue([op EXCEPT !.todo = @ \ {r}]) ELSE Abort("thrown")
    /\ UNCHANGED <<files, status, minted, subject, write, retry, past, book>>

OwnersWritten ==
    /\ op.at = "owners"
    /\ op.todo = {}
    /\ IF op.plan.moved THEN Continue([op EXCEPT !.at = "notice from"])
                        ELSE Continue([op EXCEPT !.at = "moves", !.todo = op.plan.unread])
    /\ UNCHANGED <<files, status, minted, subject, owners, write, retry, faults, past, book>>

(* Mutant of MoveFile: the source is unlinked before the destination has   *)
(* the file.                                                               *)
MoveFileUnlinks(w) ==
    LET p == op.plan
        e == Least(op.todo)
    IN  /\ op.at = "moves"
        /\ op.todo # {}
        /\ Attempt(w)
        /\ IF e \in unread[p.from]
              THEN /\ unread' = [unread EXCEPT ![p.from] = @ \ {e}, ![p.to] = IF Lands(w) THEN @ \cup {e} ELSE @]
                   /\ carried' = IF subject[e] \in p.runs THEN carried ELSE carried \cup {e}
              ELSE UNCHANGED <<unread, carried>>
        /\ IF w = "ok"
              THEN Continue([op EXCEPT !.todo = @ \ {e},
                                       !.missing = IF e \in unread[p.from] \cup unread[p.to] THEN @ ELSE @ \cup {e}])
              ELSE Abort("thrown")
        /\ UNCHANGED <<acked, status, minted, subject, owners, write, retry, past, claims, journal, done>>

(* moveUnread, one rename at a time: a file absent from the source counts  *)
(* as moved when the destination has it unread, and else as missing.       *)
MoveFile(w) ==
    LET p == op.plan
        e == Least(op.todo)
    IN  /\ op.at = "moves"
        /\ op.todo # {}
        /\ Attempt(w)
        /\ IF e \in unread[p.from] /\ Lands(w)
              THEN /\ unread' = [unread EXCEPT ![p.from] = @ \ {e}, ![p.to] = @ \cup {e}]
                   /\ carried' = IF subject[e] \in p.runs THEN carried ELSE carried \cup {e}
              ELSE UNCHANGED <<unread, carried>>
        /\ IF w = "ok"
              THEN Continue([op EXCEPT !.todo = @ \ {e},
                                       !.missing = IF e \in unread[p.from] \cup unread[p.to] THEN @ ELSE @ \cup {e}])
              ELSE Abort("thrown")
        /\ UNCHANGED <<acked, status, minted, subject, owners, write, retry, past, claims, journal, done>>

(* The missing files are counted as losses of the source. *)
MovesDone ==
    /\ op.at = "moves"
    /\ op.todo = {}
    /\ unpersisted' = [unpersisted EXCEPT ![op.plan.from] = @ + Cardinality(op.missing)]
    /\ capacity' = CapState(unread)
    /\ Continue([op EXCEPT !.at = "checkpoint", !.missing = {}, !.plan = [@ EXCEPT !.moved = TRUE]])
    /\ UNCHANGED <<files, pendingGap, minted, subject, owners, write, retry, faults, past, book>>

(* movesComplete is journaled before the notices are tried. *)
Checkpoint(w) ==
    /\ op.at = "checkpoint"
    /\ Attempt(w)
    /\ journal' = IF Lands(w) THEN {p \in journal : p.id # op.plan.id} \cup {op.plan} ELSE journal
    /\ IF w = "ok" THEN Continue([op EXCEPT !.at = "notice from"]) ELSE Abort("thrown")
    /\ UNCHANGED <<files, status, minted, subject, owners, write, retry, past, claims, done, carried>>

(* writeRecordedEvent: an identifier already there, unread or handled, has *)
(* landed; a refusal leaves the journal pending.                           *)
Notice(from, key, id, next, w) ==
    /\ op.at = from
    /\ Attempt(w)
    /\ IF OnDisk(key, id)
          THEN /\ w = "ok"
               /\ Continue([op EXCEPT !.at = next])
               /\ UNCHANGED <<unread, status, accepted, refused, unlogged>>
          ELSE /\ PersistRun(key, id, ~AtCap(key), w)
               /\ IF AtCap(key) THEN Abort("TRANSFER_PENDING")
                  ELSE IF w = "ok" THEN Continue([op EXCEPT !.at = next])
                  ELSE Abort("TRANSFER_EVENT_FAILED")
    /\ UNCHANGED <<acked, minted, subject, owners, write, retry, pruned, gaps, book>>

NoticeFrom(w) == op.at = "notice from" /\ Notice("notice from", op.plan.from, op.plan.notice[1], "notice to", w)
NoticeTo(w) == op.at = "notice to" /\ Notice("notice to", op.plan.to, op.plan.notice[2], "retarget", w)

(* The hints are retargeted and the journal record is marked done. *)
MarkDone(w) ==
    LET p == op.plan
    IN  /\ op.at = "retarget"
        /\ Attempt(w)
        /\ journal' = IF Lands(w) THEN {q \in journal : q.id # p.id} ELSE journal
        /\ done' = IF Lands(w) THEN done \cup {p} ELSE done
        /\ IF w # "ok" THEN Abort("thrown")
           ELSE /\ ReleaseLocks
                /\ op' = IF op.fresh THEN NoOp ELSE [op EXCEPT !.at = "replay", !.plan = NoPlan]
                /\ UNCHANGED daemon
        /\ UNCHANGED <<files, status, minted, subject, owners, write, retry, past, claims, carried>>

-----------------------------------------------------------------------------
(* The daemon around it: crash, restart sweep, serving. *)

EventsLeft == minted < MaxEvents + 2 * Transfers

(* Supervisors write from the moment the sweep has bound them. *)
Watching == phase \in {"gaps", "serving"}

(* A writer past its scan may have linked its file before the crash. *)
Crash ==
    /\ phase # "down"
    /\ crashes < MaxCrashes
    /\ crashes' = crashes + 1
    /\ phase' = "down"
    /\ gapped' = {}
    /\ op' = NoOp
    /\ runLock' = [r \in Runs |-> None]
    /\ index' = None
    /\ \E linked \in SUBSET {p \in Writers : write[p].at = "scanned" /\ write[p].room} :
          unread' = [k \in Managers |-> unread[k] \cup {write[p].id : p \in {q \in linked : write[q].key = k}}]
    /\ write' = [p \in Writers |-> NoWrite]
    /\ retry' = NoRetry
    /\ UNCHANGED <<acked, status, minted, subject, owners, faults, past, book>>

StartDaemon ==
    /\ phase = "down"
    /\ phase' = "replaying"
    /\ UNCHANGED <<box, gapped, crashes, book, op>>

(* completePending found nothing left to do. *)
StartReplayed ==
    /\ phase = "replaying"
    /\ op.at = "idle"
    /\ journal = {}
    /\ phase' = "gaps"
    /\ UNCHANGED <<box, gapped, crashes, book, op>>

(* One downtime_gap for each mailbox the sweep found affected. *)
DiscloseGap(k, w) ==
    /\ phase = "gaps"
    /\ k \notin gapped
    /\ EventsLeft
    /\ WriteGap(k, w)
    /\ gapped' = gapped \cup {k}
    /\ UNCHANGED <<phase, crashes, book, op>>

Serve ==
    /\ phase = "gaps"
    /\ phase' = "serving"
    /\ gapped' = {}
    /\ UNCHANGED <<box, crashes, book, op>>

-----------------------------------------------------------------------------
(* A writer's event, up to its verdict. *)
WriterStep(p) ==
    /\ AdmitWrite(p) \/ \E w \in Writes : LandWrite(p, w)
    /\ UNCHANGED <<daemon, book, op>>

RetryStep ==
    /\ \/ EndRetry
       \/ \E g \in retry.todo : RetryOnDisk(g)
       \/ \E g \in retry.todo, w \in Writes : RetryWrite(g, w)
       \/ \E w \in Writes : ClearGap(w)
    /\ UNCHANGED <<daemon, book, op>>

(* One step of the ownership operation in progress. *)
OpStep ==
    \/ ReplayDone \/ LockRun \/ Verify \/ VerifyRefuses \/ LockMailboxes \/ OwnersWritten \/ MovesDone
    \/ \E p \in journal : ReplayNext(p)
    \/ \E w \in Writes :
          \/ Freeze(w) \/ ConsumeClaim(w) \/ WriteOwners(w) \/ MoveFile(w)
          \/ Checkpoint(w) \/ NoticeFrom(w) \/ NoticeTo(w) \/ MarkDone(w)

Next ==
    \/ \E p \in Writers, r \in Runs : Watching /\ EventsLeft /\ BeginWrite(p, r) /\ UNCHANGED <<daemon, book, op>>
    \/ \E p \in Writers : WriterStep(p)
    \/ \E p \in Writers : WriteTimesOut(p) /\ UNCHANGED <<daemon, book, op>>
    \/ \E k \in Managers : \E e \in unread[k] : Serving /\ Ack(k, e) /\ UNCHANGED <<daemon, book, op>>
    \/ Serving /\ BeginRetry /\ UNCHANGED <<daemon, book, op>>
    \/ RetryStep
    \/ \E i \in Incidents, from, to \in Managers, S \in SUBSET Runs : Instruct(i, from, to, S)
    \/ \E from, to \in Managers, S \in SUBSET Runs, i \in Incidents \cup {None} : AskChange(from, to, S, i)
    \/ AskPending
    \/ OpStep
    \/ LockTimesOut
    \/ Crash
    \/ StartDaemon \/ StartReplayed \/ Serve
    \/ \E k \in Managers, w \in Writes : DiscloseGap(k, w)

Spec == Init /\ [][Next]_vars

(* A flock is released when its section ends and each section is bounded,  *)
(* so an operation and a writer that can go on do go on; nothing is assumed *)
(* of the time-outs, which could hide a deadlock.                          *)
Fairness == WF_vars(OpStep) /\ (\A p \in Writers : WF_vars(WriterStep(p)))

FairSpec == Spec /\ Fairness

-----------------------------------------------------------------------------
IsPlan(p) ==
    /\ p.id \in 1..MaxTransfers
    /\ p.from \in Managers /\ p.to \in Managers
    /\ p.runs \subseteq Runs /\ p.incident \in Incidents \cup {None}
    /\ p.unread \subseteq Ids /\ p.notice \in Ids \X Ids /\ p.moved \in BOOLEAN
    /\ DOMAIN p.owners = p.runs

(* The mailboxes, the status file, the provenance, the flocks and the      *)
(* journal have their types; a journaled plan freezes the owner entries of *)
(* exactly its runs.                                                       *)
TypeOK ==
    /\ unread \in [Managers -> SUBSET Ids]
    /\ acked \in [Managers -> SUBSET Ids]
    /\ unpersisted \in [Managers -> Nat]
    /\ pendingGap \in [Managers -> Ids \cup {0}]
    /\ capacity \in {"ok", "degraded"}
    /\ minted \in Ids \cup {0}
    /\ subject \in [Ids -> Runs \cup {0}]
    /\ \A r \in Runs : owners[r] \in Seq([session : Managers, by : 0..MaxTransfers]) /\ owners[r] # <<>>
    /\ runLock \in [Runs -> Writers \cup {None, Holder}]
    /\ index \in Writers \cup {None, Holder}
    /\ phase \in {"down", "replaying", "gaps", "serving"}
    /\ \A i \in Incidents : claims[i].state \in {"absent", "open", "used"} /\ claims[i].runs \subseteq Runs
    /\ \A p \in journal : IsPlan(p)
    /\ faults \in 0..MaxFaults /\ crashes \in 0..MaxCrashes

Everywhere == pruned \cup (UNION {unread[k] \cup acked[k] : k \in Managers})

(* "A write that lands before the freeze is moved with it, a writer        *)
(* blocked mid-transfer lands in the successor's mailbox": an unread event *)
(* of a run is with the run's current owner, unless the run's transfer is  *)
(* still journaled or a transfer of other runs took the event along.  A    *)
(* transfer that a failed write interrupts releases the flocks before the  *)
(* owner has changed; what is then written is not in the frozen list.      *)
WrittenAfterFreeze(e, k) == \E d \in done : subject[e] \in d.runs /\ k = d.from /\ e > d.notice[2]

NoEventLeftBehind ==
    \A k \in Managers : \A e \in unread[k] :
        subject[e] # 0 /\ k # OwnerOf(subject[e])
            => \/ e \in carried
               \/ \E p \in journal : subject[e] \in p.runs
               \/ faults > 0 /\ WrittenAfterFreeze(e, k)

(* An event reported persisted stays on disk until it is handled and the   *)
(* retention drops it, through transfers, replays and crashes.             *)
EventsSurvive == accepted \subseteq Everywhere

(* An event reported persistenceFailed is counted in daemon.json, unless   *)
(* that write failed too.                                                  *)
LossesAreCounted ==
    \A k \in Managers : Cardinality(refused[k]) <= unpersisted[k] + unlogged

(* Event writes never take a mailbox, or all of them, over the cap, however *)
(* writers race; only a move may.                                          *)
WritesRespectCapacity ==
    [][\A k \in Managers :
          (unread'[k] \ unread[k]) \ UNION {unread[j] : j \in Managers} # {}
              => Cardinality(unread'[k]) <= UnreadMax /\ Total(unread') <= GlobalMax]_vars

(* The owner history of a run only grows: no replayed plan rewrites the    *)
(* entries of a later transfer.                                            *)
OwnersOnlyGrow ==
    [][\A r \in Runs : /\ Len(owners[r]) <= Len(owners'[r])
                       /\ SubSeq(owners'[r], 1, Len(owners[r])) = owners[r]]_vars

(* A pending transfer is completed before another is journaled. *)
OneTransferPending == Cardinality(journal) <= 1

(* An owner instruction authorizes one claim, whatever crashes between the *)
(* journal write and the consumption of the instruction.                   *)
ClaimAuthorizesOnce ==
    \A i \in Incidents :
        Cardinality({p.id : p \in {q \in journal : q.incident = i}} \cup {d.id : d \in {q \in done : q.incident = i}}) <= 1

(* A transfer marked done changed the owner of each of its runs, once. *)
BatchIsWhole ==
    \A d \in done : \A r \in d.runs :
        Cardinality({n \in DOMAIN owners[r] : owners[r][n].by = d.id}) = 1

(* No run event or notice is in two mailboxes, or both unread and handled. *)
EventsAreUnique ==
    \A j, k \in Managers :
        /\ (unread[k] \cap acked[j]) \subseteq gaps
        /\ j # k => (unread[j] \cap unread[k]) \cup (acked[j] \cap acked[k]) \subseteq gaps

(* The checkpoint is there "so handled moved files are not mistaken for    *)
(* loss": without a failed write no move finds a file missing, wherever    *)
(* the daemon crashes and whatever the successor has handled.              *)
HandledIsNotLost == faults = 0 => op.missing = {}

(* Every event is accounted for: a transfer takes all of its runs with it  *)
(* and leaves no event behind, each event lies in one mailbox, a move lost *)
(* none of them, and what could not be written is counted.                 *)
EventsAreAccountedFor ==
    NoEventLeftBehind /\ BatchIsWhole /\ EventsAreUnique /\ HandledIsNotLost /\ LossesAreCounted

(* An ownership operation ends: the flock order lets writers and transfers *)
(* through without the time-outs.                                          *)
OperationsEnd == op.at # "idle" ~> op.at = "idle"

(* What mailbox.ts says of a downtime gap: it clears only once durably     *)
(* written, and the disclosure "is never destroyed".                       *)
GapsSurvive == gaps \subseteq Everywhere \cup {pendingGap[k] : k \in Managers}
-----------------------------------------------------------------------------
(* The inductive strengthening of the ownership properties.  Identifiers    *)
(* are not bounded here, so that it does not depend on the bounds above.   *)

Entry == [session : Managers, by : Nat]
OwnerHistory == Seq(Entry) \ {<<>>}

(* What the caller, or the journal, hands to the operation. *)
WellAsked(a) ==
    /\ a.from \in Managers /\ a.to \in Managers
    /\ a.runs \in SUBSET Runs
    /\ a.incident \in Incidents \cup {None}

WellFrozen(p) ==
    /\ p = [id |-> p.id, from |-> p.from, to |-> p.to, runs |-> p.runs, incident |-> p.incident, owners |-> p.owners,
            unread |-> p.unread, notice |-> p.notice, moved |-> p.moved]
    /\ p.id \in Nat \ {0}
    /\ p.from \in Managers /\ p.to \in Managers
    /\ p.runs \in SUBSET Runs
    /\ p.incident \in Incidents \cup {None}
    /\ p.owners \in [p.runs -> OwnerHistory]
    /\ p.notice \in Nat \X Nat

(* A writer, the retry and an instruction, as the daemon keeps them. *)
WriteShape ==
    [at : {"idle", "resolved", "scanned"}, run : Runs \cup {0}, key : Managers \cup {None}, id : Nat, room : BOOLEAN]

RetryShape ==
    [at : {"idle", "next", "clear"}, todo : SUBSET (Managers \X Nat), key : Managers \cup {None}]

ClaimShape ==
    [state : {"absent", "open", "used"}, from : Managers \cup {None}, to : Managers \cup {None}, runs : SUBSET Runs]

MailboxShape ==
    /\ minted \in Nat
    /\ unread \in [Managers -> SUBSET Nat] /\ acked \in [Managers -> SUBSET Nat]
    /\ pendingGap \in [Managers -> Nat]
    /\ owners \in [Runs -> OwnerHistory]
    /\ write \in [Writers -> WriteShape]
    /\ \A p \in Writers : write[p].at # "idle" => write[p].key \in Managers
    /\ retry \in RetryShape

(* The frozen entries are the provenance, or the provenance and one more. *)
Follows(p) ==
    \A r \in p.runs :
        LET after == p.owners[r]
        IN  after = owners[r] \/ after = Append(owners[r], after[Len(after)])

(* The instruction of p, if it is a claim, finished no other claim. *)
Spends(p) == p.incident # None => \A d \in done : d.incident # p.incident

(* What a crash leaves: one pending plan at most, which continues the      *)
(* provenance it was frozen from; each finished claim used up its own      *)
(* instruction.                                                            *)
DurableInv ==
    /\ claims \in [Incidents -> ClaimShape]
    /\ IsFiniteSet(done)
    /\ \A p, q \in journal : p = q
    /\ \A p \in journal : WellFrozen(p) /\ Follows(p) /\ Spends(p)
    /\ \A d \in done : d.incident \in Incidents => claims[d.incident].state = "used"
    /\ \A d, e \in done : d.incident \in Incidents /\ d.incident = e.incident => d.id = e.id

Deciding  == {"lock", "verified", "freeze"}
Finishing == {"claim", "owners", "moves", "checkpoint", "notice from", "notice to", "retarget"}

(* The plan in hand, replayed or just frozen, is the pending one. *)
SamePlan(p, q) == p.id = q.id /\ p.runs = q.runs /\ p.owners = q.owners /\ p.incident = q.incident

PlanInHand ==
    /\ WellFrozen(op.plan) /\ Follows(op.plan) /\ Spends(op.plan)
    /\ \A p \in journal : SamePlan(p, op.plan)

(* What the operation in progress relies on: a request decides on an empty *)
(* journal, under an instruction nobody has used; the steps of finish have *)
(* a plan in hand, and all but the first an instruction that is used.      *)
OperationInv ==
    /\ op = [at |-> op.at, ask |-> op.ask, plan |-> op.plan, fresh |-> op.fresh, todo |-> op.todo, missing |-> op.missing]
    /\ op.ask # NoAsk => WellAsked(op.ask)
    /\ op.at \in Finishing => op.plan # NoPlan
    /\ op.at \in {"replay", "verified", "freeze"} => op.plan = NoPlan
    /\ op.at \in Deciding /\ op.plan = NoPlan => op.ask # NoAsk /\ journal = {}
    /\ op.at \in Deciding \cup Finishing /\ op.plan # NoPlan => PlanInHand
    /\ op.at \in {"verified", "freeze"} /\ op.ask.incident # None => claims[op.ask.incident].state = "open"
    /\ op.at \in Finishing \ {"claim"} /\ op.plan.incident # None => claims[op.plan.incident].state = "used"
    /\ op.at = "owners" => op.todo \subseteq op.plan.runs

BoxInv  == MailboxShape /\ EventsSurvive
BookInv == DurableInv /\ OperationInv

OwnershipInv == BoxInv /\ BookInv
=============================================================================
