------------------------------ MODULE Mailbox ------------------------------
(***************************************************************************)
(* The filesystem mailboxes of src/daemon/mailbox.ts: one per manager, with *)
(* an unread/ and an acked/ directory, and the loss accounting they keep in *)
(* daemon.json.  The module has the state and the operations; Ownership    *)
(* composes them with the transfers that move events between mailboxes.    *)
(*                                                                         *)
(* Event identifiers are naturals in the order they were minted, as the    *)
(* time-stamped names of the code sort.  Caps are counted in files; the    *)
(* byte cap is the same comparison.  Every section of the code takes the   *)
(* global index flock before a mailbox flock, so the index flock stands    *)
(* for both.                                                               *)
(***************************************************************************)
EXTENDS Naturals, Sequences, FiniteSets

CONSTANTS
    Managers,       \* manager session keys
    Runs,           \* run identifiers, in flock order
    Writers,        \* concurrent writers of run events
    None,           \* no writer, manager, incident
    UnreadMax,      \* MAILBOX_UNREAD_MAX_FILES
    GlobalMax,      \* MAILBOX_GLOBAL_UNREAD_MAX_FILES
    AckedRetained,  \* MAILBOX_ACKED_RETAINED_FILES
    MaxFaults       \* bound on failed file system writes

ASSUME MailboxAssumption ==
    /\ Runs \subseteq Nat \ {0}
    /\ None \notin Managers /\ None \notin Writers
    /\ {UnreadMax, GlobalMax, AckedRetained, MaxFaults} \subseteq Nat

VARIABLES
    unread, acked,  \* the event files of each mailbox
    unpersisted,    \* daemon.json.unpersisted[key].count
    pendingGap,     \* daemon.json.pendingGap[key]; 0 when none is held
    capacity,       \* daemon.json.capacity
    minted,         \* the last identifier minted
    subject,        \* what an event is about: its run, or 0 for the others
    owners,         \* provenance of each run: its owner entries, oldest first
    runLock, index, \* holder of each run flock and of the index flock
    write,          \* each writer's writeRunEvent
    retry,          \* the heartbeat's retryPendingGaps
    faults,
    \* History.
    accepted,       \* events reported persisted
    refused,        \* events reported persistenceFailed, by mailbox
    pruned,         \* handled events dropped by the retention
    unlogged,       \* losses whose accounting write failed
    gaps            \* downtime gaps that were persisted or held

files   == <<unread, acked>>
status  == <<unpersisted, pendingGap, capacity>>
locks   == <<runLock, index>>
past    == <<accepted, refused, pruned, unlogged, gaps>>

OwnerOf(r) == owners[r][Len(owners[r])].session

NoWrite == [at |-> "idle", run |-> 0, key |-> None, id |-> 0, room |-> FALSE]
NoRetry == [at |-> "idle", todo |-> {}, key |-> None]

(* The writes that can fail without a crash: nothing landed, or the change *)
(* landed and the directory fsync after it threw.                          *)
Writes == {"ok", "lost", "unsynced"}

Attempt(w) ==
    /\ w # "ok" => faults < MaxFaults
    /\ faults' = IF w = "ok" THEN faults ELSE faults + 1

Lands(w) == w # "lost"

-----------------------------------------------------------------------------
(* Capacity. *)

Total(u) == Cardinality(UNION {{k} \X u[k] : k \in Managers})

CapState(u) ==
    IF (\E k \in Managers : Cardinality(u[k]) >= UnreadMax) \/ Total(u) >= GlobalMax
       THEN "degraded" ELSE "ok"

AtCap(k) == Cardinality(unread[k]) + 1 > UnreadMax \/ Total(unread) + 1 > GlobalMax

-----------------------------------------------------------------------------
(* persistEvent, under the held flocks. *)

(* recordFailure without a held gap: one more loss of k, unless the        *)
(* daemon.json write fails too, which is only logged.                      *)
CountLoss(k, accounted) ==
    /\ unpersisted' = IF accounted THEN [unpersisted EXCEPT ![k] = @ + 1] ELSE unpersisted
    /\ capacity' = IF accounted THEN "degraded" ELSE capacity
    /\ unlogged' = IF accounted THEN unlogged ELSE unlogged + 1

Land(k, e) ==
    /\ unread' = [unread EXCEPT ![k] = @ \cup {e}]
    /\ capacity' = CapState(unread')
    /\ accepted' = accepted \cup {e}
    /\ UNCHANGED <<unpersisted, pendingGap, refused, unlogged>>

Refuse(k, e, accounted) ==
    /\ CountLoss(k, accounted)
    /\ refused' = [refused EXCEPT ![k] = @ \cup {e}]
    /\ UNCHANGED <<pendingGap, accepted>>

(* The outcome of persisting e in k.  room is the admission verdict of the *)
(* scan; w is how the event write went.                                    *)
PersistRun(k, e, room, w) ==
    \/ /\ room /\ e \notin unread[k] /\ w = "ok"
       /\ Land(k, e)
    \/ /\ room /\ e \notin unread[k] /\ w # "ok"       \* unavailable
       /\ unread' = IF Lands(w) THEN [unread EXCEPT ![k] = @ \cup {e}] ELSE unread
       /\ Refuse(k, e, TRUE)
    \/ /\ room /\ e \in unread[k] /\ w = "ok"          \* collision
       /\ Refuse(k, e, TRUE)
       /\ UNCHANGED unread
    \/ /\ ~room /\ w \in {"ok", "lost"}                \* capacity
       /\ Refuse(k, e, w = "ok")
       /\ UNCHANGED unread

(* A gap refused for capacity is held instead of counted; when the hold    *)
(* cannot be written it is counted as any other loss.                      *)
PersistGap(k, e, room, w) ==
    \/ /\ room
       /\ PersistRun(k, e, room, w)
       /\ gaps' = IF e \in unread'[k] THEN gaps \cup {e} ELSE gaps
    \/ /\ ~room /\ w = "ok"
       /\ pendingGap' = [pendingGap EXCEPT ![k] = e]
       /\ capacity' = "degraded"
       /\ gaps' = gaps \cup {e}
       /\ UNCHANGED <<unread, unpersisted, accepted, refused, unlogged>>
    \/ /\ ~room /\ w # "ok"
       /\ pendingGap' = IF Lands(w) THEN [pendingGap EXCEPT ![k] = e] ELSE pendingGap
       /\ gaps' = IF Lands(w) THEN gaps \cup {e} ELSE gaps
       /\ CountLoss(k, TRUE)
       /\ refused' = [refused EXCEPT ![k] = @ \cup {e}]
       /\ UNCHANGED <<unread, accepted>>

-----------------------------------------------------------------------------
(* writeRunEvent *)

(* Mutant of BeginWrite: the destination is resolved outside the run flock. *)
BeginWriteUnlocked(p, r) ==
    /\ write[p].at = "idle"
    /\ minted' = minted + 1
    /\ subject' = [subject EXCEPT ![minted'] = r]
    /\ write' = [write EXCEPT ![p] = [at |-> "resolved", run |-> r, key |-> OwnerOf(r), id |-> minted', room |-> FALSE]]
    /\ UNCHANGED <<locks, owners, retry, faults, files, status, past>>

(* The run flock is taken and the destination resolved under it. *)
BeginWrite(p, r) ==
    /\ write[p].at = "idle"
    /\ runLock[r] = None
    /\ runLock' = [runLock EXCEPT ![r] = p]
    /\ minted' = minted + 1
    /\ subject' = [subject EXCEPT ![minted'] = r]
    /\ write' = [write EXCEPT ![p] = [at |-> "resolved", run |-> r, key |-> OwnerOf(r), id |-> minted', room |-> FALSE]]
    /\ UNCHANGED <<index, owners, retry, faults, files, status, past>>

(* Mutant of AdmitWrite: the scan does not take the index flock. *)
AdmitWriteUnlocked(p) ==
    /\ write[p].at = "resolved"
    /\ write' = [write EXCEPT ![p] = [@ EXCEPT !.at = "scanned", !.room = ~AtCap(write[p].key)]]
    /\ UNCHANGED <<locks, minted, subject, owners, retry, faults, files, status, past>>

(* The index flock, then the scan. *)
AdmitWrite(p) ==
    /\ write[p].at = "resolved"
    /\ index = None
    /\ index' = p
    /\ write' = [write EXCEPT ![p] = [@ EXCEPT !.at = "scanned", !.room = ~AtCap(write[p].key)]]
    /\ UNCHANGED <<runLock, minted, subject, owners, retry, faults, files, status, past>>

(* The link or the refusal, and the release of both flocks. *)
LandWrite(p, w) ==
    /\ write[p].at = "scanned"
    /\ Attempt(w)
    /\ PersistRun(write[p].key, write[p].id, write[p].room, w)
    /\ index' = None
    /\ runLock' = [runLock EXCEPT ![write[p].run] = None]
    /\ write' = [write EXCEPT ![p] = NoWrite]
    /\ UNCHANGED <<acked, minted, subject, owners, retry, pruned, gaps>>

(* The index flock did not come within MAILBOX_LOCK_WAIT_MS: the write     *)
(* throws to the supervisor, which reports nothing as persisted.           *)
WriteTimesOut(p) ==
    /\ write[p].at = "resolved"
    /\ index # None
    /\ runLock' = [runLock EXCEPT ![write[p].run] = None]
    /\ write' = [write EXCEPT ![p] = NoWrite]
    /\ UNCHANGED <<index, minted, subject, owners, retry, faults, files, status, past>>

-----------------------------------------------------------------------------
(* ack *)

(* pruneAcked: the newest AckedRetained records stay. *)
Newest(s) == {e \in s : Cardinality({x \in s : x > e}) < AckedRetained}

Ack(k, e) ==
    /\ index = None
    /\ e \in unread[k]
    /\ LET handled == acked[k] \cup {e}
       IN  /\ acked' = [acked EXCEPT ![k] = Newest(handled)]
           /\ pruned' = pruned \cup (handled \ Newest(handled))
    /\ unread' = [unread EXCEPT ![k] = @ \ {e}]
    /\ capacity' = CapState(unread')
    /\ UNCHANGED <<unpersisted, pendingGap, minted, subject, owners, locks, write, retry, faults,
                   accepted, refused, unlogged, gaps>>

-----------------------------------------------------------------------------
(* downtime gaps *)

(* writeGapEvent by the restart sweep. *)
WriteGap(k, w) ==
    /\ index = None
    /\ minted' = minted + 1
    /\ Attempt(w)
    /\ PersistGap(k, minted', ~AtCap(k), w)
    /\ UNCHANGED <<acked, subject, owners, locks, write, retry, pruned>>

(* A heartbeat reads the held gaps ... *)
BeginRetry ==
    /\ retry.at = "idle"
    /\ \E k \in Managers : pendingGap[k] # 0
    /\ retry' = [NoRetry EXCEPT !.at = "next", !.todo = {<<k, pendingGap[k]>> : k \in {x \in Managers : pendingGap[x] # 0}}]
    /\ UNCHANGED <<files, status, minted, subject, owners, locks, write, faults, past>>

OnDisk(k, e) == e \in unread[k] \cup acked[k]

(* ... a held gap already on disk has landed and is cleared ... *)
RetryOnDisk(g) ==
    /\ retry.at = "next"
    /\ g \in retry.todo
    /\ OnDisk(g[1], g[2])
    /\ retry' = [retry EXCEPT !.at = "clear", !.todo = @ \ {g}, !.key = g[1]]
    /\ UNCHANGED <<files, status, minted, subject, owners, locks, write, faults, past>>

(* ... and one that is not is written again under its own identifier. *)
RetryWrite(g, w) ==
    /\ retry.at = "next"
    /\ g \in retry.todo
    /\ ~OnDisk(g[1], g[2])
    /\ index = None
    /\ Attempt(w)
    /\ PersistGap(g[1], g[2], ~AtCap(g[1]), w)
    /\ retry' = [retry EXCEPT !.at = IF ~AtCap(g[1]) /\ w = "ok" THEN "clear" ELSE "next",
                              !.todo = @ \ {g}, !.key = g[1]]
    /\ UNCHANGED <<acked, minted, subject, owners, locks, write, pruned>>

(* clearPendingGap; a failed write is logged and the gap stays held. *)
ClearGap(w) ==
    /\ retry.at = "clear"
    /\ Attempt(w)
    /\ pendingGap' = IF Lands(w) THEN [pendingGap EXCEPT ![retry.key] = 0] ELSE pendingGap
    /\ retry' = [retry EXCEPT !.at = "next", !.key = None]
    /\ UNCHANGED <<files, unpersisted, capacity, minted, subject, owners, locks, write, past>>

EndRetry ==
    /\ retry.at = "next"
    /\ retry.todo = {}
    /\ retry' = NoRetry
    /\ UNCHANGED <<files, status, minted, subject, owners, locks, write, faults, past>>
=============================================================================
