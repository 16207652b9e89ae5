----------------------------- MODULE EventProofs -----------------------------
(***************************************************************************)
(* What becomes of the events: that writes respect the capacities, and     *)
(* that every event is accounted for - with the owner of its run or in     *)
(* a pending transfer, in one mailbox, counted when it was lost - for any  *)
(* managers, runs, writers and bounds, with crashes and failed writes.     *)
(* The invariants are layered, each proved from the ones before it.        *)
(***************************************************************************)
EXTENDS OwnershipProofs

-----------------------------------------------------------------------------
(* The mailboxes, the flocks and the counters, with every identifier one   *)
(* that was minted.                                                        *)
Minted == 1..minted

BoxTypes ==
    /\ unread \in [Managers -> SUBSET Minted] /\ acked \in [Managers -> SUBSET Minted]
    /\ unpersisted \in [Managers -> Nat]
    /\ pendingGap \in [Managers -> Minted \cup {0}]
    /\ capacity \in {"ok", "degraded"}
    /\ subject \in [Ids -> Runs \cup {0}]
    /\ gaps \subseteq Minted
    /\ retry.todo \subseteq Managers \X Minted
    /\ retry.at = "clear" => retry.key \in Managers
    /\ \A p \in Writers : write[p].at # "idle" => write[p].run \in Runs /\ write[p].id \in Minted
    /\ runLock \in [Runs -> Writers \cup {None, Holder}]
    /\ index \in Writers \cup {None, Holder}
    /\ phase \in {"down", "replaying", "gaps", "serving"}
    /\ faults \in 0..MaxFaults /\ crashes \in 0..MaxCrashes

(* Transfers are numbered in their order, the pending one last. *)
Numbered ==
    /\ \A d \in done : d.id \in 1..Cardinality(done)
    /\ \A d, e \in done : d.id = e.id => d = e
    /\ \A p \in journal : p.id = Cardinality(done) + 1
    /\ Transfers \in 0..MaxTransfers
    /\ minted <= MaxEvents + 2 * Transfers
    /\ op.ask # NoAsk /\ ~op.fresh => Transfers < MaxTransfers

(* What the freeze put into a plan. *)
Frozen(p) ==
    /\ p.from # p.to
    /\ p.notice[1] \in Minted /\ p.notice[2] = p.notice[1] + 1 /\ p.notice[2] \in Minted
    /\ p.unread \subseteq 1..(p.notice[1] - 1)
    /\ p.moved \in BOOLEAN

(* The operation finishes the plan that is in the journal.  Between the    *)
(* moves and the checkpoint it knows that they are complete, the journal   *)
(* does not.                                                               *)
InHand ==
    /\ op.ask # NoAsk => op.ask.from # op.ask.to
    /\ op.at \in Deciding \cup Finishing /\ op.plan # NoPlan =>
         IF op.at = "checkpoint"
         THEN op.plan.moved /\ \E p \in journal : ~p.moved /\ op.plan = [p EXCEPT !.moved = TRUE]
         ELSE op.plan \in journal
    /\ op.at = "moves" => ~op.plan.moved /\ op.todo \subseteq op.plan.unread
    /\ op.at \in {"notice from", "notice to", "retarget"} => op.plan.moved
    /\ op.missing \subseteq Minted
    /\ op.at \in {"idle", "replay"} \cup Deciding => ~op.fresh
    /\ op.at = "lock" => op.todo \subseteq (IF op.plan = NoPlan THEN op.ask.runs ELSE op.plan.runs)

PlansInv == Numbered /\ (\A p \in journal : Frozen(p)) /\ InHand

PlanInv == BoxTypes /\ PlansInv

(* The histories: entries of finished transfers, then the pending one's.   *)
Entries(h) == \A n \in 1..Len(h) : h[n].by \in 0..Cardinality(done)

Continues(p, r) ==
    \E h \in OwnerHistory :
        /\ Entries(h) /\ h[Len(h)].session = p.from
        /\ p.owners[r] = Append(h, [session |-> p.to, by |-> p.id])
        /\ owners[r] \in {h, p.owners[r]}

HistoryInv ==
    /\ \A r \in Runs : Entries(owners[r]) \/ \E p \in journal : r \in p.runs /\ owners[r] = p.owners[r]
    /\ \A p \in journal : \A r \in p.runs : Continues(p, r)
    /\ \A p \in journal : p.moved => \A r \in p.runs : owners[r] = p.owners[r]
    /\ \A d \in done : d.runs \subseteq Runs
    /\ BatchIsWhole

(* What the operation knows of the owners. *)
TargetInv ==
    /\ op.at \in {"verified", "freeze"} => \A r \in op.ask.runs : OwnerOf(r) = op.ask.from
    /\ op.at \in Finishing \ {"claim"} =>
         \A r \in op.plan.runs \ (IF op.at = "owners" THEN op.todo ELSE {}) : owners[r] = op.plan.owners[r]

OwnersInv == HistoryInv /\ TargetInv

(* Who holds which flock. *)
Wanted == IF op.plan = NoPlan THEN op.ask.runs ELSE op.plan.runs

WriterLocks ==
    /\ \A p \in Writers : write[p].at # "idle" =>
          /\ runLock[write[p].run] = p
          /\ write[p].key = OwnerOf(write[p].run)
          /\ subject[write[p].id] = write[p].run
    /\ \A p \in Writers : write[p].at = "scanned" => index = p

OpLocks ==
    /\ op.at \in Deciding \cup Finishing =>
          \A r \in Wanted \ (IF op.at = "lock" THEN op.todo ELSE {}) : runLock[r] = Holder
    /\ op.at \in Finishing \cup {"freeze"} => index = Holder
    /\ op.at # "idle" => phase \in {"replaying", "serving"}

FlockInv == WriterLocks /\ OpLocks

(* A writer that was admitted still has room. *)
RoomInv ==
    /\ IsFiniteSet(UNION {{k} \X unread[k] : k \in Managers})
    /\ \A p \in Writers : write[p].at = "scanned" /\ write[p].room => ~AtCap(write[p].key)

OnSomeDisk(e) == \E k \in Managers : OnDisk(k, e)

(* The event of a writer is nowhere yet. *)
Fresh ==
    \A p \in Writers : write[p].at # "idle" =>
        ~OnSomeDisk(write[p].id) /\ \A t \in journal : write[p].id \notin t.unread

(* A gap is about no run, and what is held or retried is a gap. *)
GapIds ==
    /\ \A k \in Managers : pendingGap[k] # 0 => pendingGap[k] \in gaps
    /\ \A g \in retry.todo : g[2] \in gaps
    /\ \A e \in Ids : e > minted \/ e \in gaps => subject[e] = 0

(* A notice of a pending transfer is in its mailbox or nowhere. *)
NoticeIds ==
    \A p \in journal : \A i \in {1, 2} :
        /\ p.notice[i] \notin gaps /\ subject[p.notice[i]] = 0
        /\ \A k \in Managers : OnDisk(k, p.notice[i]) => k = <<p.from, p.to>>[i]

IdInv == Fresh /\ GapIds /\ NoticeIds /\ EventsAreUnique

(* Without a failed write, whoever serves has no transfer with moves to    *)
(* make, but for the one that is making them.                              *)
Settled ==
    faults = 0 /\ phase \in {"gaps", "serving"} =>
        \A p \in journal : p.moved \/ op.at \in {"claim", "owners", "moves", "checkpoint"}

(* An event of a run is with the owner, or with a party of the pending     *)
(* transfer of the run, or it was written after the freeze.                *)
Placed ==
    \A k \in Managers : \A e \in unread[k] : subject[e] # 0 =>
        \/ e \in carried
        \/ k = OwnerOf(subject[e])
        \/ faults > 0 /\ WrittenAfterFreeze(e, k)
        \/ \E p \in journal : subject[e] \in p.runs /\ k \in {p.from, p.to}

(* What the source has of the transferred runs was there at the freeze, or *)
(* it came after it, and after a failed write.                             *)
Listed ==
    \A p \in journal : \A e \in unread[p.from] : subject[e] \in p.runs =>
        e \in p.unread \/ (faults > 0 /\ e > p.notice[2])

Late ==
    \A p \in journal : \A q \in Writers :
        write[q].at # "idle" /\ write[q].run \in p.runs /\ write[q].key = p.from => faults > 0 /\ write[q].id > p.notice[2]

(* The moves take what they are given, and are complete when they end. *)
Moved ==
    /\ \A p \in journal : p.moved \/ op.at = "checkpoint" => \A e \in p.unread \cap unread[p.from] : subject[e] = 0
    /\ op.at = "moves" => \A e \in op.plan.unread \cap unread[op.plan.from] : subject[e] = 0 \/ e \in op.todo

PlaceInv == Settled /\ Placed /\ Listed /\ Late /\ Moved

(* Without a failed write nothing that is to be moved was handled. *)
Unhandled ==
    faults = 0 => \A p \in journal : ~p.moved => p.unread \subseteq unread[p.from] \cup unread[p.to]

(* The losses and their accounts. *)
Tally ==
    /\ DOMAIN refused = Managers /\ \A k \in Managers : IsFiniteSet(refused[k])
    /\ unlogged \in Nat
    /\ LossesAreCounted

LossInv == Unhandled /\ HandledIsNotLost /\ Tally

-----------------------------------------------------------------------------
(* What the parts of a step do. *)

(* An event is not lost, or counted, or its accounting is lost too. *)
Counted(k, e) ==
    \/ UNCHANGED <<refused, unpersisted, unlogged>>
    \/ /\ refused' = [refused EXCEPT ![k] = @ \cup {e}]
       /\ \/ unpersisted' = [unpersisted EXCEPT ![k] = @ + 1] /\ unlogged' = unlogged
          \/ unpersisted' = unpersisted /\ unlogged' = unlogged + 1

(* A persisted run event is in the mailbox it had room in, or it is lost   *)
(* and counted.                                                            *)
LEMMA PersistRunEffects ==
    ASSUME NEW k \in Managers, NEW e, NEW room \in BOOLEAN, NEW w \in Writes, PersistRun(k, e, room, w)
    PROVE  /\ unread' = unread \/ (room /\ unread' = [unread EXCEPT ![k] = @ \cup {e}])
           /\ capacity' \in {capacity, "ok", "degraded"}
           /\ pendingGap' = pendingGap
           /\ Counted(k, e)
  <1>1. CASE Land(k, e) /\ room
    BY <1>1 DEF Land, CapState, Counted
  <1>2. ASSUME NEW a \in BOOLEAN, Refuse(k, e, a), unread' = unread \/ (room /\ unread' = [unread EXCEPT ![k] = @ \cup {e}])
        PROVE  /\ capacity' \in {capacity, "ok", "degraded"}
               /\ pendingGap' = pendingGap
               /\ Counted(k, e)
    BY <1>2 DEF Refuse, CountLoss, Counted
  <1>3. \/ Land(k, e) /\ room
        \/ \E a \in BOOLEAN : Refuse(k, e, a) /\ (unread' = unread \/ (room /\ unread' = [unread EXCEPT ![k] = @ \cup {e}]))
    BY DEF PersistRun
  <1> QED
    BY <1>1, <1>2, <1>3

(* A gap is written, held or lost; held or on disk it is one of the gaps.  *)
GapPlaced(k, e, room) ==
    /\ unread' = unread \/ (room /\ unread' = [unread EXCEPT ![k] = @ \cup {e}])
    /\ capacity' \in {capacity, "ok", "degraded"}
    /\ pendingGap' = pendingGap \/ (pendingGap' = [pendingGap EXCEPT ![k] = e] /\ e \in gaps')
    /\ gaps' = gaps \/ gaps' = gaps \cup {e}
    /\ unread' # unread => e \in gaps'

LEMMA PersistGapEffects ==
    ASSUME MailboxShape, NEW k \in Managers, NEW e, NEW room \in BOOLEAN, NEW w \in Writes, PersistGap(k, e, room, w)
    PROVE  GapPlaced(k, e, room) /\ Counted(k, e)
  <1>1. CASE room /\ PersistRun(k, e, room, w) /\ gaps' = IF e \in unread'[k] THEN gaps \cup {e} ELSE gaps
    <2>0. unread' = unread \/ (room /\ unread' = [unread EXCEPT ![k] = @ \cup {e}])
      BY <1>1, PersistRunEffects, Zenon
    <2>1. unread' # unread => e \in unread'[k]
      BY <2>0 DEF MailboxShape
    <2>2. (gaps' = gaps \/ gaps' = gaps \cup {e}) /\ (unread' # unread => e \in gaps')
      BY <1>1, <2>1
    <2> QED
      BY <1>1, <2>2, PersistRunEffects DEF GapPlaced
  <1>2. CASE ~room
    BY <1>2 DEF PersistGap, CountLoss, Counted, GapPlaced
  <1> QED
    BY <1>1, <1>2 DEF PersistGap

LEMMA MintedGrows ==
    ASSUME minted \in Nat, minted' \in Nat, minted <= minted'
    PROVE  Minted \subseteq Minted' /\ (minted < minted' => minted' \in Minted' /\ minted' \notin Minted)
  BY DEF Minted

-----------------------------------------------------------------------------
(* The types of the mailboxes, step by step. *)

(* The types are those of a greater number of identifiers too. *)
LEMMA BoxTypesWiden ==
    ASSUME BoxTypes, minted \in Nat, minted' \in Nat, minted <= minted'
    PROVE  /\ unread \in [Managers -> SUBSET Minted'] /\ acked \in [Managers -> SUBSET Minted']
           /\ pendingGap \in [Managers -> Minted' \cup {0}]
           /\ gaps \subseteq Minted'
           /\ retry.todo \subseteq Managers \X Minted'
           /\ \A p \in Writers : write[p].at # "idle" => write[p].run \in Runs /\ write[p].id \in Minted'
  <1>1. Minted \subseteq Minted'
    BY MintedGrows
  <1>2. unread \in [Managers -> SUBSET Minted'] /\ acked \in [Managers -> SUBSET Minted']
    BY <1>1 DEF BoxTypes
  <1>3. pendingGap \in [Managers -> Minted' \cup {0}] /\ gaps \subseteq Minted'
    BY <1>1 DEF BoxTypes
  <1>4. \A p \in Writers : write[p].at # "idle" => write[p].run \in Runs /\ write[p].id \in Minted'
    BY <1>1 DEF BoxTypes
  <1>5. retry.todo \subseteq Managers \X Minted'
    BY <1>1 DEF BoxTypes
  <1> QED
    BY <1>2, <1>3, <1>4, <1>5

(* A write attempt is counted. *)
LEMMA AttemptTypes ==
    ASSUME faults \in 0..MaxFaults, NEW w, Attempt(w)
    PROVE  faults' \in 0..MaxFaults /\ faults <= faults' /\ (faults' = 0 => w = "ok")
  BY MailboxAssumption DEF Attempt

LEMMA PersistRunTypes ==
    ASSUME BoxTypes, minted \in Nat, minted' \in Nat, minted <= minted',
           NEW k \in Managers, NEW e \in Minted', NEW room \in BOOLEAN, NEW w \in Writes, PersistRun(k, e, room, w)
    PROVE  /\ unread' \in [Managers -> SUBSET Minted']
           /\ unpersisted' \in [Managers -> Nat]
           /\ capacity' \in {"ok", "degraded"}
           /\ pendingGap' \in [Managers -> Minted' \cup {0}]
  <1>0. Counted(k, e)
    BY PersistRunEffects
  <1>1. /\ unread' = unread \/ unread' = [unread EXCEPT ![k] = @ \cup {e}]
        /\ unpersisted' = unpersisted \/ unpersisted' = [unpersisted EXCEPT ![k] = @ + 1]
        /\ pendingGap' = pendingGap /\ capacity' \in {capacity, "ok", "degraded"}
    BY <1>0, PersistRunEffects DEF Counted
  <1>2. unread \in [Managers -> SUBSET Minted'] /\ pendingGap \in [Managers -> Minted' \cup {0}]
    BY BoxTypesWiden
  <1>3. unpersisted \in [Managers -> Nat] /\ capacity \in {"ok", "degraded"}
    BY DEF BoxTypes
  <1> QED
    BY <1>1, <1>2, <1>3

LEMMA PersistGapTypes ==
    ASSUME BoxTypes, MailboxShape, minted \in Nat, minted' \in Nat, minted <= minted',
           NEW k \in Managers, NEW e \in Minted', NEW room \in BOOLEAN, NEW w \in Writes, PersistGap(k, e, room, w)
    PROVE  /\ unread' \in [Managers -> SUBSET Minted']
           /\ unpersisted' \in [Managers -> Nat]
           /\ capacity' \in {"ok", "degraded"}
           /\ pendingGap' \in [Managers -> Minted' \cup {0}]
           /\ gaps' \subseteq Minted'
  <1>1. GapPlaced(k, e, room) /\ Counted(k, e)
    BY PersistGapEffects
  <1>4. unpersisted' = unpersisted \/ unpersisted' = [unpersisted EXCEPT ![k] = @ + 1]
    BY <1>1 DEF Counted
  <1>2. unread \in [Managers -> SUBSET Minted'] /\ pendingGap \in [Managers -> Minted' \cup {0}] /\ gaps \subseteq Minted'
    BY BoxTypesWiden
  <1>3. unpersisted \in [Managers -> Nat] /\ capacity \in {"ok", "degraded"}
    BY DEF BoxTypes
  <1> QED
    BY <1>1, <1>2, <1>3, <1>4 DEF GapPlaced

(* The writers. *)
LEMMA WriterTypes ==
    ASSUME BoxTypes, MailboxShape, NEW p \in Writers, UNCHANGED <<phase, crashes>>,
           \/ \E r \in Runs : BeginWrite(p, r)
           \/ AdmitWrite(p) \/ WriteTimesOut(p)
           \/ \E w \in Writes : LandWrite(p, w)
    PROVE  BoxTypes'
  <1> USE DEF files, status, locks, past
  <1>0. minted \in Nat /\ write \in [Writers -> WriteShape]
    BY DEF MailboxShape
  <1>1. ASSUME NEW r \in Runs, BeginWrite(p, r) PROVE BoxTypes'
    <2>1. minted' = minted + 1 /\ minted' \in Nat /\ minted <= minted' /\ minted' \in Minted'
      BY <1>0, <1>1, MintedGrows DEF BeginWrite
    <2>2. UNCHANGED <<unread, acked, unpersisted, pendingGap, capacity, gaps, retry, index, faults>>
      BY <1>1 DEF BeginWrite
    <2>3. subject' \in [Ids -> Runs \cup {0}]
      BY <1>1 DEF BeginWrite, BoxTypes
    <2>4. runLock' \in [Runs -> Writers \cup {None, Holder}]
      BY <1>1 DEF BeginWrite, BoxTypes
    <2> DEFINE begun == [at |-> "resolved", run |-> r, key |-> OwnerOf(r), id |-> minted', room |-> FALSE]
    <2>5. write' = [write EXCEPT ![p] = begun] /\ begun.run \in Runs /\ begun.id \in Minted'
      BY <1>1, <2>1 DEF BeginWrite
    <2> HIDE DEF begun
    <2>6. \A q \in Writers : write'[q].at # "idle" => write'[q].run \in Runs /\ write'[q].id \in Minted'
      BY <1>0, <2>1, <2>5, BoxTypesWiden
    <2> QED
      BY <1>0, <2>1, <2>2, <2>3, <2>4, <2>6, BoxTypesWiden DEF BoxTypes
  <1>2. CASE AdmitWrite(p)
    <2>1. UNCHANGED <<unread, acked, unpersisted, pendingGap, capacity, gaps, retry, runLock, faults, minted, subject>>
      BY <1>2 DEF AdmitWrite
    <2>2. index' \in Writers \cup {None, Holder}
      BY <1>2 DEF AdmitWrite
    <2>3. \A q \in Writers : write'[q].run = write[q].run /\ write'[q].id = write[q].id
                            /\ (write'[q].at # "idle" => write[q].at # "idle")
      <3> DEFINE admitted == [write[p] EXCEPT !.at = "scanned", !.room = ~AtCap(write[p].key)]
      <3>1. write' = [write EXCEPT ![p] = admitted] /\ write[p].at # "idle"
        BY <1>2 DEF AdmitWrite
      <3>2. admitted.run = write[p].run /\ admitted.id = write[p].id
        BY <1>0 DEF WriteShape
      <3> HIDE DEF admitted
      <3> QED
        BY <1>0, <3>1, <3>2
    <2>4. Minted' = Minted
      BY <2>1 DEF Minted
    <2> QED
      BY <2>1, <2>2, <2>3, <2>4 DEF BoxTypes
  <1>3. CASE WriteTimesOut(p)
    <2>1. UNCHANGED <<unread, acked, unpersisted, pendingGap, capacity, gaps, retry, index, faults, minted, subject>>
      BY <1>3 DEF WriteTimesOut
    <2>2. runLock' \in [Runs -> Writers \cup {None, Holder}]
      BY <1>3 DEF WriteTimesOut, BoxTypes
    <2>3. \A q \in Writers : write'[q] = write[q] \/ write'[q].at = "idle"
      BY <1>0, <1>3 DEF WriteTimesOut, NoWrite
    <2>4. Minted' = Minted
      BY <2>1 DEF Minted
    <2> QED
      BY <2>1, <2>2, <2>3, <2>4 DEF BoxTypes
  <1>4. ASSUME NEW w \in Writes, LandWrite(p, w) PROVE BoxTypes'
    <2>1. UNCHANGED <<acked, minted, subject, retry, gaps>> /\ index' = None
      BY <1>4 DEF LandWrite
    <2>2. runLock' \in [Runs -> Writers \cup {None, Holder}]
      BY <1>4 DEF LandWrite, BoxTypes
    <2>3. \A q \in Writers : write'[q] = write[q] \/ write'[q].at = "idle"
      BY <1>0, <1>4 DEF LandWrite, NoWrite
    <2>4. Minted' = Minted
      BY <2>1 DEF Minted
    <2>5. faults' \in 0..MaxFaults
      BY <1>4, AttemptTypes DEF LandWrite, BoxTypes
    <2>6. write[p].key \in Managers /\ write[p].id \in Minted' /\ write[p].room \in BOOLEAN
      BY <1>0, <1>4, <2>4 DEF LandWrite, BoxTypes, MailboxShape, WriteShape
    <2>7. PersistRun(write[p].key, write[p].id, write[p].room, w)
      BY <1>4 DEF LandWrite
    <2>8. /\ unread' \in [Managers -> SUBSET Minted'] /\ unpersisted' \in [Managers -> Nat]
          /\ capacity' \in {"ok", "degraded"} /\ pendingGap' \in [Managers -> Minted' \cup {0}]
      BY <1>0, <2>1, <2>6, <2>7, PersistRunTypes
    <2> QED
      BY <2>1, <2>2, <2>3, <2>4, <2>5, <2>8 DEF BoxTypes
  <1> QED
    BY <1>1, <1>2, <1>3, <1>4

(* The manager and the heartbeat. *)
LEMMA AckTypes ==
    ASSUME BoxTypes, NEW k \in Managers, NEW e \in unread[k], Ack(k, e), UNCHANGED <<phase, crashes>>
    PROVE  BoxTypes'
  <1>1. UNCHANGED <<unpersisted, pendingGap, minted, subject, runLock, index, write, retry, faults, gaps>>
    BY DEF Ack, locks
  <1>2. e \in Minted /\ Newest(acked[k] \cup {e}) \subseteq acked[k] \cup {e} /\ acked[k] \subseteq Minted
    BY DEF Newest, BoxTypes
  <1>3. acked' \in [Managers -> SUBSET Minted]
    BY <1>2 DEF Ack, BoxTypes
  <1>4. unread' \in [Managers -> SUBSET Minted]
    BY DEF Ack, BoxTypes
  <1>5. capacity' \in {"ok", "degraded"}
    BY DEF Ack, CapState
  <1>6. Minted' = Minted
    BY <1>1 DEF Minted
  <1> QED
    BY <1>1, <1>3, <1>4, <1>5, <1>6 DEF BoxTypes

LEMMA GapTypes ==
    ASSUME BoxTypes, MailboxShape, NEW k \in Managers, NEW w \in Writes, WriteGap(k, w), UNCHANGED <<phase, crashes>>
    PROVE  BoxTypes'
  <1>0. minted \in Nat
    BY DEF MailboxShape
  <1>1. minted' = minted + 1 /\ minted' \in Nat /\ minted <= minted' /\ minted' \in Minted'
    BY <1>0, MintedGrows DEF WriteGap
  <1>2. UNCHANGED <<acked, subject, runLock, index, write, retry>>
    BY DEF WriteGap, locks
  <1>3. faults' \in 0..MaxFaults
    BY AttemptTypes DEF WriteGap, BoxTypes
  <1>4. PersistGap(k, minted', ~AtCap(k), w) /\ (~AtCap(k)) \in BOOLEAN
    BY DEF WriteGap
  <1>5. /\ unread' \in [Managers -> SUBSET Minted'] /\ unpersisted' \in [Managers -> Nat]
        /\ capacity' \in {"ok", "degraded"} /\ pendingGap' \in [Managers -> Minted' \cup {0}]
        /\ gaps' \subseteq Minted'
    BY <1>0, <1>1, <1>4, PersistGapTypes
  <1> QED
    BY <1>0, <1>1, <1>2, <1>3, <1>5, BoxTypesWiden DEF BoxTypes

LEMMA RetryTypes ==
    ASSUME BoxTypes, MailboxShape, UNCHANGED <<phase, crashes>>,
           \/ BeginRetry \/ EndRetry
           \/ \E g \in retry.todo : RetryOnDisk(g)
           \/ \E g \in retry.todo, w \in Writes : RetryWrite(g, w)
           \/ \E w \in Writes : ClearGap(w)
    PROVE  BoxTypes'
  <1> USE DEF files, status, locks, past
  <1>0. minted \in Nat /\ retry \in RetryShape
    BY DEF MailboxShape
  <1>1. UNCHANGED <<acked, minted, subject, runLock, index, write>>
    BY DEF BeginRetry, EndRetry, RetryOnDisk, RetryWrite, ClearGap
  <1>2. Minted' = Minted /\ minted' \in Nat /\ minted <= minted'
    BY <1>0, <1>1 DEF Minted
  <1>3. CASE BeginRetry
    <2>1. UNCHANGED <<unread, unpersisted, pendingGap, capacity, gaps, faults>>
      BY <1>3 DEF BeginRetry
    <2>2. retry'.todo = {<<j, pendingGap[j]>> : j \in {x \in Managers : pendingGap[x] # 0}} /\ retry'.at = "next"
      BY <1>3 DEF BeginRetry, NoRetry
    <2>3. retry'.todo \subseteq Managers \X Minted
      BY <2>2 DEF BoxTypes
    <2> QED
      BY <1>1, <1>2, <2>1, <2>2, <2>3 DEF BoxTypes
  <1>4. CASE EndRetry
    <2>1. UNCHANGED <<unread, unpersisted, pendingGap, capacity, gaps, faults>>
      BY <1>4 DEF EndRetry
    <2>2. retry'.todo = {} /\ retry'.at = "idle"
      BY <1>4 DEF EndRetry, NoRetry
    <2> QED
      BY <1>1, <1>2, <2>1, <2>2 DEF BoxTypes
  <1>5. ASSUME NEW g \in retry.todo, RetryOnDisk(g) PROVE BoxTypes'
    <2>1. UNCHANGED <<unread, unpersisted, pendingGap, capacity, gaps, faults>>
      BY <1>5 DEF RetryOnDisk
    <2>2. retry'.todo = retry.todo \ {g} /\ retry'.key = g[1]
      BY <1>0, <1>5 DEF RetryOnDisk, RetryShape
    <2>3. g[1] \in Managers /\ retry'.todo \subseteq Managers \X Minted
      BY <2>2 DEF BoxTypes
    <2> QED
      BY <1>1, <1>2, <2>1, <2>2, <2>3 DEF BoxTypes
  <1>6. ASSUME NEW g \in retry.todo, NEW w \in Writes, RetryWrite(g, w) PROVE BoxTypes'
    <2>1. faults' \in 0..MaxFaults
      BY <1>6, AttemptTypes DEF RetryWrite, BoxTypes
    <2>2. retry'.todo = retry.todo \ {g} /\ retry'.key = g[1]
      BY <1>0, <1>6 DEF RetryWrite, RetryShape
    <2>3. g[1] \in Managers /\ g[2] \in Minted' /\ retry'.todo \subseteq Managers \X Minted
      BY <1>2, <2>2 DEF BoxTypes
    <2>4. PersistGap(g[1], g[2], ~AtCap(g[1]), w) /\ (~AtCap(g[1])) \in BOOLEAN
      BY <1>6 DEF RetryWrite
    <2>5. /\ unread' \in [Managers -> SUBSET Minted'] /\ unpersisted' \in [Managers -> Nat]
          /\ capacity' \in {"ok", "degraded"} /\ pendingGap' \in [Managers -> Minted' \cup {0}]
          /\ gaps' \subseteq Minted'
      BY <1>0, <1>2, <2>3, <2>4, PersistGapTypes
    <2> QED
      BY <1>1, <1>2, <2>1, <2>2, <2>3, <2>5 DEF BoxTypes
  <1>7. ASSUME NEW w \in Writes, ClearGap(w) PROVE BoxTypes'
    <2>1. UNCHANGED <<unread, unpersisted, capacity, gaps>> /\ faults' \in 0..MaxFaults
      BY <1>7, AttemptTypes DEF ClearGap, BoxTypes
    <2>2. retry'.todo = retry.todo /\ retry'.at = "next"
      BY <1>0, <1>7 DEF ClearGap, RetryShape
    <2>3. pendingGap' \in [Managers -> Minted \cup {0}]
      BY <1>7 DEF ClearGap, BoxTypes
    <2> QED
      BY <1>1, <1>2, <2>1, <2>2, <2>3 DEF BoxTypes
  <1> QED
    BY <1>3, <1>4, <1>5, <1>6, <1>7

LEMMA CrashTypes ==
    ASSUME BoxTypes, MailboxShape, Crash
    PROVE  BoxTypes'
  <1>1. UNCHANGED <<acked, unpersisted, pendingGap, capacity, minted, subject, faults, gaps>>
    BY DEF Crash, status, past
  <1>2. PICK linked \in SUBSET {p \in Writers : write[p].at = "scanned" /\ write[p].room} :
            unread' = [k \in Managers |-> unread[k] \cup {write[p].id : p \in {q \in linked : write[q].key = k}}]
    BY DEF Crash
  <1>3. \A p \in linked : write[p].id \in Minted
    BY DEF BoxTypes
  <1>4. unread' \in [Managers -> SUBSET Minted]
    BY <1>2, <1>3 DEF BoxTypes
  <1>5. phase' = "down" /\ crashes' \in 0..MaxCrashes /\ index' = None /\ retry'.todo = {} /\ retry'.at = "idle"
    BY OwnershipAssumption DEF Crash, BoxTypes, NoRetry
  <1>6. runLock' \in [Runs -> Writers \cup {None, Holder}] /\ \A p \in Writers : write'[p].at = "idle"
    BY DEF Crash, NoWrite
  <1>7. Minted' = Minted
    BY <1>1 DEF Minted
  <1> QED
    BY <1>1, <1>4, <1>5, <1>6, <1>7 DEF BoxTypes

-----------------------------------------------------------------------------
(* The steps of the operation: where it goes, and what it does to the      *)
(* flocks and to the phase.                                                *)
Goes(at, plan, fresh, todo, missing) ==
    /\ op'.at = at /\ op'.ask = op.ask /\ op'.plan = plan /\ op'.fresh = fresh
    /\ op'.todo = todo /\ op'.missing = missing

Holds == UNCHANGED <<runLock, index, phase, crashes>>

Lets ==
    /\ \A r \in Runs : runLock'[r] = IF runLock[r] = Holder THEN None ELSE runLock[r]
    /\ runLock' \in [Runs -> Writers \cup {None, Holder}]
    /\ index' = IF index = Holder THEN None ELSE index

(* The operation throws: it is over, and so is the start that asked for it *)
(* unless only a notice is pending.                                        *)
Throws ==
    /\ op' = NoOp /\ Lets /\ crashes' = crashes
    /\ IF phase = "serving" THEN phase' = phase
       ELSE phase' = "down" \/ (phase' = "gaps" /\ op.at \in {"notice from", "notice to"})

LEMMA LetsGo ==
    ASSUME BoxTypes, ReleaseLocks
    PROVE  Lets
  BY DEF ReleaseLocks, Lets, BoxTypes

LEMMA AbortThrows ==
    ASSUME BoxTypes, NEW code, Abort(code), code = "TRANSFER_PENDING" => op.at \in {"notice from", "notice to"}
    PROVE  Throws
  BY LetsGo DEF Abort, Throws, Serving

LEMMA ThrowsEnds ==
    ASSUME Throws
    PROVE  op'.at = "idle" /\ op'.missing = {}
  <1>1. op' = NoOp
    BY DEF Throws
  <1> QED
    BY <1>1 DEF NoOp

LEMMA ContinueHolds ==
    ASSUME NEW next, Continue(next)
    PROVE  op' = next /\ Holds
  BY DEF Continue, Holds, locks, daemon

(* The operation's record, one assignment to its fields after another.     *)
LEMMA OpSet ==
    ASSUME OperationInv, NEW a, NEW q, NEW f, NEW t, NEW m
    PROVE  /\ op' = [op EXCEPT !.at = a] => Goes(a, op.plan, op.fresh, op.todo, op.missing)
           /\ op' = [op EXCEPT !.todo = t] => Goes(op.at, op.plan, op.fresh, t, op.missing)
           /\ op' = [op EXCEPT !.at = a, !.todo = t] => Goes(a, op.plan, op.fresh, t, op.missing)
           /\ op' = [op EXCEPT !.at = a, !.plan = q] => Goes(a, q, op.fresh, op.todo, op.missing)
           /\ op' = [op EXCEPT !.at = a, !.plan = q, !.todo = t] => Goes(a, q, op.fresh, t, op.missing)
           /\ op' = [op EXCEPT !.at = a, !.plan = q, !.fresh = f] => Goes(a, q, f, op.todo, op.missing)
           /\ op' = [op EXCEPT !.todo = t, !.missing = m] => Goes(op.at, op.plan, op.fresh, t, m)
           /\ op' = [op EXCEPT !.at = a, !.missing = m, !.plan = q] => Goes(a, q, op.fresh, op.todo, m)
  <1>0. op = [at |-> op.at, ask |-> op.ask, plan |-> op.plan, fresh |-> op.fresh, todo |-> op.todo, missing |-> op.missing]
    BY DEF OperationInv
  <1>1. op' = [op EXCEPT !.at = a] => Goes(a, op.plan, op.fresh, op.todo, op.missing)
    BY <1>0 DEF Goes
  <1>2. op' = [op EXCEPT !.todo = t] => Goes(op.at, op.plan, op.fresh, t, op.missing)
    BY <1>0 DEF Goes
  <1>3. op' = [op EXCEPT !.at = a, !.todo = t] => Goes(a, op.plan, op.fresh, t, op.missing)
    BY <1>0 DEF Goes
  <1>4. op' = [op EXCEPT !.at = a, !.plan = q] => Goes(a, q, op.fresh, op.todo, op.missing)
    BY <1>0 DEF Goes
  <1>5. op' = [op EXCEPT !.at = a, !.plan = q, !.todo = t] => Goes(a, q, op.fresh, t, op.missing)
    BY <1>0 DEF Goes
  <1>6. op' = [op EXCEPT !.at = a, !.plan = q, !.fresh = f] => Goes(a, q, f, op.todo, op.missing)
    BY <1>0 DEF Goes
  <1>7. op' = [op EXCEPT !.todo = t, !.missing = m] => Goes(op.at, op.plan, op.fresh, t, m)
    BY <1>0 DEF Goes
  <1>8. op' = [op EXCEPT !.at = a, !.missing = m, !.plan = q] => Goes(a, q, op.fresh, op.todo, m)
    BY <1>0 DEF Goes
  <1> QED
    BY <1>1, <1>2, <1>3, <1>4, <1>5, <1>6, <1>7, <1>8

(* What is left alone while only the operation itself moves. *)
OnlyOp ==
    UNCHANGED <<unread, acked, unpersisted, pendingGap, capacity, minted, subject, owners, write, retry, faults,
                accepted, refused, pruned, unlogged, gaps, claims, journal, done, carried>>

LEMMA DecidingEffects ==
    ASSUME BoxTypes, OperationInv
    PROVE  /\ \A p \in journal : ReplayNext(p) =>
                 op.at = "replay" /\ Goes("lock", p, op.fresh, p.runs, op.missing) /\ Holds /\ OnlyOp
           /\ ReplayDone => op.at = "replay" /\ journal = {} /\ Holds /\ OnlyOp
                 /\ \/ op' = NoOp
                    \/ op.ask # NoAsk /\ Goes("lock", op.plan, op.fresh, op.ask.runs, op.missing)
           /\ Verify => /\ op.at = "lock" /\ op.todo = {} /\ op.plan = NoPlan /\ Authorized(op.ask)
                        /\ Goes("verified", op.plan, op.fresh, op.todo, op.missing) /\ Holds /\ OnlyOp
           /\ VerifyRefuses => op.at = "lock" /\ op.plan = NoPlan /\ Throws /\ OnlyOp
           /\ LockTimesOut => op.at \in {"lock", "verified"} /\ Throws /\ OnlyOp
           /\ OwnersWritten => /\ op.at = "owners" /\ op.todo = {} /\ Holds /\ OnlyOp
                               /\ IF op.plan.moved THEN Goes("notice from", op.plan, op.fresh, op.todo, op.missing)
                                  ELSE Goes("moves", op.plan, op.fresh, op.plan.unread, op.missing)
  <1> USE DEF files, status, locks, past, book, daemon, box, OnlyOp
  <1>0. op = [at |-> op.at, ask |-> op.ask, plan |-> op.plan, fresh |-> op.fresh, todo |-> op.todo, missing |-> op.missing]
    BY DEF OperationInv
  <1>1. ASSUME NEW p \in journal, ReplayNext(p)
        PROVE  op.at = "replay" /\ Goes("lock", p, op.fresh, p.runs, op.missing) /\ Holds /\ OnlyOp
    <2>1. op.at = "replay" /\ OnlyOp /\ Continue([op EXCEPT !.at = "lock", !.plan = p, !.todo = p.runs])
      BY <1>1 DEF ReplayNext
    <2>2. op' = [op EXCEPT !.at = "lock", !.plan = p, !.todo = p.runs] /\ Holds
      BY <2>1, ContinueHolds
    <2> QED
      BY <2>1, <2>2, OpSet
  <1>2. ASSUME ReplayDone
        PROVE  /\ op.at = "replay" /\ journal = {} /\ Holds /\ OnlyOp
               /\ \/ op' = NoOp
                  \/ op.ask # NoAsk /\ Goes("lock", op.plan, op.fresh, op.ask.runs, op.missing)
    BY <1>0, <1>2 DEF ReplayDone, Goes, Holds
  <1>3. ASSUME Verify
        PROVE  /\ op.at = "lock" /\ op.todo = {} /\ op.plan = NoPlan /\ Authorized(op.ask)
               /\ Goes("verified", op.plan, op.fresh, op.todo, op.missing) /\ Holds /\ OnlyOp
    BY <1>0, <1>3, ContinueHolds DEF Verify, Goes
  <1>4. ASSUME VerifyRefuses
        PROVE  op.at = "lock" /\ op.plan = NoPlan /\ Throws /\ OnlyOp
    BY <1>4, AbortThrows DEF VerifyRefuses
  <1>5. ASSUME LockTimesOut
        PROVE  op.at \in {"lock", "verified"} /\ Throws /\ OnlyOp
    BY <1>5, AbortThrows DEF LockTimesOut
  <1>6. ASSUME OwnersWritten
        PROVE  /\ op.at = "owners" /\ op.todo = {} /\ Holds /\ OnlyOp
               /\ IF op.plan.moved THEN Goes("notice from", op.plan, op.fresh, op.todo, op.missing)
                  ELSE Goes("moves", op.plan, op.fresh, op.plan.unread, op.missing)
    <2>1. OnlyOp /\ op.at = "owners" /\ op.todo = {}
      BY <1>6 DEF OwnersWritten
    <2>2. CASE op.plan.moved
      <3>1. op' = [op EXCEPT !.at = "notice from"] /\ Holds
        BY <1>6, <2>2, ContinueHolds DEF OwnersWritten
      <3> QED
        BY <2>1, <2>2, <3>1, OpSet
    <2>3. CASE ~op.plan.moved
      <3>1. op' = [op EXCEPT !.at = "moves", !.todo = op.plan.unread] /\ Holds
        BY <1>6, <2>3, ContinueHolds DEF OwnersWritten
      <3> QED
        BY <2>1, <2>3, <3>1, OpSet
    <2> QED
      BY <2>2, <2>3
  <1> QED
    BY <1>1, <1>2, <1>3, <1>4, <1>5, <1>6

(* The files and the counters are left alone. *)
NoFiles ==
    UNCHANGED <<unread, acked, unpersisted, pendingGap, capacity, subject, write, retry,
                accepted, refused, pruned, unlogged, gaps, carried>>

LEMMA LockingEffects ==
    ASSUME BoxTypes, OperationInv
    PROVE  /\ LockRun => /\ op.at = "lock" /\ op.todo # {} /\ OnlyOp /\ UNCHANGED <<index, phase, crashes>>
                         /\ Goes("lock", op.plan, op.fresh, op.todo \ {Least(op.todo)}, op.missing)
                         /\ runLock[Least(op.todo)] = None
                         /\ runLock' = [runLock EXCEPT ![Least(op.todo)] = Holder]
           /\ LockMailboxes => /\ op.at \in {"lock", "verified"} /\ OnlyOp /\ UNCHANGED <<runLock, phase, crashes>>
                               /\ op.plan # NoPlan => op.at = "verified" \/ op.todo = {}
                               /\ op.plan = NoPlan => op.at = "verified"
                               /\ index = None /\ index' = Holder
                               /\ Goes(IF op.plan # NoPlan THEN "claim" ELSE "freeze", op.plan, op.fresh, op.todo, op.missing)
  <1> USE DEF files, status, locks, past, book, daemon, OnlyOp
  <1>1. ASSUME LockRun
        PROVE  /\ op.at = "lock" /\ op.todo # {} /\ OnlyOp /\ UNCHANGED <<index, phase, crashes>>
               /\ Goes("lock", op.plan, op.fresh, op.todo \ {Least(op.todo)}, op.missing)
               /\ runLock[Least(op.todo)] = None
               /\ runLock' = [runLock EXCEPT ![Least(op.todo)] = Holder]
    <2>1. /\ op.at = "lock" /\ op.todo # {} /\ OnlyOp /\ UNCHANGED <<index, phase, crashes>>
          /\ runLock[Least(op.todo)] = None
          /\ runLock' = [runLock EXCEPT ![Least(op.todo)] = Holder]
          /\ op' = [op EXCEPT !.todo = @ \ {Least(op.todo)}]
      BY <1>1 DEF LockRun
    <2> DEFINE t == op.todo \ {Least(op.todo)}
    <2>2. op' = [op EXCEPT !.todo = t]
      BY <2>1
    <2> HIDE DEF t
    <2>3. Goes(op.at, op.plan, op.fresh, t, op.missing)
      BY <2>2, OpSet
    <2> QED
      BY <2>1, <2>3 DEF t
  <1>2. ASSUME LockMailboxes
        PROVE  /\ op.at \in {"lock", "verified"} /\ OnlyOp /\ UNCHANGED <<runLock, phase, crashes>>
               /\ op.plan # NoPlan => op.at = "verified" \/ op.todo = {}
               /\ op.plan = NoPlan => op.at = "verified"
               /\ index = None /\ index' = Holder
               /\ Goes(IF op.plan # NoPlan THEN "claim" ELSE "freeze", op.plan, op.fresh, op.todo, op.missing)
    <2>1. op' = [op EXCEPT !.at = IF op.plan # NoPlan THEN "claim" ELSE "freeze"]
      BY <1>2 DEF LockMailboxes
    <2>2. Goes(IF op.plan # NoPlan THEN "claim" ELSE "freeze", op.plan, op.fresh, op.todo, op.missing)
      BY <2>1, OpSet
    <2>3. /\ op.at \in {"lock", "verified"} /\ OnlyOp /\ UNCHANGED <<runLock, phase, crashes>>
          /\ op.plan # NoPlan => op.at = "verified" \/ op.todo = {}
          /\ op.plan = NoPlan => op.at = "verified"
          /\ index = None /\ index' = Holder
      BY <1>2 DEF LockMailboxes
    <2> QED
      BY <2>2, <2>3
  <1> QED
    BY <1>1, <1>2

LEMMA FreezeEffects ==
    ASSUME BoxTypes, OperationInv, NEW w \in Writes, Freeze(w)
    PROVE  /\ op.at = "freeze" /\ NoFiles /\ Attempt(w) /\ UNCHANGED <<owners, claims, done>>
           /\ minted' = IF w # "lost" THEN minted + 2 ELSE minted
           /\ journal' = IF w # "lost" THEN journal \cup {FrozenPlan(op.ask)} ELSE journal
           /\ IF w = "ok" THEN Holds /\ Goes("claim", FrozenPlan(op.ask), TRUE, op.todo, op.missing) ELSE Throws
  <1> USE DEF files, status, past, NoFiles, Lands
  <1> DEFINE p == FrozenPlan(op.ask)
  <1>1. /\ op.at = "freeze" /\ NoFiles /\ Attempt(w) /\ UNCHANGED <<owners, claims, done>>
        /\ minted' = IF w # "lost" THEN minted + 2 ELSE minted
        /\ journal' = IF w # "lost" THEN journal \cup {p} ELSE journal
    BY DEF Freeze
  <1> HIDE DEF p
  <1>2. IF w = "ok" THEN Continue([op EXCEPT !.at = "claim", !.plan = p, !.fresh = TRUE]) ELSE Abort("thrown")
    BY DEF Freeze, p
  <1>3. CASE w = "ok"
    <2>1. Holds /\ op' = [op EXCEPT !.at = "claim", !.plan = p, !.fresh = TRUE]
      BY <1>2, <1>3, ContinueHolds
    <2> QED
      BY <1>1, <1>3, <2>1, OpSet DEF p
  <1>4. CASE w # "ok"
    BY <1>1, <1>2, <1>4, AbortThrows DEF p
  <1> QED
    BY <1>3, <1>4

LEMMA ClaimEffects ==
    ASSUME BoxTypes, OperationInv, NEW w \in Writes, ConsumeClaim(w)
    PROVE  /\ op.at = "claim" /\ NoFiles /\ Attempt(w) /\ UNCHANGED <<minted, owners, journal, done>>
           /\ IF w = "ok" THEN Holds /\ Goes("owners", op.plan, op.fresh, op.plan.runs, op.missing) ELSE Throws
  <1> USE DEF files, status, past, NoFiles
  <1>1. /\ op.at = "claim" /\ NoFiles /\ Attempt(w) /\ UNCHANGED <<minted, owners, journal, done>>
    BY DEF ConsumeClaim
  <1>2. IF w = "ok" THEN Continue([op EXCEPT !.at = "owners", !.todo = op.plan.runs]) ELSE Abort("thrown")
    BY DEF ConsumeClaim
  <1>3. CASE w = "ok"
    <2>1. Holds /\ op' = [op EXCEPT !.at = "owners", !.todo = op.plan.runs]
      BY <1>2, <1>3, ContinueHolds
    <2> QED
      BY <1>1, <1>3, <2>1, OpSet
  <1>4. CASE w # "ok"
    BY <1>1, <1>2, <1>4, AbortThrows
  <1> QED
    BY <1>3, <1>4

LEMMA OwnersEffects ==
    ASSUME BoxTypes, OperationInv, NEW w \in Writes, WriteOwners(w)
    PROVE  /\ op.at = "owners" /\ op.todo # {} /\ NoFiles /\ Attempt(w) /\ UNCHANGED <<minted, journal, done>>
           /\ owners' = IF w # "lost" THEN [owners EXCEPT ![Least(op.todo)] = op.plan.owners[Least(op.todo)]] ELSE owners
           /\ IF w = "ok" THEN Holds /\ Goes("owners", op.plan, op.fresh, op.todo \ {Least(op.todo)}, op.missing) ELSE Throws
  <1> USE DEF files, status, past, book, NoFiles, Lands
  <1> DEFINE t == op.todo \ {Least(op.todo)}
  <1>1. /\ op.at = "owners" /\ op.todo # {} /\ NoFiles /\ Attempt(w) /\ UNCHANGED <<minted, journal, done>>
        /\ owners' = IF w # "lost" THEN [owners EXCEPT ![Least(op.todo)] = op.plan.owners[Least(op.todo)]] ELSE owners
    BY DEF WriteOwners
  <1>2. IF w = "ok" THEN Continue([op EXCEPT !.todo = t]) ELSE Abort("thrown")
    BY DEF WriteOwners
  <1> HIDE DEF t
  <1>3. CASE w = "ok"
    <2>1. Holds /\ op' = [op EXCEPT !.todo = t]
      BY <1>2, <1>3, ContinueHolds
    <2> QED
      BY <1>1, <1>3, <2>1, OpSet DEF t
  <1>4. CASE w # "ok"
    BY <1>1, <1>2, <1>4, AbortThrows
  <1> QED
    BY <1>3, <1>4

(* One file moved, or found where it was moved to, or found nowhere. *)
LEMMA MoveEffects ==
    ASSUME BoxTypes, OperationInv, NEW w \in Writes, MoveFile(w), NEW p, p = op.plan, NEW e, e = Least(op.todo)
    PROVE  /\ op.at = "moves" /\ op.todo # {} /\ Attempt(w)
           /\ UNCHANGED <<acked, unpersisted, pendingGap, capacity, minted, subject, owners, write, retry, accepted, refused,
                          pruned, unlogged, gaps, claims, journal, done>>
           /\ IF e \in unread[p.from] /\ w # "lost"
              THEN /\ unread' = [unread EXCEPT ![p.from] = @ \ {e}, ![p.to] = @ \cup {e}]
                   /\ carried' = IF subject[e] \in p.runs THEN carried ELSE carried \cup {e}
              ELSE UNCHANGED <<unread, carried>>
           /\ IF w = "ok" THEN /\ Holds
                               /\ Goes("moves", p, op.fresh, op.todo \ {e},
                                       IF e \in unread[p.from] \cup unread[p.to] THEN op.missing ELSE op.missing \cup {e})
              ELSE Throws
  <1> USE DEF files, status, past, Lands
  <1>1. /\ op.at = "moves" /\ op.todo # {} /\ Attempt(w)
        /\ UNCHANGED <<acked, unpersisted, pendingGap, capacity, minted, subject, owners, write, retry, accepted, refused,
                       pruned, unlogged, gaps, claims, journal, done>>
    BY DEF MoveFile
  <1>2. IF e \in unread[p.from] /\ w # "lost"
        THEN /\ unread' = [unread EXCEPT ![p.from] = @ \ {e}, ![p.to] = @ \cup {e}]
             /\ carried' = IF subject[e] \in p.runs THEN carried ELSE carried \cup {e}
        ELSE UNCHANGED <<unread, carried>>
    BY DEF MoveFile
  <1> DEFINE t == op.todo \ {e}
             m == IF e \in unread[p.from] \cup unread[p.to] THEN op.missing ELSE op.missing \cup {e}
  <1>3. IF w = "ok" THEN Continue([op EXCEPT !.todo = t, !.missing = m]) ELSE Abort("thrown")
    BY DEF MoveFile
  <1> HIDE DEF t, m
  <1>4. CASE w = "ok"
    <2>1. Holds /\ op' = [op EXCEPT !.todo = t, !.missing = m]
      BY <1>3, <1>4, ContinueHolds
    <2>2. Goes(op.at, p, op.fresh, t, m)
      BY <2>1, OpSet
    <2> QED
      BY <1>1, <1>2, <1>4, <2>1, <2>2 DEF t, m
  <1>5. CASE w # "ok"
    <2>1. Throws
      BY <1>1, <1>3, <1>5, AbortThrows
    <2> QED
      BY <1>1, <1>2, <1>5, <2>1
  <1> QED
    BY <1>4, <1>5

LEMMA MovesDoneEffects ==
    ASSUME BoxTypes, OperationInv, MovesDone
    PROVE  /\ op.at = "moves" /\ op.todo = {} /\ Holds
           /\ UNCHANGED <<unread, acked, pendingGap, minted, subject, owners, write, retry, faults, accepted, refused,
                          pruned, unlogged, gaps, claims, journal, done, carried>>
           /\ unpersisted' = [unpersisted EXCEPT ![op.plan.from] = @ + Cardinality(op.missing)]
           /\ capacity' \in {"ok", "degraded"}
           /\ Goes("checkpoint", [op.plan EXCEPT !.moved = TRUE], op.fresh, op.todo, {})
  <1> USE DEF files, status, past, book
  <1>1. /\ op.at = "moves" /\ op.todo = {}
        /\ UNCHANGED <<unread, acked, pendingGap, minted, subject, owners, write, retry, faults, accepted, refused,
                       pruned, unlogged, gaps, claims, journal, done, carried>>
        /\ unpersisted' = [unpersisted EXCEPT ![op.plan.from] = @ + Cardinality(op.missing)]
    BY DEF MovesDone
  <1>2. capacity' \in {"ok", "degraded"}
    BY DEF MovesDone, CapState
  <1> DEFINE q == [op.plan EXCEPT !.moved = TRUE]
  <1>3. Continue([op EXCEPT !.at = "checkpoint", !.missing = {}, !.plan = q])
    BY DEF MovesDone
  <1> HIDE DEF q
  <1>4. Holds /\ op' = [op EXCEPT !.at = "checkpoint", !.missing = {}, !.plan = q]
    BY <1>3, ContinueHolds
  <1>5. Goes("checkpoint", q, op.fresh, op.todo, {})
    BY <1>4, OpSet
  <1> QED
    BY <1>1, <1>2, <1>4, <1>5 DEF q

LEMMA CheckpointEffects ==
    ASSUME BoxTypes, OperationInv, NEW w \in Writes, Checkpoint(w)
    PROVE  /\ op.at = "checkpoint" /\ NoFiles /\ Attempt(w) /\ UNCHANGED <<minted, owners, claims, done>>
           /\ journal' = IF w # "lost" THEN {p \in journal : p.id # op.plan.id} \cup {op.plan} ELSE journal
           /\ IF w = "ok" THEN Holds /\ Goes("notice from", op.plan, op.fresh, op.todo, op.missing) ELSE Throws
  <1> USE DEF files, status, past, NoFiles, Lands
  <1>1. /\ op.at = "checkpoint" /\ NoFiles /\ Attempt(w) /\ UNCHANGED <<minted, owners, claims, done>>
        /\ journal' = IF w # "lost" THEN {p \in journal : p.id # op.plan.id} \cup {op.plan} ELSE journal
    BY DEF Checkpoint
  <1>2. IF w = "ok" THEN Continue([op EXCEPT !.at = "notice from"]) ELSE Abort("thrown")
    BY DEF Checkpoint
  <1>3. CASE w = "ok"
    <2>1. Holds /\ op' = [op EXCEPT !.at = "notice from"]
      BY <1>2, <1>3, ContinueHolds
    <2> QED
      BY <1>1, <1>3, <2>1, OpSet
  <1>4. CASE w # "ok"
    BY <1>1, <1>2, <1>4, AbortThrows
  <1> QED
    BY <1>3, <1>4

(* A notice is there already, or it is persisted, refused or lost. *)
NoticeStep(key, id, next, w) ==
    /\ UNCHANGED <<acked, minted, subject, owners, write, retry, pruned, gaps, claims, journal, done, carried>>
    /\ Attempt(w)
    /\ \/ /\ UNCHANGED <<unread, unpersisted, pendingGap, capacity, accepted, refused, unlogged>>
          /\ Holds /\ Goes(next, op.plan, op.fresh, op.todo, op.missing)
       \/ /\ ~OnDisk(key, id)
          /\ PersistRun(key, id, ~AtCap(key), w)
          /\ Throws \/ (Holds /\ Goes(next, op.plan, op.fresh, op.todo, op.missing))

LEMMA NoticeEffects ==
    ASSUME BoxTypes, OperationInv, NEW w \in Writes
    PROVE  /\ NoticeFrom(w) => op.at = "notice from" /\ NoticeStep(op.plan.from, op.plan.notice[1], "notice to", w)
           /\ NoticeTo(w) => op.at = "notice to" /\ NoticeStep(op.plan.to, op.plan.notice[2], "retarget", w)
  <1>1. ASSUME NEW from \in {"notice from", "notice to"}, NEW key, NEW id, NEW next, Notice(from, key, id, next, w)
        PROVE  op.at = from /\ NoticeStep(key, id, next, w)
    <2> USE DEF files, status, past, book
    <2>1. /\ UNCHANGED <<acked, minted, subject, owners, write, retry, pruned, gaps, claims, journal, done, carried>>
          /\ op.at = from /\ Attempt(w)
      BY <1>1 DEF Notice
    <2>2. ASSUME Continue([op EXCEPT !.at = next])
          PROVE  Holds /\ Goes(next, op.plan, op.fresh, op.todo, op.missing)
      <3>1. Holds /\ op' = [op EXCEPT !.at = next]
        BY <2>2, ContinueHolds
      <3> QED
        BY <3>1, OpSet
    <2>3. CASE OnDisk(key, id)
      <3>1. UNCHANGED <<unread, unpersisted, pendingGap, capacity, accepted, refused, unlogged>> /\ Continue([op EXCEPT !.at = next])
        BY <1>1, <2>3 DEF Notice
      <3> QED
        BY <2>1, <2>2, <3>1 DEF NoticeStep
    <2>4. CASE ~OnDisk(key, id)
      <3>1. PersistRun(key, id, ~AtCap(key), w)
        BY <1>1, <2>4 DEF Notice
      <3>2. Continue([op EXCEPT !.at = next]) \/ \E code : Abort(code)
        BY <1>1, <2>4 DEF Notice
      <3>3. Throws \/ (Holds /\ Goes(next, op.plan, op.fresh, op.todo, op.missing))
        BY <2>1, <2>2, <3>2, AbortThrows
      <3> QED
        BY <2>1, <2>4, <3>1, <3>3 DEF NoticeStep
    <2> QED
      BY <2>3, <2>4
  <1> QED
    BY <1>1 DEF NoticeFrom, NoticeTo

LEMMA MarkDoneEffects ==
    ASSUME BoxTypes, OperationInv, NEW w \in Writes, MarkDone(w)
    PROVE  /\ op.at = "retarget" /\ NoFiles /\ Attempt(w) /\ UNCHANGED <<minted, owners, claims>>
           /\ journal' = IF w # "lost" THEN {q \in journal : q.id # op.plan.id} ELSE journal
           /\ done' = IF w # "lost" THEN done \cup {op.plan} ELSE done
           /\ IF w # "ok" THEN Throws
              ELSE Lets /\ UNCHANGED <<phase, crashes>> /\ (op' = NoOp \/ (~op.fresh /\ Goes("replay", NoPlan, op.fresh, op.todo, op.missing)))
  <1> USE DEF files, status, past, NoFiles, Lands
  <1>1. /\ op.at = "retarget" /\ NoFiles /\ Attempt(w) /\ UNCHANGED <<minted, owners, claims>>
        /\ journal' = IF w # "lost" THEN {q \in journal : q.id # op.plan.id} ELSE journal
        /\ done' = IF w # "lost" THEN done \cup {op.plan} ELSE done
    BY DEF MarkDone
  <1>3. CASE w = "ok"
    <2>1. ReleaseLocks /\ UNCHANGED <<phase, crashes>>
      BY <1>3 DEF MarkDone, daemon
    <2>2. op' = NoOp \/ (~op.fresh /\ op' = [op EXCEPT !.at = "replay", !.plan = NoPlan])
      BY <1>3 DEF MarkDone
    <2>3. op' = NoOp \/ (~op.fresh /\ Goes("replay", NoPlan, op.fresh, op.todo, op.missing))
      BY <2>2, OpSet
    <2> QED
      BY <1>1, <1>3, <2>1, <2>3, LetsGo
  <1>4. CASE w # "ok"
    <2>1. Abort("thrown")
      BY <1>4 DEF MarkDone
    <2> QED
      BY <1>1, <1>4, <2>1, AbortThrows
  <1> QED
    BY <1>3, <1>4

LEMMA MintedIsFinite ==
    ASSUME minted \in Nat, NEW S \in SUBSET Minted
    PROVE  IsFiniteSet(S) /\ Cardinality(S) \in Nat
  <1>1. IsFiniteSet(Minted)
    BY FS_Interval DEF Minted
  <1>2. IsFiniteSet(S)
    BY <1>1, FS_Subset
  <1> QED
    BY <1>2, FS_CardinalityType

(* The operation keeps the types. *)
LEMMA LocksTyped ==
    ASSUME BoxTypes,
           \/ Holds \/ Throws \/ (Lets /\ UNCHANGED <<phase, crashes>>)
           \/ index' \in {index, Holder} /\ runLock' = runLock /\ UNCHANGED <<phase, crashes>>
           \/ UNCHANGED <<index, phase, crashes>> /\ \E r : runLock' = [runLock EXCEPT ![r] = Holder]
    PROVE  /\ runLock' \in [Runs -> Writers \cup {None, Holder}]
           /\ index' \in Writers \cup {None, Holder}
           /\ phase' \in {"down", "replaying", "gaps", "serving"}
           /\ crashes' \in 0..MaxCrashes
  <1>1. ASSUME UNCHANGED <<phase, crashes>>
        PROVE  phase' \in {"down", "replaying", "gaps", "serving"} /\ crashes' \in 0..MaxCrashes
    BY <1>1 DEF BoxTypes
  <1>2. CASE Holds
    BY <1>2 DEF Holds, BoxTypes
  <1>3. CASE Throws
    BY <1>3 DEF Throws, Lets, BoxTypes
  <1>4. CASE Lets /\ UNCHANGED <<phase, crashes>>
    BY <1>1, <1>4 DEF Lets, BoxTypes
  <1>5. CASE index' \in {index, Holder} /\ runLock' = runLock /\ UNCHANGED <<phase, crashes>>
    BY <1>1, <1>5 DEF BoxTypes
  <1>6. CASE UNCHANGED <<index, phase, crashes>> /\ \E r : runLock' = [runLock EXCEPT ![r] = Holder]
    BY <1>1, <1>6 DEF BoxTypes
  <1> QED
    BY <1>2, <1>3, <1>4, <1>5, <1>6

LEMMA OpBoxTypes ==
    ASSUME BoxTypes, BoxInv, BookInv, InHand, \A q \in journal : Frozen(q), OpStep \/ LockTimesOut
    PROVE  BoxTypes'
  <1>0. OperationInv /\ minted \in Nat /\ faults \in 0..MaxFaults
    BY DEF BookInv, BoxInv, MailboxShape, BoxTypes
  <1>1. ASSUME NoFiles \/ OnlyOp, minted' \in Nat, minted <= minted', faults' \in 0..MaxFaults,
               \/ Holds \/ Throws \/ (Lets /\ UNCHANGED <<phase, crashes>>)
               \/ index' \in {index, Holder} /\ runLock' = runLock /\ UNCHANGED <<phase, crashes>>
               \/ UNCHANGED <<index, phase, crashes>> /\ \E r : runLock' = [runLock EXCEPT ![r] = Holder]
        PROVE  BoxTypes'
    <2>1. /\ UNCHANGED <<unread, acked, unpersisted, pendingGap, capacity, subject, write, retry, gaps>>
      BY <1>1 DEF NoFiles, OnlyOp
    <2>2. /\ runLock' \in [Runs -> Writers \cup {None, Holder}]
          /\ index' \in Writers \cup {None, Holder}
          /\ phase' \in {"down", "replaying", "gaps", "serving"}
          /\ crashes' \in 0..MaxCrashes
      BY <1>1, LocksTyped
    <2> QED
      BY <1>0, <1>1, <2>1, <2>2, BoxTypesWiden DEF BoxTypes
  <1>2. ASSUME OnlyOp
        PROVE  minted' \in Nat /\ minted <= minted' /\ faults' \in 0..MaxFaults
    BY <1>0, <1>2 DEF OnlyOp
  <1>3. CASE LockTimesOut
    BY <1>0, <1>1, <1>2, <1>3, DecidingEffects
  <1>4. CASE \E p \in journal : ReplayNext(p)
    BY <1>0, <1>1, <1>2, <1>4, DecidingEffects
  <1>5. CASE ReplayDone \/ Verify
    BY <1>0, <1>1, <1>2, <1>5, DecidingEffects
  <1>6. CASE VerifyRefuses \/ OwnersWritten
    BY <1>0, <1>1, <1>2, <1>6, DecidingEffects
  <1>7. CASE LockRun \/ LockMailboxes
    BY <1>0, <1>1, <1>2, <1>7, LockingEffects
  <1>8. CASE MovesDone
    <2>1. op.plan.from \in Managers /\ op.missing \subseteq Minted
      BY <1>0, <1>8, MovesDoneEffects DEF BookInv, OperationInv, PlanInHand, WellFrozen, Finishing, InHand
    <2>2. Cardinality(op.missing) \in Nat
      BY <1>0, <2>1, MintedIsFinite
    <2>3. unpersisted' \in [Managers -> Nat]
      BY <1>0, <1>8, <2>2, MovesDoneEffects DEF BoxTypes
    <2>4. Minted' = Minted
      BY <1>0, <1>8, MovesDoneEffects DEF Minted
    <2> QED
      BY <1>0, <1>8, <2>3, <2>4, MovesDoneEffects DEF BoxTypes, Holds
  <1>9. ASSUME NEW w \in Writes PROVE Attempt(w) => faults' \in 0..MaxFaults
    BY <1>0, AttemptTypes
  <1>10. ASSUME NEW w \in Writes, Freeze(w) PROVE BoxTypes'
    <2>1. /\ NoFiles /\ Attempt(w) /\ (Holds \/ Throws)
          /\ minted' = minted + 2 \/ minted' = minted
      BY <1>0, <1>10, FreezeEffects
    <2> QED
      BY <1>0, <1>1, <1>9, <2>1
  <1>11. ASSUME NEW w \in Writes, ConsumeClaim(w) PROVE BoxTypes'
    BY <1>0, <1>1, <1>9, <1>11, ClaimEffects
  <1>12. ASSUME NEW w \in Writes, WriteOwners(w) PROVE BoxTypes'
    BY <1>0, <1>1, <1>9, <1>12, OwnersEffects
  <1>13. ASSUME NEW w \in Writes, Checkpoint(w) PROVE BoxTypes'
    <2>1. NoFiles /\ Attempt(w) /\ (Holds \/ Throws) /\ minted' = minted
      BY <1>0, <1>13, CheckpointEffects
    <2> QED
      BY <1>0, <1>1, <1>9, <2>1
  <1>14. ASSUME NEW w \in Writes, MarkDone(w) PROVE BoxTypes'
    BY <1>0, <1>1, <1>9, <1>14, MarkDoneEffects
  <1>15. ASSUME NEW w \in Writes, MoveFile(w) PROVE BoxTypes'
    <2>1. /\ op.at = "moves" /\ Attempt(w) /\ (Holds \/ Throws)
          /\ UNCHANGED <<acked, unpersisted, pendingGap, capacity, minted, subject, write, retry, gaps>>
          /\ \/ unread' = [unread EXCEPT ![op.plan.from] = @ \ {Least(op.todo)}, ![op.plan.to] = @ \cup {Least(op.todo)}]
                /\ Least(op.todo) \in unread[op.plan.from]
             \/ unread' = unread
      BY <1>0, <1>15, MoveEffects
    <2>2. op.plan.from \in Managers
      BY <2>1 DEF BookInv, OperationInv, PlanInHand, WellFrozen, Finishing
    <2>3. unread' \in [Managers -> SUBSET Minted]
      BY <2>1, <2>2 DEF BoxTypes
    <2>4. /\ runLock' \in [Runs -> Writers \cup {None, Holder}]
          /\ index' \in Writers \cup {None, Holder}
          /\ phase' \in {"down", "replaying", "gaps", "serving"}
          /\ crashes' \in 0..MaxCrashes
      BY <2>1, LocksTyped
    <2>5. Minted' = Minted
      BY <2>1 DEF Minted
    <2> QED
      BY <1>9, <2>1, <2>3, <2>4, <2>5 DEF BoxTypes
  <1>16. ASSUME NEW w \in Writes, NEW key \in Managers, NEW id \in Minted, NEW next, NoticeStep(key, id, next, w) PROVE BoxTypes'
    <2>1. UNCHANGED <<acked, minted, subject, write, retry, gaps>> /\ (Holds \/ Throws) /\ Attempt(w)
      BY <1>16 DEF NoticeStep
    <2>2. /\ runLock' \in [Runs -> Writers \cup {None, Holder}]
          /\ index' \in Writers \cup {None, Holder}
          /\ phase' \in {"down", "replaying", "gaps", "serving"}
          /\ crashes' \in 0..MaxCrashes
      BY <2>1, LocksTyped
    <2>3. Minted' = Minted /\ minted' \in Nat /\ minted <= minted' /\ (~AtCap(key)) \in BOOLEAN
      BY <1>0, <2>1 DEF Minted
    <2>4. CASE UNCHANGED <<unread, unpersisted, pendingGap, capacity>>
      BY <1>9, <2>1, <2>2, <2>3, <2>4 DEF BoxTypes
    <2>5. CASE PersistRun(key, id, ~AtCap(key), w)
      <3>1. /\ unread' \in [Managers -> SUBSET Minted'] /\ unpersisted' \in [Managers -> Nat]
            /\ capacity' \in {"ok", "degraded"} /\ pendingGap' \in [Managers -> Minted' \cup {0}]
        BY <1>0, <2>3, <2>5, PersistRunTypes
      <3> QED
        BY <1>9, <2>1, <2>2, <2>3, <3>1 DEF BoxTypes
    <2> QED
      BY <1>16, <2>4, <2>5 DEF NoticeStep
  <1>17. ASSUME NEW w \in Writes, NoticeFrom(w) \/ NoticeTo(w) PROVE BoxTypes'
    <2>1. op.at \in {"notice from", "notice to"} /\ op.plan # NoPlan
      BY <1>0, <1>17, NoticeEffects DEF OperationInv, Finishing
    <2>2. op.plan.from \in Managers /\ op.plan.to \in Managers
      BY <2>1 DEF BookInv, OperationInv, PlanInHand, WellFrozen, Finishing
    <2>3. op.plan \in journal
      BY <2>1 DEF InHand, Finishing
    <2>4. op.plan.notice[1] \in Minted /\ op.plan.notice[2] \in Minted
      BY <2>3 DEF Frozen
    <2> QED
      BY <1>0, <1>16, <1>17, <2>2, <2>4, NoticeEffects
  <1> QED
    BY <1>3, <1>4, <1>5, <1>6, <1>7, <1>8, <1>10, <1>11, <1>12, <1>13, <1>14, <1>15, <1>17 DEF OpStep

-----------------------------------------------------------------------------
(* The plans: their numbers, what they froze, and the one in hand. *)
(* The journal holds one plan or none. *)
LEMMA JournalCount ==
    ASSUME DurableInv
    PROVE  /\ journal = {} => Cardinality(journal) = 0
           /\ \A p \in journal : journal = {p} /\ Cardinality(journal) = 1
           /\ Cardinality(done) \in Nat /\ Transfers \in Nat
  <1>1. journal = {} => Cardinality(journal) = 0
    BY FS_EmptySet
  <1>2. ASSUME NEW p \in journal PROVE journal = {p} /\ Cardinality(journal) = 1
    <2>1. journal = {p}
      BY DEF DurableInv
    <2> QED
      BY <2>1, FS_Singleton
  <1>3. Cardinality(done) \in Nat
    BY FS_CardinalityType DEF DurableInv
  <1> QED
    BY <1>1, <1>2, <1>3 DEF Transfers

LEMMA FrozenWidens ==
    ASSUME minted \in Nat, minted' \in Nat, minted <= minted', NEW p, Frozen(p)
    PROVE  Frozen(p)'
  BY MintedGrows DEF Frozen

(* Nothing of the plans moves, and what is minted stays in its bound. *)
LEMMA PlansKept ==
    ASSUME PlansInv, minted \in Nat, minted' \in Nat, minted <= minted', minted' <= MaxEvents + 2 * Transfers,
           UNCHANGED <<journal, done, op>>
    PROVE  PlansInv'
  <1>1. Transfers' = Transfers
    BY DEF Transfers
  <1>2. Numbered'
    BY <1>1 DEF PlansInv, Numbered
  <1>3. \A p \in journal' : Frozen(p)'
    BY FrozenWidens DEF PlansInv
  <1>4. InHand'
    BY MintedGrows DEF PlansInv, InHand
  <1> QED
    BY <1>2, <1>3, <1>4 DEF PlansInv

(* The operation moves, or is over, with the plans where they were. *)
LEMMA PlansStand ==
    ASSUME PlansInv, UNCHANGED <<journal, done, minted>>,
           op'.ask # NoAsk /\ ~op'.fresh => Transfers < MaxTransfers,
           InHand'
    PROVE  PlansInv'
  <1>1. Transfers' = Transfers /\ Minted' = Minted
    BY DEF Transfers, Minted
  <1>2. Numbered'
    BY <1>1 DEF PlansInv, Numbered
  <1>3. \A p \in journal' : Frozen(p)'
    BY <1>1 DEF PlansInv, Frozen
  <1> QED
    BY <1>2, <1>3 DEF PlansInv

LEMMA NoneInHand ==
    ASSUME op' = NoOp
    PROVE  InHand' /\ op'.ask = NoAsk
  BY DEF NoOp, NoAsk, NoPlan, InHand, Deciding, Finishing

LEMMA AsksKeepPlans ==
    ASSUME PlansInv, minted \in Nat,
           \/ \E from, to \in Managers, S \in SUBSET Runs, i \in Incidents \cup {None} : AskChange(from, to, S, i)
           \/ AskPending
    PROVE  PlansInv'
  <1> USE DEF box, book
  <1>1. ASSUME NEW from \in Managers, NEW to \in Managers, NEW S \in SUBSET Runs, NEW i \in Incidents \cup {None},
               AskChange(from, to, S, i)
        PROVE  PlansInv'
    <2> DEFINE a == [from |-> from, to |-> to, runs |-> S, incident |-> i]
    <2>0. a.from # a.to
      BY <1>1 DEF AskChange
    <2> HIDE DEF a
    <2>1. op' = [NoOp EXCEPT !.at = "replay", !.ask = a]
      BY <1>1 DEF AskChange, a
    <2>2. op'.at = "replay" /\ op'.ask = a /\ op'.fresh = FALSE /\ op'.missing = {}
      BY <2>1 DEF NoOp
    <2>3. UNCHANGED <<journal, done, minted>> /\ Transfers < MaxTransfers
      BY <1>1 DEF AskChange
    <2>4. InHand'
      BY <2>0, <2>2 DEF InHand, Deciding, Finishing
    <2> QED
      BY <2>3, <2>4, PlansStand
  <1>2. CASE AskPending
    <2>1. op'.at = "replay" /\ op'.ask = NoAsk /\ op'.fresh = FALSE /\ op'.missing = {}
      BY <1>2 DEF AskPending, NoOp
    <2>2. UNCHANGED <<journal, done, minted>>
      BY <1>2 DEF AskPending
    <2>3. InHand'
      BY <2>1 DEF InHand, Deciding, Finishing
    <2> QED
      BY <2>1, <2>2, <2>3, PlansStand
  <1> QED
    BY <1>1, <1>2

LEMMA LeastMinted ==
    ASSUME minted \in Nat, NEW S \in SUBSET Minted, S # {}
    PROVE  Least(S) \in S
  BY LeastOfNumbers DEF Minted

(* The steps that write the journal. *)
LEMMA JournalKeepsPlans ==
    ASSUME PlansInv, BoxTypes, BoxInv, BookInv, NEW w \in Writes, Freeze(w) \/ Checkpoint(w) \/ MarkDone(w)
    PROVE  PlansInv'
  <1>0. OperationInv /\ DurableInv /\ minted \in Nat /\ InHand
    BY DEF BookInv, BoxInv, MailboxShape, PlansInv
  <1>1. Cardinality(done) \in Nat /\ Transfers \in Nat
    BY <1>0, JournalCount
  <1>2. CASE Freeze(w)
    <2>0. PICK p : p = FrozenPlan(op.ask)
      OBVIOUS
    <2>1. /\ op.at = "freeze" /\ done' = done
          /\ minted' = IF w # "lost" THEN minted + 2 ELSE minted
          /\ journal' = IF w # "lost" THEN journal \cup {p} ELSE journal
          /\ IF w = "ok" THEN Goes("claim", p, TRUE, op.todo, op.missing) ELSE op' = NoOp
      BY <1>0, <1>2, <2>0, FreezeEffects DEF Throws
    <2>2. journal = {} /\ op.ask # NoAsk /\ WellAsked(op.ask) /\ WellFrozen(p) /\ op.ask.from # op.ask.to /\ ~op.fresh
      BY <1>0, <2>0, <2>1, FrozenPlanIsWell DEF OperationInv, Deciding, InHand
    <2>3. /\ p.id = Transfers + 1 /\ p.from = op.ask.from /\ p.to = op.ask.to /\ p.moved = FALSE
          /\ p.notice = <<minted + 1, minted + 2>> /\ p.unread = unread[op.ask.from]
      BY <2>0 DEF FrozenPlan
    <2>4. CASE w = "lost"
      BY <2>1, <2>4, NoneInHand, PlansStand
    <2>5. CASE w # "lost"
      <3>1. journal' = {p} /\ minted' = minted + 2
        BY <2>1, <2>2, <2>5
      <3>2. Transfers' = Transfers + 1 /\ Transfers = Cardinality(done)
        <4>1. Cardinality(journal) = 0 /\ Cardinality(journal') = 1
          BY <2>2, <3>1, FS_EmptySet, FS_Singleton
        <4> QED
          BY <1>1, <2>1, <4>1 DEF Transfers
      <3>3. Transfers < MaxTransfers
        BY <2>2 DEF PlansInv, Numbered
      <3>4. op'.ask # NoAsk /\ ~op'.fresh => FALSE
        BY <2>1, NoneInHand DEF Goes
      <3>5. Numbered'
        BY <1>0, <1>1, <2>1, <2>3, <3>1, <3>2, <3>3, <3>4, OwnershipAssumption DEF PlansInv, Numbered
      <3>6. unread[op.ask.from] \subseteq 1..minted
        BY <2>2 DEF BoxTypes, Minted, WellAsked
      <3>7. p.notice[1] = minted + 1 /\ p.notice[2] = minted + 2
        BY <2>3
      <3>8. p.unread \subseteq 1..(p.notice[1] - 1)
        BY <1>0, <2>3, <3>6, <3>7
      <3>9. Frozen(p)'
        <4>1. p.notice[1] \in 1..minted' /\ p.notice[2] = p.notice[1] + 1 /\ p.notice[2] \in 1..minted'
          BY <1>0, <3>1, <3>7
        <4>2. p.from # p.to /\ p.moved \in BOOLEAN
          BY <2>2, <2>3
        <4> QED
          BY <3>8, <4>1, <4>2 DEF Frozen, Minted
      <3>10. InHand'
        <4>1. CASE op' = NoOp
          BY <4>1, NoneInHand
        <4>2. CASE Goes("claim", p, TRUE, op.todo, op.missing)
          BY <1>0, <2>1, <3>1, <4>2 DEF Goes, InHand, Deciding, Finishing, Minted
        <4> QED
          BY <2>1, <4>1, <4>2
      <3> QED
        BY <3>1, <3>5, <3>9, <3>10 DEF PlansInv
    <2> QED
      BY <2>4, <2>5
  <1>3. CASE Checkpoint(w)
    <2>1. /\ op.at = "checkpoint" /\ UNCHANGED <<done, minted>>
          /\ journal' = IF w # "lost" THEN {p \in journal : p.id # op.plan.id} \cup {op.plan} ELSE journal
          /\ IF w = "ok" THEN Goes("notice from", op.plan, op.fresh, op.todo, op.missing) ELSE op' = NoOp
      BY <1>0, <1>3, CheckpointEffects DEF Throws
    <2>0. PICK q : q = op.plan
      OBVIOUS
    <2>2. PICK p \in journal : ~p.moved /\ op.plan = [p EXCEPT !.moved = TRUE] /\ op.plan.moved
      BY <1>0, <2>1 DEF InHand, OperationInv, Finishing
    <2>3. journal = {p} /\ Cardinality(journal) = 1 /\ WellFrozen(p)
      BY <1>0, JournalCount DEF DurableInv
    <2>4. /\ q.id = p.id /\ q.from = p.from /\ q.to = p.to /\ q.notice = p.notice
          /\ q.unread = p.unread /\ q.moved = TRUE
      BY <2>0, <2>2, <2>3 DEF WellFrozen
    <2>5. CASE w = "lost"
      BY <2>1, <2>5, NoneInHand, PlansStand
    <2>6. CASE w # "lost"
      <3>1. journal' = {q}
        BY <2>0, <2>1, <2>3, <2>4, <2>6
      <3>2. Cardinality(journal') = 1 /\ Transfers' = Transfers
        BY <2>1, <2>3, <3>1, FS_Singleton DEF Transfers
      <3>3. op'.ask # NoAsk /\ ~op'.fresh => Transfers < MaxTransfers
        BY <2>1, NoneInHand DEF Goes, PlansInv, Numbered
      <3>4. Numbered'
        BY <2>1, <2>3, <2>4, <3>1, <3>2, <3>3 DEF PlansInv, Numbered
      <3>5. Frozen(q)'
        <4>1. Frozen(p)
          BY DEF PlansInv
        <4>2. Minted' = Minted
          BY <2>1 DEF Minted
        <4>3. p.from # p.to /\ p.notice[1] \in Minted /\ p.notice[2] = p.notice[1] + 1 /\ p.notice[2] \in Minted
              /\ p.unread \subseteq 1..(p.notice[1] - 1)
          BY <4>1 DEF Frozen
        <4>4. q.from # q.to /\ q.notice[1] \in Minted' /\ q.notice[2] = q.notice[1] + 1 /\ q.notice[2] \in Minted'
              /\ q.unread \subseteq 1..(q.notice[1] - 1) /\ q.moved \in BOOLEAN
          BY <2>4, <4>2, <4>3
        <4> QED
          BY <4>4 DEF Frozen
      <3>6. InHand'
        <4>1. CASE op' = NoOp
          BY <4>1, NoneInHand
        <4>2. CASE Goes("notice from", op.plan, op.fresh, op.todo, op.missing)
          BY <1>0, <2>0, <2>1, <2>4, <3>1, <4>2 DEF Goes, InHand, Deciding, Finishing, Minted
        <4> QED
          BY <2>1, <4>1, <4>2
      <3> QED
        BY <3>1, <3>4, <3>5, <3>6 DEF PlansInv
    <2> QED
      BY <2>5, <2>6
  <1>4. CASE MarkDone(w)
    <2> DEFINE p == op.plan
    <2>1. /\ op.at = "retarget" /\ minted' = minted
          /\ journal' = IF w # "lost" THEN {q \in journal : q.id # p.id} ELSE journal
          /\ done' = IF w # "lost" THEN done \cup {p} ELSE done
          /\ op' = NoOp \/ (~op.fresh /\ Goes("replay", NoPlan, op.fresh, op.todo, op.missing))
          /\ w # "ok" => op' = NoOp
      BY <1>0, <1>4, MarkDoneEffects DEF Throws
    <2>2. p \in journal
      BY <1>0, <2>1 DEF InHand, OperationInv, Finishing
    <2>3. journal = {p} /\ Cardinality(journal) = 1
      BY <1>0, <2>2, JournalCount
    <2> HIDE DEF p
    <2>4. CASE w = "lost"
      BY <2>1, <2>4, NoneInHand, PlansStand
    <2>5. CASE w # "lost"
      <3>1. journal' = {} /\ done' = done \cup {p} /\ p.id = Cardinality(done) + 1
        BY <2>1, <2>3, <2>5 DEF PlansInv, Numbered
      <3>2. p \notin done
        BY <1>1, <3>1 DEF PlansInv, Numbered
      <3>3. Cardinality(done') = Cardinality(done) + 1
        BY <1>0, <3>1, <3>2, FS_AddElement DEF DurableInv
      <3>4. Transfers' = Transfers
        BY <1>1, <2>3, <3>1, <3>3, FS_EmptySet DEF Transfers
      <3>5. op'.ask # NoAsk /\ ~op'.fresh => Transfers < MaxTransfers
        BY <2>1, NoneInHand DEF Goes, PlansInv, Numbered
      <3>6. \A d \in done' : d.id \in 1..Cardinality(done')
        BY <1>1, <3>1, <3>3 DEF PlansInv, Numbered
      <3>7. \A d, e \in done' : d.id = e.id => d = e
        BY <1>1, <3>1 DEF PlansInv, Numbered
      <3>8. Numbered'
        BY <2>1, <3>1, <3>4, <3>5, <3>6, <3>7 DEF PlansInv, Numbered
      <3>9. InHand'
        <4>1. CASE op' = NoOp
          BY <4>1, NoneInHand
        <4>2. CASE ~op.fresh /\ Goes("replay", NoPlan, op.fresh, op.todo, op.missing)
          BY <1>0, <2>1, <4>2 DEF Goes, InHand, Deciding, Finishing, Minted
        <4> QED
          BY <2>1, <4>1, <4>2
      <3> QED
        BY <3>1, <3>8, <3>9 DEF PlansInv
    <2> QED
      BY <2>4, <2>5
  <1> QED
    BY <1>2, <1>3, <1>4

LEMMA OpKeepsPlans ==
    ASSUME PlansInv, BoxTypes, BoxInv, BookInv, OpStep \/ LockTimesOut
    PROVE  PlansInv'
  <1>0. OperationInv /\ DurableInv /\ minted \in Nat /\ InHand
    BY DEF BookInv, BoxInv, MailboxShape, PlansInv
  <1>1. Cardinality(done) \in Nat /\ Transfers \in Nat
    BY <1>0, JournalCount
  <1>2. ASSUME op' = NoOp, UNCHANGED <<journal, done, minted>>
        PROVE  PlansInv'
    BY <1>2, NoneInHand, PlansStand
  <1>3. ASSUME NEW at, NEW plan, NEW todo, NEW missing, Goes(at, plan, op.fresh, todo, missing), InHand',
               UNCHANGED <<journal, done, minted>>
        PROVE  PlansInv'
    <2>1. op'.ask # NoAsk /\ ~op'.fresh => Transfers < MaxTransfers
      BY <1>3 DEF Goes, PlansInv, Numbered
    <2> QED
      BY <1>3, <2>1, PlansStand
  <1>4. OnlyOp => UNCHANGED <<journal, done, minted>>
    BY DEF OnlyOp
  <1>5. CASE LockTimesOut \/ VerifyRefuses
    BY <1>0, <1>2, <1>4, <1>5, DecidingEffects DEF Throws
  <1>6. ASSUME NEW p \in journal, ReplayNext(p) PROVE PlansInv'
    <2>1. op.at = "replay" /\ Goes("lock", p, op.fresh, p.runs, op.missing) /\ UNCHANGED <<journal, done, minted>>
      BY <1>0, <1>4, <1>6, DecidingEffects
    <2>2. p # NoPlan
      BY <1>0, FrozenIsPlan DEF DurableInv
    <2>3. InHand'
      BY <1>0, <2>1, <2>2 DEF InHand, Goes, Deciding, Finishing, Minted
    <2> QED
      BY <1>3, <2>1, <2>3
  <1>7. CASE ReplayDone
    <2>1. op.at = "replay" /\ UNCHANGED <<journal, done, minted>>
          /\ (op' = NoOp \/ Goes("lock", op.plan, op.fresh, op.ask.runs, op.missing))
      BY <1>0, <1>4, <1>7, DecidingEffects
    <2>2. op.plan = NoPlan
      BY <1>0, <2>1 DEF OperationInv
    <2>3. CASE Goes("lock", op.plan, op.fresh, op.ask.runs, op.missing)
      <3>1. InHand'
        BY <1>0, <2>1, <2>2, <2>3 DEF InHand, Goes, Deciding, Finishing, Minted
      <3> QED
        BY <1>3, <2>1, <2>3, <3>1
    <2> QED
      BY <1>2, <2>1, <2>3
  <1>8. CASE Verify
    <2>1. op.at = "lock" /\ op.plan = NoPlan /\ UNCHANGED <<journal, done, minted>>
          /\ Goes("verified", op.plan, op.fresh, op.todo, op.missing)
      BY <1>0, <1>4, <1>8, DecidingEffects
    <2>2. InHand'
      BY <1>0, <2>1 DEF InHand, Goes, Deciding, Finishing, Minted
    <2> QED
      BY <1>3, <2>1, <2>2
  <1>9. CASE LockRun
    <2>1. op.at = "lock" /\ UNCHANGED <<journal, done, minted>>
          /\ Goes("lock", op.plan, op.fresh, op.todo \ {Least(op.todo)}, op.missing)
      BY <1>0, <1>4, <1>9, LockingEffects
    <2>2. InHand'
      BY <1>0, <2>1 DEF InHand, Goes, Deciding, Finishing, Minted
    <2> QED
      BY <1>3, <2>1, <2>2
  <1>10. CASE LockMailboxes
    <2>1. op.at \in {"lock", "verified"} /\ UNCHANGED <<journal, done, minted>>
          /\ Goes(IF op.plan # NoPlan THEN "claim" ELSE "freeze", op.plan, op.fresh, op.todo, op.missing)
      BY <1>0, <1>4, <1>10, LockingEffects
    <2>2. InHand'
      BY <1>0, <2>1 DEF InHand, Goes, Deciding, Finishing, Minted
    <2> QED
      BY <1>3, <2>1, <2>2
  <1>11. CASE OwnersWritten
    <2>1. op.at = "owners" /\ UNCHANGED <<journal, done, minted>>
          /\ IF op.plan.moved THEN Goes("notice from", op.plan, op.fresh, op.todo, op.missing)
                  ELSE Goes("moves", op.plan, op.fresh, op.plan.unread, op.missing)
      BY <1>0, <1>4, <1>11, DecidingEffects
    <2>2. op.plan \in journal /\ op.plan # NoPlan
      BY <1>0, <2>1 DEF InHand, OperationInv, Finishing
    <2>3. InHand'
      BY <1>0, <2>1, <2>2 DEF InHand, Goes, Deciding, Finishing, Minted
    <2> QED
      BY <1>3, <2>1, <2>3
  <1>12. ASSUME NEW w \in Writes, ConsumeClaim(w) PROVE PlansInv'
    <2>1. /\ op.at = "claim" /\ UNCHANGED <<journal, done, minted>>
          /\ (op' = NoOp \/ Goes("owners", op.plan, op.fresh, op.plan.runs, op.missing))
      BY <1>0, <1>12, ClaimEffects DEF Throws
    <2>2. CASE Goes("owners", op.plan, op.fresh, op.plan.runs, op.missing)
      <3>1. InHand'
        BY <1>0, <2>1, <2>2 DEF InHand, Goes, Deciding, Finishing, Minted
      <3> QED
        BY <1>3, <2>1, <2>2, <3>1
    <2> QED
      BY <1>2, <2>1, <2>2
  <1>13. ASSUME NEW w \in Writes, WriteOwners(w) PROVE PlansInv'
    <2>1. /\ op.at = "owners" /\ UNCHANGED <<journal, done, minted>>
          /\ (op' = NoOp \/ Goes("owners", op.plan, op.fresh, op.todo \ {Least(op.todo)}, op.missing))
      BY <1>0, <1>13, OwnersEffects DEF Throws
    <2>2. CASE Goes("owners", op.plan, op.fresh, op.todo \ {Least(op.todo)}, op.missing)
      <3>1. InHand'
        BY <1>0, <2>1, <2>2 DEF InHand, Goes, Deciding, Finishing, Minted
      <3> QED
        BY <1>3, <2>1, <2>2, <3>1
    <2> QED
      BY <1>2, <2>1, <2>2
  <1>14. ASSUME NEW w \in Writes, NoticeFrom(w) \/ NoticeTo(w) PROVE PlansInv'
    <2>1. /\ op.at \in {"notice from", "notice to"} /\ UNCHANGED <<journal, done, minted>>
          /\ \/ op' = NoOp
             \/ \E at \in {"notice to", "retarget"} : Goes(at, op.plan, op.fresh, op.todo, op.missing)
      BY <1>0, <1>14, NoticeEffects DEF NoticeStep, Throws
    <2>2. ASSUME NEW at \in {"notice to", "retarget"}, Goes(at, op.plan, op.fresh, op.todo, op.missing) PROVE PlansInv'
      <3>1. InHand'
        BY <1>0, <2>1, <2>2 DEF InHand, Goes, Deciding, Finishing, Minted
      <3> QED
        BY <1>3, <2>1, <2>2, <3>1
    <2> QED
      BY <1>2, <2>1, <2>2
  <1>15. ASSUME NEW w \in Writes, MoveFile(w) PROVE PlansInv'
    <2> DEFINE e == Least(op.todo)
               m == IF e \in unread[op.plan.from] \cup unread[op.plan.to] THEN op.missing ELSE op.missing \cup {e}
    <2>1. /\ op.at = "moves" /\ op.todo # {} /\ UNCHANGED <<journal, done, minted>>
          /\ (op' = NoOp \/ Goes("moves", op.plan, op.fresh, op.todo \ {e}, m))
      BY <1>0, <1>15, MoveEffects DEF Throws
    <2>2. CASE Goes("moves", op.plan, op.fresh, op.todo \ {e}, m)
      <3>1. op.plan \in journal /\ op.todo \subseteq op.plan.unread
        BY <1>0, <2>1 DEF InHand, OperationInv, Finishing
      <3>2. op.plan.unread \subseteq Minted
        BY <1>0, <3>1 DEF PlansInv, Frozen, Minted
      <3>3. e \in Minted
        BY <1>0, <2>1, <3>1, <3>2, LeastMinted
      <3>4. m \subseteq Minted
        BY <1>0, <3>3 DEF InHand
      <3> HIDE DEF e, m
      <3>5. InHand'
        BY <1>0, <2>1, <2>2, <3>1, <3>4 DEF InHand, Goes, Deciding, Finishing, Minted
      <3> QED
        BY <1>3, <2>1, <2>2, <3>5
    <2> QED
      BY <1>2, <2>1, <2>2
  <1>16. CASE MovesDone
    <2> DEFINE q == [op.plan EXCEPT !.moved = TRUE]
    <2>1. op.at = "moves" /\ Goes("checkpoint", q, op.fresh, op.todo, {}) /\ UNCHANGED <<journal, done, minted>>
      BY <1>0, <1>16, MovesDoneEffects
    <2>2. op.plan \in journal /\ ~op.plan.moved
      BY <1>0, <2>1 DEF InHand, OperationInv, Finishing
    <2>3. q.moved
      BY <1>0, <2>2 DEF DurableInv, WellFrozen
    <2>4. \E p \in journal : ~p.moved /\ q = [p EXCEPT !.moved = TRUE]
      BY <2>2
    <2> HIDE DEF q
    <2>5. InHand'
      <3>1. op'.at = "checkpoint" /\ op'.plan = q /\ op'.missing = {} /\ op'.ask = op.ask /\ journal' = journal
        BY <2>1 DEF Goes
      <3> QED
        BY <1>0, <2>3, <2>4, <3>1 DEF InHand, Deciding, Finishing
    <2> QED
      BY <1>3, <2>1, <2>5
  <1> QED
    BY JournalKeepsPlans, <1>5, <1>6, <1>7, <1>8, <1>9, <1>10, <1>11, <1>12, <1>13, <1>14, <1>15, <1>16 DEF OpStep

-----------------------------------------------------------------------------
(* The steps of the daemon, by what they leave alone. *)
Else == UNCHANGED <<phase, crashes, claims, journal, done, carried, op>>

Idle ==
    /\ UNCHANGED <<unread, acked, unpersisted, pendingGap, capacity, minted, subject, owners, runLock, index, write, retry,
                   faults, accepted, refused, pruned, unlogged, gaps, crashes, journal, done, carried, op>>
    /\ \/ phase' = phase
       \/ phase = "down" /\ phase' = "replaying"
       \/ op.at = "idle" /\ journal = {} /\ phase' = "gaps"
       \/ phase = "gaps" /\ phase' = "serving"

Writing(p) == AdmitWrite(p) \/ WriteTimesOut(p) \/ \E w \in Writes : LandWrite(p, w)

Retrying ==
    \/ BeginRetry \/ EndRetry
    \/ \E g \in retry.todo : RetryOnDisk(g)
    \/ \E g \in retry.todo, w \in Writes : RetryWrite(g, w)
    \/ \E w \in Writes : ClearGap(w)

Asking ==
    \/ \E from, to \in Managers, S \in SUBSET Runs, i \in Incidents \cup {None} : AskChange(from, to, S, i)
    \/ AskPending

LEMMA NextCases ==
    ASSUME [Next]_vars
    PROVE  \/ \E p \in Writers, r \in Runs : Watching /\ EventsLeft /\ BeginWrite(p, r) /\ Else
           \/ \E p \in Writers : Writing(p) /\ Else
           \/ \E k \in Managers : \E e \in unread[k] : Serving /\ Ack(k, e) /\ Else
           \/ Retrying /\ Else
           \/ \E k \in Managers, w \in Writes : EventsLeft /\ WriteGap(k, w) /\ Else
           \/ Asking
           \/ OpStep \/ LockTimesOut
           \/ Crash
           \/ Idle
  <1> USE DEF daemon, book, Else
  <1>1. CASE UNCHANGED vars
    BY <1>1 DEF vars, box, files, status, locks, past, Idle
  <1>2. ASSUME NEW i \in Incidents, NEW from \in Managers, NEW to \in Managers, NEW S \in SUBSET Runs, Instruct(i, from, to, S)
        PROVE  Idle
    BY <1>2 DEF Instruct, box, files, status, locks, past, Idle
  <1>3. CASE StartDaemon
    BY <1>3 DEF StartDaemon, box, files, status, locks, past, Idle
  <1>4. CASE StartReplayed
    BY <1>4 DEF StartReplayed, box, files, status, locks, past, Idle
  <1>5. CASE Serve
    BY <1>5 DEF Serve, box, files, status, locks, past, Idle
  <1>6. ASSUME NEW k \in Managers, NEW w \in Writes, DiscloseGap(k, w)
        PROVE  EventsLeft /\ WriteGap(k, w) /\ Else
    BY <1>6 DEF DiscloseGap
  <1>7. ASSUME NEW p \in Writers, WriterStep(p) PROVE Writing(p) /\ Else
    BY <1>7 DEF WriterStep, Writing
  <1>8. ASSUME RetryStep PROVE Retrying /\ Else
    BY <1>8 DEF RetryStep, Retrying
  <1>9. CASE Next
    BY <1>2, <1>3, <1>4, <1>5, <1>6, <1>7, <1>8, <1>9 DEF Next, Writing, Retrying, Asking
  <1> QED
    BY <1>1, <1>9

(* What is minted, minted + 1, is within the bound. *)
LEMMA MintedOneMore ==
    ASSUME Numbered, minted \in Nat, EventsLeft
    PROVE  minted + 1 <= MaxEvents + 2 * Transfers /\ minted + 1 \in Ids
  BY OwnershipAssumption DEF Numbered, EventsLeft, Ids

LEMMA PlanStep == OwnershipInv /\ PlanInv /\ [Next]_vars => PlanInv'
  <1> SUFFICES ASSUME OwnershipInv, PlanInv, [Next]_vars PROVE PlanInv'
    OBVIOUS
  <1>0. BoxInv /\ BookInv /\ MailboxShape /\ BoxTypes /\ PlansInv /\ Numbered /\ InHand /\ (\A q \in journal : Frozen(q))
    BY DEF OwnershipInv, BoxInv, PlanInv, PlansInv
  <1>00. minted \in Nat /\ DurableInv /\ OperationInv
    BY <1>0 DEF MailboxShape, BookInv
  <1>01. minted <= MaxEvents + 2 * Transfers
    BY <1>0 DEF Numbered
  <1>1. ASSUME Else, minted' \in {minted} \/ (EventsLeft /\ minted' = minted + 1)
        PROVE  PlansInv'
    <2>1. minted' \in Nat /\ minted <= minted' /\ minted' <= MaxEvents + 2 * Transfers
      BY <1>0, <1>00, <1>01, <1>1, MintedOneMore
    <2> QED
      BY <1>0, <1>00, <1>1, <2>1, PlansKept DEF Else
  <1>2. ASSUME NEW p \in Writers, NEW r \in Runs, EventsLeft, BeginWrite(p, r), Else PROVE PlanInv'
    BY <1>0, <1>1, <1>2, WriterTypes DEF BeginWrite, Else, PlanInv
  <1>3. ASSUME NEW p \in Writers, Writing(p), Else PROVE PlanInv'
    <2>1. minted' = minted
      BY <1>3 DEF Writing, AdmitWrite, WriteTimesOut, LandWrite
    <2>2. BoxTypes'
      BY <1>0, <1>3, WriterTypes DEF Writing, Else
    <2> QED
      BY <1>1, <1>3, <2>1, <2>2 DEF PlanInv
  <1>4. ASSUME NEW k \in Managers, NEW e \in unread[k], Ack(k, e), Else PROVE PlanInv'
    BY <1>0, <1>1, <1>4, AckTypes DEF Ack, Else, PlanInv
  <1>5. ASSUME Retrying, Else PROVE PlanInv'
    <2>1. minted' = minted
      BY <1>5 DEF Retrying, BeginRetry, EndRetry, RetryOnDisk, RetryWrite, ClearGap
    <2>2. BoxTypes'
      BY <1>0, <1>5, RetryTypes DEF Retrying, Else
    <2> QED
      BY <1>1, <1>5, <2>1, <2>2 DEF PlanInv
  <1>6. ASSUME NEW k \in Managers, NEW w \in Writes, EventsLeft, WriteGap(k, w), Else PROVE PlanInv'
    BY <1>0, <1>1, <1>6, GapTypes DEF WriteGap, Else, PlanInv
  <1>7. ASSUME UNCHANGED <<unread, acked, unpersisted, pendingGap, capacity, minted, subject, runLock, index, write, retry,
                           faults, gaps, crashes>>, phase' \in {"down", "replaying", "gaps", "serving"}
        PROVE  BoxTypes'
    BY <1>0, <1>7 DEF BoxTypes, Minted
  <1>8. CASE Asking
    <2>1. BoxTypes'
      BY <1>0, <1>7, <1>8 DEF Asking, AskChange, AskPending, box, files, status, locks, past, daemon, BoxTypes
    <2> QED
      BY <1>0, <1>00, <1>8, <2>1, AsksKeepPlans DEF Asking, PlanInv
  <1>9. CASE OpStep \/ LockTimesOut
    BY <1>0, <1>9, OpBoxTypes, OpKeepsPlans DEF PlanInv
  <1>10. CASE Crash
    <2>1. op' = NoOp /\ UNCHANGED <<journal, done, minted>>
      BY <1>10 DEF Crash, book
    <2>2. PlansInv'
      BY <1>0, <2>1, NoneInHand, PlansStand
    <2> QED
      BY <1>0, <1>10, <2>2, CrashTypes DEF PlanInv
  <1>11. CASE Idle
    <2>1. BoxTypes'
      BY <1>0, <1>7, <1>11 DEF Idle, BoxTypes
    <2>2. PlansInv'
      BY <1>0, <1>00, <1>01, <1>11, PlansKept DEF Idle
    <2> QED
      BY <2>1, <2>2 DEF PlanInv
  <1> QED
    BY <1>2, <1>3, <1>4, <1>5, <1>6, <1>8, <1>9, <1>10, <1>11, NextCases

LEMMA PlanInit == Init => PlanInv
  <1> SUFFICES ASSUME Init PROVE PlanInv
    OBVIOUS
  <1>1. BoxTypes
    BY MailboxAssumption, OwnershipAssumption DEF Init, BoxTypes, NoRetry, NoWrite, Minted
  <1>2. Transfers = 0 /\ Cardinality(done) = 0
    BY FS_EmptySet DEF Init, Transfers
  <1>3. Numbered
    BY <1>2, OwnershipAssumption DEF Init, Numbered, NoOp
  <1>4. InHand
    BY DEF Init, NoOp, NoAsk, NoPlan, InHand, Deciding, Finishing
  <1> QED
    BY <1>1, <1>3, <1>4 DEF Init, PlanInv, PlansInv

-----------------------------------------------------------------------------
(* The owners: the histories are those of the transfers. *)
LEMMA HistoryKept ==
    ASSUME HistoryInv, UNCHANGED <<owners, journal, done>>
    PROVE  HistoryInv'
  BY DEF HistoryInv, Entries, Continues, BatchIsWhole

(* The operation rests, asks or decides. *)
LEMMA NoTarget ==
    ASSUME op'.at \notin {"verified", "freeze"} \cup (Finishing \ {"claim"})
    PROVE  TargetInv'
  BY DEF TargetInv

(* An entry of another transfer does not count. *)
LEMMA EntryAppended ==
    ASSUME NEW h \in OwnerHistory, NEW e \in Entry, NEW g, g = Append(h, e)
    PROVE  /\ Len(h) \in Nat /\ Len(g) = Len(h) + 1 /\ g[Len(g)] = e /\ g \in OwnerHistory
           /\ \A n \in 1..Len(h) : g[n] = h[n]
           /\ \A x : e.by # x => {n \in DOMAIN g : g[n].by = x} = {n \in DOMAIN h : h[n].by = x}
           /\ (\A n \in 1..Len(h) : h[n].by # e.by) => {n \in DOMAIN g : g[n].by = e.by} = {Len(h) + 1}
  <1>1. h \in Seq(Entry) /\ Len(h) \in Nat /\ DOMAIN h = 1..Len(h)
    BY DEF OwnerHistory
  <1>2. Len(g) = Len(h) + 1 /\ DOMAIN g = 1..(Len(h) + 1) /\ g[Len(h) + 1] = e /\ g \in Seq(Entry)
    BY <1>1
  <1>3. \A n \in 1..Len(h) : g[n] = h[n]
    BY <1>1
  <1>4. g \in OwnerHistory
    BY <1>1, <1>2 DEF OwnerHistory
  <1>5. ASSUME NEW x, e.by # x PROVE {n \in DOMAIN g : g[n].by = x} = {n \in DOMAIN h : h[n].by = x}
    BY <1>1, <1>2, <1>3, <1>5
  <1>6. ASSUME \A n \in 1..Len(h) : h[n].by # e.by PROVE {n \in DOMAIN g : g[n].by = e.by} = {Len(h) + 1}
    BY <1>1, <1>2, <1>3, <1>6
  <1> QED
    BY <1>1, <1>2, <1>3, <1>4, <1>5, <1>6

(* The freeze continues the histories it finds. *)
LEMMA FreezeKeepsHistory ==
    ASSUME HistoryInv, TargetInv, PlanInv, BoxInv, BookInv, NEW w \in Writes, Freeze(w)
    PROVE  HistoryInv' /\ TargetInv'
  <1>0. OperationInv /\ DurableInv /\ BoxTypes
    BY DEF BookInv, PlanInv
  <1>1. PICK p : p = FrozenPlan(op.ask)
    OBVIOUS
  <1>2. /\ op.at = "freeze" /\ UNCHANGED <<owners, done>>
        /\ journal' = IF w # "lost" THEN journal \cup {p} ELSE journal
        /\ Throws \/ Goes("claim", p, TRUE, op.todo, op.missing)
    BY <1>0, <1>1, FreezeEffects
  <1>3. journal = {} /\ WellAsked(op.ask)
    BY <1>0, <1>2 DEF OperationInv, Deciding
  <1>4. TargetInv'
    <2>1. op'.at = "claim" \/ op'.at = "idle"
      BY <1>2 DEF Throws, Goes, NoOp
    <2> QED
      BY <2>1, NoTarget DEF Finishing
  <1>5. CASE journal' = {p}
    <2>1. /\ p.runs = op.ask.runs /\ p.from = op.ask.from /\ p.to = op.ask.to /\ p.moved = FALSE
          /\ p.owners = [r \in p.runs |-> Append(owners[r], [session |-> p.to, by |-> p.id])]
      BY <1>1 DEF FrozenPlan
    <2>2. \A r \in Runs : Entries(owners[r])
      BY <1>3 DEF HistoryInv
    <2>3. ASSUME NEW r \in p.runs PROVE Continues(p, r)'
      <3>1. r \in Runs /\ owners[r] \in OwnerHistory /\ OwnerOf(r) = p.from
        BY <1>2, <1>3, <2>1 DEF WellAsked, TargetInv, BoxInv, MailboxShape
      <3>2. /\ Entries(owners[r]) /\ owners[r][Len(owners[r])].session = p.from
            /\ p.owners[r] = Append(owners[r], [session |-> p.to, by |-> p.id])
        BY <2>1, <2>2, <3>1 DEF OwnerOf
      <3>3. PICK h : h = owners[r]
        OBVIOUS
      <3>4. Entries(h)' /\ h \in OwnerHistory /\ h = owners'[r]
        BY <1>2, <3>1, <3>2, <3>3 DEF Entries
      <3> QED
        BY <3>2, <3>3, <3>4 DEF Continues
    <2>4. \A r \in Runs : Entries(owners[r])'
      BY <1>2, <2>2 DEF Entries
    <2>5. BatchIsWhole' /\ (\A d \in done' : d.runs \subseteq Runs)
      BY <1>2 DEF HistoryInv, BatchIsWhole
    <2>6. \A q \in journal' : q = p
      BY <1>5
    <2> QED
      BY <1>4, <2>1, <2>3, <2>4, <2>5, <2>6 DEF HistoryInv
  <1>6. CASE journal' = journal
    BY <1>2, <1>4, <1>6, HistoryKept
  <1> QED
    BY <1>2, <1>3, <1>5, <1>6

LEMMA WriteOwnersKeepsHistory ==
    ASSUME HistoryInv, TargetInv, PlanInv, BoxInv, BookInv, NEW w \in Writes, WriteOwners(w)
    PROVE  HistoryInv' /\ TargetInv'
  <1>0. OperationInv /\ DurableInv /\ BoxTypes /\ InHand /\ Numbered
    BY DEF BookInv, PlanInv, PlansInv
  <1>1. PICK p, r : p = op.plan /\ r = Least(op.todo)
    OBVIOUS
  <1>2. /\ op.at = "owners" /\ op.todo # {} /\ UNCHANGED <<journal, done>>
        /\ owners' = owners \/ owners' = [owners EXCEPT ![r] = p.owners[r]]
        /\ op' = NoOp \/ (owners' = [owners EXCEPT ![r] = p.owners[r]] /\ Goes("owners", p, op.fresh, op.todo \ {r}, op.missing))
    BY <1>0, <1>1, OwnersEffects DEF Throws
  <1>3. p \in journal /\ WellFrozen(p) /\ op.todo \subseteq p.runs /\ p.runs \subseteq Runs
    BY <1>0, <1>1, <1>2 DEF InHand, OperationInv, Finishing, DurableInv, WellFrozen
  <1>4. r \in p.runs /\ r \in Runs
    BY <1>1, <1>2, <1>3, LeastIsMember
  <1>5. owners \in [Runs -> OwnerHistory]
    BY DEF BoxInv, MailboxShape
  <1>6. \A x \in Runs : owners'[x] = owners[x] \/ (x = r /\ owners'[x] = p.owners[x])
    BY <1>2, <1>4, <1>5
  <1>7. TargetInv'
    <2>1. CASE op' = NoOp
      BY <2>1, NoTarget DEF NoOp, Finishing
    <2>2. CASE owners' = [owners EXCEPT ![r] = p.owners[r]] /\ Goes("owners", p, op.fresh, op.todo \ {r}, op.missing)
      <3>1. \A x \in p.runs \ op.todo : owners[x] = p.owners[x]
        BY <1>1, <1>2 DEF TargetInv, Finishing
      <3>2. owners'[r] = p.owners[r]
        BY <1>4, <1>5, <2>2
      <3>3. \A x \in p.runs \ (op.todo \ {r}) : owners'[x] = p.owners[x]
        BY <1>3, <1>6, <3>1, <3>2
      <3> QED
        BY <2>2, <3>3 DEF TargetInv, Goes
    <2> QED
      BY <1>2, <2>1, <2>2
  <1>8. \A q \in journal : q = p
    BY <1>0, <1>3 DEF DurableInv
  <1>9. ASSUME NEW x \in Runs PROVE Entries(owners[x])' \/ \E q \in journal' : x \in q.runs /\ owners'[x] = q.owners[x]
    <2>1. CASE owners'[x] = owners[x]
      BY <1>2, <2>1 DEF HistoryInv, Entries
    <2> QED
      BY <1>2, <1>3, <1>4, <1>6, <2>1
  <1>10. ASSUME NEW x \in p.runs PROVE Continues(p, x)'
    <2>1. PICK h \in OwnerHistory : /\ Entries(h) /\ h[Len(h)].session = p.from
                                    /\ p.owners[x] = Append(h, [session |-> p.to, by |-> p.id])
                                    /\ owners[x] \in {h, p.owners[x]}
      BY <1>3 DEF HistoryInv, Continues
    <2>2. owners'[x] \in {h, p.owners[x]} /\ Entries(h)'
      BY <1>2, <1>3, <1>6, <2>1 DEF Entries
    <2> QED
      BY <2>1, <2>2 DEF Continues
  <1>11. p.moved => \A x \in p.runs : owners'[x] = p.owners[x]
    BY <1>3, <1>6 DEF HistoryInv
  <1>12. ASSUME NEW d \in done, NEW x \in d.runs
         PROVE  Cardinality({n \in DOMAIN owners'[x] : owners'[x][n].by = d.id}) = 1
    <2>1. Cardinality({n \in DOMAIN owners[x] : owners[x][n].by = d.id}) = 1
      BY DEF HistoryInv, BatchIsWhole
    <2>2. CASE owners'[x] = owners[x]
      BY <2>1, <2>2
    <2>3. CASE owners'[x] # owners[x]
      <3>1. x = r /\ owners'[x] = p.owners[x]
        BY <1>6, <2>3 DEF HistoryInv
      <3>2. PICK h \in OwnerHistory : /\ p.owners[x] = Append(h, [session |-> p.to, by |-> p.id])
                                      /\ owners[x] \in {h, p.owners[x]}
        BY <1>3, <1>4, <3>1 DEF HistoryInv, Continues
      <3>3. owners[x] = h /\ p.id # d.id
        BY <1>0, <1>3, <2>3, <3>1, <3>2, JournalCount DEF Numbered
      <3>4. [session |-> p.to, by |-> p.id] \in Entry
        BY <1>3 DEF WellFrozen, Entry
      <3>5. {n \in DOMAIN owners'[x] : owners'[x][n].by = d.id} = {n \in DOMAIN owners[x] : owners[x][n].by = d.id}
        BY <3>1, <3>2, <3>3, <3>4, EntryAppended
      <3> QED
        BY <2>1, <3>5
    <2> QED
      BY <2>2, <2>3
  <1>13. BatchIsWhole' /\ (\A d \in done' : d.runs \subseteq Runs)
    BY <1>2, <1>12 DEF HistoryInv, BatchIsWhole
  <1>14. \A q \in journal' : q = p
    BY <1>2, <1>8
  <1> QED
    BY <1>7, <1>9, <1>10, <1>11, <1>13, <1>14 DEF HistoryInv

(* movesComplete leaves the rest of the plan as it was. *)
LEMMA MovedFields ==
    ASSUME NEW p, WellFrozen(p), NEW q, q = [p EXCEPT !.moved = TRUE]
    PROVE  /\ q.id = p.id /\ q.from = p.from /\ q.to = p.to /\ q.runs = p.runs /\ q.owners = p.owners
           /\ q.incident = p.incident /\ q.notice = p.notice /\ q.unread = p.unread /\ q.moved = TRUE
  BY DEF WellFrozen

LEMMA CheckpointKeepsHistory ==
    ASSUME HistoryInv, TargetInv, PlanInv, BoxInv, BookInv, NEW w \in Writes, Checkpoint(w)
    PROVE  HistoryInv' /\ TargetInv'
  <1>0. OperationInv /\ DurableInv /\ BoxTypes /\ InHand
    BY DEF BookInv, PlanInv, PlansInv
  <1>1. PICK q : q = op.plan
    OBVIOUS
  <1>2. /\ op.at = "checkpoint" /\ UNCHANGED <<owners, done>>
        /\ journal' = IF w # "lost" THEN {p \in journal : p.id # q.id} \cup {q} ELSE journal
        /\ Throws \/ Goes("notice from", q, op.fresh, op.todo, op.missing)
    BY <1>0, <1>1, CheckpointEffects
  <1>3. PICK p \in journal : q = [p EXCEPT !.moved = TRUE]
    BY <1>0, <1>1, <1>2 DEF InHand, OperationInv, Finishing
  <1>4. journal = {p} /\ WellFrozen(p)
    BY <1>0, JournalCount DEF DurableInv
  <1>5. /\ q.id = p.id /\ q.from = p.from /\ q.to = p.to /\ q.runs = p.runs /\ q.owners = p.owners
    BY <1>3, <1>4, MovedFields
  <1>6. \A r \in q.runs : owners[r] = q.owners[r]
    BY <1>1, <1>2 DEF TargetInv, Finishing
  <1>7. TargetInv'
    <2>1. CASE Throws
      BY <2>1, NoTarget DEF Throws, NoOp, Finishing
    <2>2. CASE Goes("notice from", q, op.fresh, op.todo, op.missing)
      BY <1>2, <1>6, <2>2 DEF Goes, TargetInv
    <2> QED
      BY <1>2, <2>1, <2>2
  <1>8. CASE journal' = journal
    BY <1>2, <1>7, <1>8, HistoryKept
  <1>9. CASE journal' = {q}
    <2>0. owners' = owners /\ done' = done
      BY <1>2
    <2>1. BatchIsWhole' /\ (\A d \in done' : d.runs \subseteq Runs)
      BY <2>0 DEF HistoryInv, BatchIsWhole
    <2>2. ASSUME NEW r \in Runs PROVE Entries(owners[r])' \/ \E t \in journal' : r \in t.runs /\ owners'[r] = t.owners[r]
      <3>1. Entries(owners[r]) \/ (r \in p.runs /\ owners[r] = p.owners[r])
        BY <1>4 DEF HistoryInv
      <3>2. Entries(owners[r]) => Entries(owners[r])'
        BY <2>0 DEF Entries
      <3> QED
        BY <1>5, <1>9, <2>0, <3>1, <3>2
    <2>3. ASSUME NEW r \in q.runs PROVE Continues(q, r)'
      <3>1. Continues(p, r)
        BY <1>5 DEF HistoryInv
      <3> QED
        BY <1>2, <1>5, <3>1 DEF Continues, Entries
    <2> QED
      BY <1>2, <1>6, <1>7, <1>9, <2>1, <2>2, <2>3 DEF HistoryInv
  <1> QED
    BY <1>2, <1>4, <1>5, <1>8, <1>9

LEMMA MarkDoneKeepsHistory ==
    ASSUME HistoryInv, TargetInv, PlanInv, BoxInv, BookInv, NEW w \in Writes, MarkDone(w)
    PROVE  HistoryInv' /\ TargetInv'
  <1>0. OperationInv /\ DurableInv /\ BoxTypes /\ InHand /\ Numbered
    BY DEF BookInv, PlanInv, PlansInv
  <1>1. PICK p : p = op.plan
    OBVIOUS
  <1>2. /\ op.at = "retarget" /\ UNCHANGED owners
        /\ journal' = IF w # "lost" THEN {q \in journal : q.id # p.id} ELSE journal
        /\ done' = IF w # "lost" THEN done \cup {p} ELSE done
        /\ op' = NoOp \/ Goes("replay", NoPlan, op.fresh, op.todo, op.missing)
    BY <1>0, <1>1, MarkDoneEffects DEF Throws
  <1>3. p \in journal
    BY <1>0, <1>1, <1>2 DEF InHand, OperationInv, Finishing
  <1>4. journal = {p} /\ WellFrozen(p) /\ p.id = Cardinality(done) + 1 /\ Cardinality(done) \in Nat
    BY <1>0, <1>3, JournalCount DEF DurableInv, Numbered
  <1>5. TargetInv'
    <2>1. op'.at = "replay" \/ op'.at = "idle"
      BY <1>2 DEF Goes, NoOp
    <2> QED
      BY <2>1, NoTarget DEF Finishing
  <1>6. CASE w = "lost"
    BY <1>2, <1>5, <1>6, HistoryKept
  <1>7. CASE w # "lost"
    <2>1. journal' = {} /\ done' = done \cup {p}
      BY <1>2, <1>4, <1>7
    <2>2. p \notin done
      BY <1>0, <1>4 DEF Numbered
    <2>3. Cardinality(done') = Cardinality(done) + 1
      BY <1>0, <2>1, <2>2, FS_AddElement DEF DurableInv
    <2>4. \A r \in p.runs : owners[r] = p.owners[r]
      BY <1>1, <1>2 DEF TargetInv, Finishing
    <2>5. [session |-> p.to, by |-> p.id] \in Entry
      BY <1>4 DEF WellFrozen, Entry
    <2>6. ASSUME NEW r \in p.runs
          PROVE  /\ \A n \in 1..Len(owners[r]) : owners[r][n].by \in 0..(Cardinality(done) + 1)
                 /\ Cardinality({n \in DOMAIN owners[r] : owners[r][n].by = p.id}) = 1
      <3> DEFINE e == [session |-> p.to, by |-> p.id]
      <3>1. PICK h \in OwnerHistory : Entries(h) /\ p.owners[r] = Append(h, e)
        BY <1>3 DEF HistoryInv, Continues
      <3>2. e \in Entry /\ e.by = p.id
        BY <2>5
      <3> HIDE DEF e
      <3>3. PICK g : g = owners[r]
        OBVIOUS
      <3>4. g = Append(h, e)
        BY <2>4, <3>1, <3>3
      <3>5. /\ Len(h) \in Nat /\ Len(g) = Len(h) + 1 /\ g[Len(g)] = e
            /\ \A n \in 1..Len(h) : g[n] = h[n]
            /\ (\A n \in 1..Len(h) : h[n].by # e.by) => {n \in DOMAIN g : g[n].by = e.by} = {Len(h) + 1}
        BY <3>2, <3>4, EntryAppended
      <3>6. \A n \in 1..Len(h) : h[n].by \in 0..Cardinality(done)
        BY <3>1 DEF Entries
      <3>7. {n \in DOMAIN g : g[n].by = p.id} = {Len(h) + 1}
        BY <1>4, <3>2, <3>5, <3>6
      <3>8. \A n \in 1..Len(g) : g[n].by \in 0..(Cardinality(done) + 1)
        BY <1>4, <3>2, <3>5, <3>6
      <3> QED
        BY <3>3, <3>7, <3>8, FS_Singleton
    <2>7. ASSUME NEW r \in Runs PROVE Entries(owners[r])'
      <3>1. CASE r \in p.runs
        BY <1>2, <2>3, <2>6, <3>1 DEF Entries
      <3>2. CASE r \notin p.runs
        <4>1. Entries(owners[r])
          BY <1>4, <3>2 DEF HistoryInv
        <4> QED
          BY <1>2, <1>4, <2>3, <4>1 DEF Entries
      <3> QED
        BY <3>1, <3>2
    <2>8. BatchIsWhole' /\ (\A d \in done' : d.runs \subseteq Runs)
      <3>1. owners' = owners /\ p.runs \subseteq Runs
        BY <1>2, <1>4 DEF WellFrozen
      <3>2. ASSUME NEW d \in done', NEW r \in d.runs
            PROVE  Cardinality({n \in DOMAIN owners[r] : owners[r][n].by = d.id}) = 1
        <4>1. CASE d \in done
          BY <4>1 DEF HistoryInv, BatchIsWhole
        <4>2. CASE d = p
          BY <2>6, <4>2
        <4> QED
          BY <2>1, <4>1, <4>2
      <3>3. BatchIsWhole'
        BY <3>1, <3>2 DEF BatchIsWhole
      <3> QED
        BY <2>1, <3>1, <3>3 DEF HistoryInv
    <2> QED
      BY <1>5, <2>1, <2>7, <2>8 DEF HistoryInv
  <1> QED
    BY <1>6, <1>7

LEMMA OpKeepsOwners ==
    ASSUME OwnersInv, PlanInv, BoxInv, BookInv, OpStep \/ LockTimesOut
    PROVE  OwnersInv'
  <1>0. OperationInv /\ DurableInv /\ BoxTypes /\ InHand /\ HistoryInv /\ TargetInv
    BY DEF BookInv, PlanInv, PlansInv, OwnersInv
  <1>1. ASSUME UNCHANGED <<owners, journal, done>>, op'.at \notin {"verified", "freeze"} \cup (Finishing \ {"claim"})
        PROVE  OwnersInv'
    BY <1>0, <1>1, HistoryKept, NoTarget DEF OwnersInv
  <1>2. ASSUME UNCHANGED <<owners, journal, done>>, op' = NoOp
        PROVE  OwnersInv'
    BY <1>1, <1>2 DEF NoOp, Finishing
  <1>3. ASSUME UNCHANGED <<owners, journal, done>>, TargetInv' PROVE OwnersInv'
    BY <1>0, <1>3, HistoryKept DEF OwnersInv
  <1>4. OnlyOp => UNCHANGED <<owners, journal, done>>
    BY DEF OnlyOp
  <1>5. CASE LockTimesOut \/ VerifyRefuses
    BY <1>0, <1>2, <1>4, <1>5, DecidingEffects DEF Throws
  <1>6. CASE (\E p \in journal : ReplayNext(p)) \/ ReplayDone \/ LockRun
    <2>1. OnlyOp /\ (op' = NoOp \/ op'.at = "lock")
      BY <1>0, <1>6, DecidingEffects, LockingEffects DEF Goes
    <2> QED
      BY <1>1, <1>2, <1>4, <2>1 DEF Finishing
  <1>7. CASE Verify
    <2>1. OnlyOp /\ Goes("verified", op.plan, op.fresh, op.todo, op.missing) /\ Authorized(op.ask)
      BY <1>0, <1>7, DecidingEffects
    <2>2. \A r \in op'.ask.runs : OwnerOf(r)' = op'.ask.from
      BY <2>1 DEF Goes, OnlyOp, Authorized, OwnerOf
    <2>3. TargetInv'
      BY <2>1, <2>2 DEF TargetInv, Goes, Finishing
    <2> QED
      BY <1>3, <1>4, <2>1, <2>3
  <1>8. CASE LockMailboxes
    <2>1. OnlyOp /\ op.at \in {"lock", "verified"} /\ (op.plan = NoPlan => op.at = "verified")
          /\ Goes(IF op.plan # NoPlan THEN "claim" ELSE "freeze", op.plan, op.fresh, op.todo, op.missing)
      BY <1>0, <1>8, LockingEffects
    <2>2. CASE op.plan # NoPlan
      BY <1>1, <1>4, <2>1, <2>2 DEF Goes, Finishing
    <2>3. CASE op.plan = NoPlan
      <3>1. \A r \in op'.ask.runs : OwnerOf(r)' = op'.ask.from
        BY <1>0, <2>1, <2>3 DEF Goes, OnlyOp, OwnerOf, TargetInv
      <3>2. TargetInv'
        BY <2>1, <2>3, <3>1 DEF TargetInv, Goes, Finishing
      <3> QED
        BY <1>3, <1>4, <2>1, <3>2
    <2> QED
      BY <2>2, <2>3
  <1>9. ASSUME NEW w \in Writes, ConsumeClaim(w) PROVE OwnersInv'
    <2>1. /\ UNCHANGED <<owners, journal, done>>
          /\ op' = NoOp \/ Goes("owners", op.plan, op.fresh, op.plan.runs, op.missing)
      BY <1>0, <1>9, ClaimEffects DEF Throws
    <2>2. CASE Goes("owners", op.plan, op.fresh, op.plan.runs, op.missing)
      <3>1. TargetInv'
        BY <2>2 DEF Goes, TargetInv
      <3> QED
        BY <1>3, <2>1, <3>1
    <2> QED
      BY <1>2, <2>1, <2>2
  <1>10. ASSUME UNCHANGED <<owners, journal, done>>, op'.at \in Finishing \ {"claim", "owners"},
                op'.plan.runs = op.plan.runs, op'.plan.owners = op.plan.owners,
                op.at \in Finishing \ {"claim"}, op.at = "owners" => op.todo = {}
         PROVE  OwnersInv'
    <2>1. \A r \in op.plan.runs : owners[r] = op.plan.owners[r]
      BY <1>0, <1>10 DEF TargetInv
    <2>2. TargetInv'
      BY <1>10, <2>1 DEF TargetInv, Finishing
    <2> QED
      BY <1>3, <1>10, <2>2
  <1>11. CASE OwnersWritten
    <2>1. OnlyOp /\ op.at = "owners" /\ op.todo = {} /\ op'.plan = op.plan /\ op'.at \in {"notice from", "moves"}
      BY <1>0, <1>11, DecidingEffects DEF Goes
    <2> QED
      BY <1>4, <1>10, <2>1 DEF Finishing
  <1>12. ASSUME NEW w \in Writes, MoveFile(w) PROVE OwnersInv'
    <2>1. /\ UNCHANGED <<owners, journal, done>> /\ op.at = "moves"
          /\ op' = NoOp \/ \E t, m : Goes("moves", op.plan, op.fresh, t, m)
      BY <1>0, <1>12, MoveEffects DEF Throws
    <2>2. op' = NoOp \/ (op'.at = "moves" /\ op'.plan = op.plan)
      BY <2>1 DEF Goes
    <2> QED
      BY <1>2, <1>10, <2>1, <2>2 DEF Finishing
  <1>13. CASE MovesDone
    <2>1. /\ UNCHANGED <<owners, journal, done>> /\ op.at = "moves" /\ op'.at = "checkpoint"
          /\ op'.plan = [op.plan EXCEPT !.moved = TRUE]
      BY <1>0, <1>13, MovesDoneEffects DEF Goes
    <2>2. WellFrozen(op.plan)
      BY <1>0, <2>1 DEF OperationInv, PlanInHand, Finishing
    <2>3. op'.plan.runs = op.plan.runs /\ op'.plan.owners = op.plan.owners
      BY <2>1, <2>2, MovedFields
    <2> QED
      BY <1>10, <2>1, <2>3 DEF Finishing
  <1>14. ASSUME NEW w \in Writes, NoticeFrom(w) \/ NoticeTo(w) PROVE OwnersInv'
    <2>1. /\ UNCHANGED <<owners, journal, done>> /\ op.at \in {"notice from", "notice to"}
          /\ op' = NoOp \/ (op'.at \in {"notice to", "retarget"} /\ op'.plan = op.plan)
      BY <1>0, <1>14, NoticeEffects DEF NoticeStep, Throws, Goes
    <2> QED
      BY <1>2, <1>10, <2>1 DEF Finishing
  <1>15. ASSUME NEW w \in Writes, Freeze(w) \/ WriteOwners(w) \/ Checkpoint(w) \/ MarkDone(w) PROVE OwnersInv'
    BY <1>0, <1>15, FreezeKeepsHistory, WriteOwnersKeepsHistory, CheckpointKeepsHistory, MarkDoneKeepsHistory DEF OwnersInv
  <1> QED
    BY <1>5, <1>6, <1>7, <1>8, <1>9, <1>11, <1>12, <1>13, <1>14, <1>15 DEF OpStep

(* Only an operation changes an owner. *)
LEMMA OwnersStay ==
    ASSUME \/ \E p \in Writers, r \in Runs : BeginWrite(p, r)
           \/ \E p \in Writers : Writing(p)
           \/ \E k \in Managers : \E e \in unread[k] : Ack(k, e)
           \/ Retrying
           \/ \E k \in Managers, w \in Writes : WriteGap(k, w)
    PROVE  owners' = owners
  BY DEF BeginWrite, Writing, AdmitWrite, WriteTimesOut, LandWrite, Ack, Retrying, BeginRetry, EndRetry, RetryOnDisk,
         RetryWrite, ClearGap, WriteGap

LEMMA OwnersStep == OwnershipInv /\ PlanInv /\ OwnersInv /\ [Next]_vars => OwnersInv'
  <1> SUFFICES ASSUME OwnershipInv, PlanInv, OwnersInv, [Next]_vars PROVE OwnersInv'
    OBVIOUS
  <1>1. BoxInv /\ BookInv /\ HistoryInv /\ TargetInv
    BY DEF OwnershipInv, OwnersInv
  <1>2. ASSUME UNCHANGED <<owners, journal, done, op>> PROVE OwnersInv'
    <2>1. TargetInv'
      BY <1>1, <1>2 DEF TargetInv, OwnerOf
    <2> QED
      BY <1>1, <1>2, <2>1, HistoryKept DEF OwnersInv
  <1>3. ASSUME UNCHANGED <<owners, journal, done>>, op'.at \in {"idle", "replay"} PROVE OwnersInv'
    BY <1>1, <1>3, HistoryKept, NoTarget DEF OwnersInv, Finishing
  <1>4. CASE Asking
    BY <1>3, <1>4 DEF Asking, AskChange, AskPending, box, book, NoOp
  <1>5. CASE OpStep \/ LockTimesOut
    BY <1>1, <1>5, OpKeepsOwners
  <1>6. CASE Crash
    BY <1>3, <1>6 DEF Crash, book, NoOp
  <1>7. CASE Idle
    BY <1>2, <1>7 DEF Idle
  <1>8. ASSUME Else, owners' = owners PROVE OwnersInv'
    BY <1>2, <1>8 DEF Else
  <1> QED
    BY <1>4, <1>5, <1>6, <1>7, <1>8, NextCases, OwnersStay

LEMMA OwnersInit == Init => OwnersInv
  <1> SUFFICES ASSUME Init PROVE OwnersInv
    OBVIOUS
  <1>1. Cardinality(done) = 0 /\ journal = {} /\ done = {}
    BY FS_EmptySet DEF Init
  <1>2. ASSUME NEW r \in Runs PROVE Entries(owners[r])
    <2>1. owners[r] = <<[session |-> Launcher, by |-> 0]>>
      BY DEF Init
    <2> QED
      BY <1>1, <2>1 DEF Entries
  <1>3. HistoryInv
    BY <1>1, <1>2 DEF HistoryInv, BatchIsWhole
  <1>4. TargetInv
    BY DEF Init, NoOp, TargetInv, Finishing
  <1> QED
    BY <1>3, <1>4 DEF OwnersInv

(* The provenance and the journal are as the types say. *)
LEMMA TypesFollow == OwnershipInv /\ PlanInv /\ OwnersInv => TypeOK
  <1> SUFFICES ASSUME OwnershipInv, PlanInv, OwnersInv PROVE TypeOK
    OBVIOUS
  <1>0. BoxInv /\ BookInv /\ MailboxShape /\ BoxTypes /\ HistoryInv /\ Numbered /\ DurableInv
    BY DEF OwnershipInv, BoxInv, BookInv, PlanInv, PlansInv, OwnersInv
  <1>1. minted \in Nat /\ Cardinality(done) \in Nat /\ Transfers \in 0..MaxTransfers
    BY <1>0, JournalCount DEF MailboxShape, Numbered
  <1>2. Minted \subseteq Ids /\ minted \in Ids \cup {0}
    BY <1>0, <1>1, OwnershipAssumption DEF Numbered, Minted, Ids
  <1>3. /\ unread \in [Managers -> SUBSET Ids] /\ acked \in [Managers -> SUBSET Ids]
        /\ pendingGap \in [Managers -> Ids \cup {0}]
    BY <1>0, <1>2 DEF BoxTypes
  <1>4. Cardinality(done) <= MaxTransfers /\ \A p \in journal : p.id \in 1..MaxTransfers /\ p.id \in 0..MaxTransfers
    <2>1. CASE journal = {}
      BY <1>0, <1>1, <2>1, JournalCount, OwnershipAssumption DEF Transfers
    <2>2. ASSUME NEW p \in journal PROVE p.id = Transfers /\ Cardinality(done) + 1 = Transfers
      BY <1>0, <1>1, JournalCount DEF Transfers, Numbered
    <2> QED
      BY <1>1, <2>1, <2>2, OwnershipAssumption
  <1>5. ASSUME NEW r \in Runs PROVE owners[r] \in Seq([session : Managers, by : 0..MaxTransfers]) /\ owners[r] # <<>>
    <2>1. owners[r] \in Seq(Entry) /\ owners[r] # <<>>
      BY <1>0 DEF MailboxShape, OwnerHistory
    <2>2. \A n \in 1..Len(owners[r]) : owners[r][n].by \in 0..MaxTransfers
      <3>1. CASE Entries(owners[r])
        BY <1>1, <1>4, <3>1, OwnershipAssumption DEF Entries
      <3>2. ASSUME NEW p \in journal, r \in p.runs, owners[r] = p.owners[r]
            PROVE  \A n \in 1..Len(owners[r]) : owners[r][n].by \in 0..MaxTransfers
        <4> DEFINE e == [session |-> p.to, by |-> p.id]
        <4>1. PICK h \in OwnerHistory : Entries(h) /\ p.owners[r] = Append(h, e)
          BY <1>0, <3>2 DEF HistoryInv, Continues
        <4>2. e \in Entry /\ e.by = p.id
          BY <1>0 DEF DurableInv, WellFrozen, Entry
        <4> HIDE DEF e
        <4>3. PICK g : g = owners[r]
          OBVIOUS
        <4>4. g = Append(h, e)
          BY <3>2, <4>1, <4>3
        <4>5. Len(h) \in Nat /\ Len(g) = Len(h) + 1 /\ g[Len(g)] = e /\ \A n \in 1..Len(h) : g[n] = h[n]
          BY <4>2, <4>4, EntryAppended
        <4>6. \A n \in 1..Len(h) : h[n].by \in 0..MaxTransfers
          BY <1>1, <1>4, <4>1, OwnershipAssumption DEF Entries
        <4> QED
          BY <1>4, <4>2, <4>3, <4>5, <4>6
      <3> QED
        BY <1>0, <3>1, <3>2 DEF HistoryInv
    <2>3. Len(owners[r]) \in Nat /\ owners[r] \in [1..Len(owners[r]) -> Entry]
      BY <2>1
    <2>4. \A n \in 1..Len(owners[r]) : owners[r][n] \in [session : Managers, by : 0..MaxTransfers]
      BY <2>2, <2>3 DEF Entry
    <2>5. owners[r] \in [1..Len(owners[r]) -> [session : Managers, by : 0..MaxTransfers]]
      BY <2>3, <2>4
    <2>6. \A S : \A n \in Nat : [1..n -> S] \subseteq Seq(S)
      BY SeqDef, Zenon
    <2> QED
      BY <2>1, <2>3, <2>5, <2>6, Zenon
  <1>6. ASSUME NEW p \in journal PROVE IsPlan(p)
    <2>1. WellFrozen(p) /\ Frozen(p)
      BY <1>0 DEF DurableInv, PlanInv, PlansInv
    <2>2. p.unread \subseteq Ids
      BY <1>1, <1>2, <2>1 DEF Frozen, Minted
    <2>3. p.notice \in Ids \X Ids
      <3>1. p.notice \in Nat \X Nat /\ p.notice[1] \in Ids /\ p.notice[2] \in Ids
        BY <1>2, <2>1 DEF Frozen, WellFrozen
      <3>2. \A x \in Nat \X Nat : x[1] \in Ids /\ x[2] \in Ids => x \in Ids \X Ids
        OBVIOUS
      <3> QED
        BY <3>1, <3>2, Zenon
    <2> QED
      BY <1>4, <2>1, <2>2, <2>3 DEF IsPlan, WellFrozen, Frozen
  <1>7. \A i \in Incidents : claims[i].state \in {"absent", "open", "used"} /\ claims[i].runs \subseteq Runs
    BY <1>0 DEF DurableInv, ClaimShape
  <1> QED
    BY <1>0, <1>2, <1>3, <1>5, <1>6, <1>7 DEF TypeOK, BoxTypes

(* The plans and the histories of owners: transfers are numbered in their  *)
(* order, every history is one of finished transfers with at most the      *)
(* pending one's entry after it (journal.json and provenance.json).        *)
THEOREM OwnersIsInvariant == Spec => [](PlanInv /\ OwnersInv)
  BY OwnershipIsInvariant, PlanInit, PlanStep, OwnersInit, OwnersStep, PTL DEF Spec

(* The mailboxes, the provenance, the flocks and the journal have their    *)
(* types, and every identifier, run event, gap or notice, is in its bound. *)
THEOREM OwnershipTypes == Spec => []TypeOK
  BY OwnershipIsInvariant, OwnersIsInvariant, TypesFollow, PTL

-----------------------------------------------------------------------------
(* The flocks: a writer has its run, then the index; the operation has its *)
(* runs, then the index, until it is over.                                 *)
LEMMA HolderIsNoWriter == Holder \notin Writers /\ None \notin Writers /\ Holder # None
  BY MailboxAssumption, OwnershipAssumption DEF Holder

LEMMA MintedInIds ==
    ASSUME Numbered, minted \in Nat
    PROVE  Minted \subseteq Ids
  BY OwnershipAssumption DEF Numbered, Minted, Ids

LEMMA WantedAreRuns ==
    ASSUME BookInv, op.at \in Deciding \cup Finishing
    PROVE  Wanted \subseteq Runs
  <1>1. CASE op.plan = NoPlan
    <2>1. op.ask # NoAsk /\ WellAsked(op.ask)
      BY <1>1 DEF BookInv, OperationInv, Finishing
    <2> QED
      BY <1>1, <2>1 DEF Wanted, WellAsked
  <1>2. CASE op.plan # NoPlan
    <2>1. WellFrozen(op.plan)
      BY <1>2 DEF BookInv, OperationInv, PlanInHand
    <2> QED
      BY <1>2, <2>1 DEF Wanted, WellFrozen
  <1> QED
    BY <1>1, <1>2

LEMMA WritersKeepFlocks ==
    ASSUME FlockInv, BoxTypes, MailboxShape, BookInv, Numbered, NEW p \in Writers, Else,
           \/ \E r \in Runs : EventsLeft /\ BeginWrite(p, r)
           \/ Writing(p)
    PROVE  FlockInv'
  <1> USE HolderIsNoWriter
  <1>0. /\ minted \in Nat /\ write \in [Writers -> WriteShape] /\ WriterLocks /\ OpLocks
        /\ runLock \in [Runs -> Writers \cup {None, Holder}]
        /\ \A q \in Writers : write[q].at # "idle" => write[q].run \in Runs /\ write[q].id \in Minted
    BY DEF MailboxShape, FlockInv, BoxTypes
  <1>1. ASSUME op' = op, phase' = phase, index = Holder => index' = Holder,
               \A r \in Runs : runLock[r] = Holder => runLock'[r] = Holder,
               op.at \in Deciding \cup Finishing => Wanted \subseteq Runs
        PROVE  OpLocks'
    BY <1>0, <1>1 DEF OpLocks, Wanted
  <1>2. op' = op /\ phase' = phase
    BY DEF Else
  <1>3. ASSUME NEW r \in Runs, EventsLeft, BeginWrite(p, r) PROVE FlockInv'
    <2>1. /\ runLock[r] = None /\ runLock' = [runLock EXCEPT ![r] = p] /\ index' = index /\ owners' = owners
          /\ minted' = minted + 1 /\ subject' = [subject EXCEPT ![minted'] = r]
      BY <1>3 DEF BeginWrite
    <2> DEFINE begun == [at |-> "resolved", run |-> r, key |-> OwnerOf(r), id |-> minted', room |-> FALSE]
    <2>2. /\ write' = [write EXCEPT ![p] = begun] /\ begun.run = r /\ begun.key = OwnerOf(r) /\ begun.id = minted'
          /\ begun.at = "resolved"
      BY <1>3 DEF BeginWrite
    <2> HIDE DEF begun
    <2>3. minted' \in Ids
      BY <1>0, <1>3, <2>1, MintedOneMore
    <2>4. subject'[minted'] = r /\ \A e \in Minted : subject'[e] = subject[e]
      BY <1>0, <2>1, <2>3, MintedInIds DEF BoxTypes, Minted
    <2>5. ASSUME NEW q \in Writers, write'[q].at # "idle"
          PROVE  /\ runLock'[write'[q].run] = q /\ write'[q].key = OwnerOf(write[q].run)'
                 /\ subject'[write'[q].id] = write'[q].run
                 /\ write'[q].at = "scanned" => index' = q
      <3>1. CASE q = p
        <4>1. write'[q] = begun
          BY <1>0, <2>2, <3>1
        <4>2. runLock'[r] = p
          BY <1>0, <2>1
        <4>3. OwnerOf(r)' = OwnerOf(r)
          BY <2>1 DEF OwnerOf
        <4> QED
          BY <2>2, <2>4, <3>1, <4>1, <4>2, <4>3 DEF OwnerOf
      <3>2. CASE q # p
        <4>1. write'[q] = write[q]
          BY <1>0, <2>2, <3>2
        <4>2. /\ runLock[write[q].run] = q /\ write[q].key = OwnerOf(write[q].run)
              /\ subject[write[q].id] = write[q].run /\ (write[q].at = "scanned" => index = q)
              /\ write[q].run \in Runs /\ write[q].id \in Minted
          BY <1>0, <2>5, <4>1 DEF WriterLocks
        <4>3. runLock'[write[q].run] = q
          BY <1>0, <2>1, <4>2
        <4> QED
          BY <2>1, <2>4, <4>1, <4>2, <4>3 DEF OwnerOf
      <3> QED
        BY <3>1, <3>2
    <2>6. WriterLocks'
      BY <2>5 DEF WriterLocks
    <2>7. \A x \in Runs : runLock[x] = Holder => runLock'[x] = Holder
      BY <1>0, <2>1
    <2> QED
      BY <1>1, <1>2, <2>1, <2>6, <2>7, WantedAreRuns DEF FlockInv
  <1>4. ASSUME Writing(p) PROVE FlockInv'
    <2>0. owners' = owners /\ subject' = subject
      BY <1>4 DEF Writing, AdmitWrite, WriteTimesOut, LandWrite
    <2>1. CASE AdmitWrite(p)
      <3>1. write[p].at = "resolved" /\ index = None /\ index' = p /\ runLock' = runLock
        BY <2>1 DEF AdmitWrite
      <3> DEFINE admitted == [write[p] EXCEPT !.at = "scanned", !.room = ~AtCap(write[p].key)]
      <3>2. write' = [write EXCEPT ![p] = admitted]
        BY <2>1 DEF AdmitWrite
      <3>3. admitted.run = write[p].run /\ admitted.id = write[p].id /\ admitted.key = write[p].key
        BY <1>0 DEF WriteShape
      <3> HIDE DEF admitted
      <3>4. ASSUME NEW q \in Writers, write'[q].at # "idle"
            PROVE  /\ write'[q].run = write[q].run /\ write'[q].id = write[q].id /\ write'[q].key = write[q].key
                   /\ write[q].at # "idle" /\ (write'[q].at = "scanned" => index' = q)
        <4>1. CASE q = p
          BY <1>0, <3>1, <3>2, <3>3, <4>1
        <4>2. CASE q # p
          BY <1>0, <3>1, <3>2, <3>4, <4>2 DEF WriterLocks
        <4> QED
          BY <4>1, <4>2
      <3>5. WriterLocks'
        BY <1>0, <2>0, <3>1, <3>4 DEF WriterLocks, OwnerOf
      <3> QED
        BY <1>1, <1>2, <3>1, <3>5, WantedAreRuns DEF FlockInv
    <2>2. CASE WriteTimesOut(p) \/ \E w \in Writes : LandWrite(p, w)
      <3>1. /\ write[p].at # "idle" /\ runLock' = [runLock EXCEPT ![write[p].run] = None] /\ write' = [write EXCEPT ![p] = NoWrite]
            /\ index' = index \/ (write[p].at = "scanned" /\ index' = None)
        BY <2>2 DEF WriteTimesOut, LandWrite
      <3>2. runLock[write[p].run] = p /\ write[p].run \in Runs /\ (write[p].at = "scanned" => index = p)
        BY <1>0, <3>1 DEF WriterLocks
      <3>3. \A x \in Runs : runLock'[x] = IF x = write[p].run THEN None ELSE runLock[x]
        BY <1>0, <3>1
      <3>4. ASSUME NEW q \in Writers, write'[q].at # "idle"
            PROVE  /\ write'[q] = write[q] /\ runLock'[write[q].run] = runLock[write[q].run]
                   /\ write'[q].at = "scanned" => index' = q
        <4>1. q # p /\ write'[q] = write[q]
          BY <1>0, <3>1, <3>4 DEF NoWrite
        <4>2. runLock[write[q].run] = q /\ write[q].run \in Runs /\ (write[q].at = "scanned" => index = q)
          BY <1>0, <3>4, <4>1 DEF WriterLocks
        <4> QED
          BY <3>1, <3>2, <3>3, <4>1, <4>2
      <3>5. WriterLocks'
        BY <1>0, <2>0, <3>4 DEF WriterLocks, OwnerOf
      <3>6. index = Holder => index' = Holder
        BY <3>1, <3>2
      <3>7. \A x \in Runs : runLock[x] = Holder => runLock'[x] = Holder
        BY <3>2, <3>3
      <3> QED
        BY <1>1, <1>2, <3>5, <3>6, <3>7, WantedAreRuns DEF FlockInv
    <2> QED
      BY <1>4, <2>1, <2>2 DEF Writing
  <1> QED
    BY <1>3, <1>4

LEMMA OpKeepsFlocks ==
    ASSUME FlockInv, BoxTypes, InHand, BoxInv, BookInv, OpStep \/ LockTimesOut
    PROVE  FlockInv'
  <1> USE HolderIsNoWriter
  <1>0. /\ OperationInv /\ DurableInv /\ WriterLocks /\ OpLocks
        /\ runLock \in [Runs -> Writers \cup {None, Holder}]
        /\ \A q \in Writers : write[q].at # "idle" => write[q].run \in Runs
    BY DEF BookInv, FlockInv, BoxTypes
  <1>1. op.at \in Deciding \cup Finishing => Wanted \subseteq Runs
    BY WantedAreRuns
  \* The writers keep theirs while the operation takes free flocks or releases its own.
  <1>2. ASSUME UNCHANGED <<write, subject, owners>>,
               \A r \in Runs : runLock[r] \in Writers => runLock'[r] = runLock[r],
               index \in Writers => index' = index
        PROVE  WriterLocks'
    BY <1>0, <1>2 DEF WriterLocks, OwnerOf
  <1>3. Holds => /\ \A r \in Runs : runLock'[r] = runLock[r]
                 /\ index' = index /\ phase' = phase
    BY DEF Holds
  <1>4. Lets => /\ \A r \in Runs : runLock[r] \in Writers => runLock'[r] = runLock[r]
                /\ index \in Writers => index' = index
    BY DEF Lets
  <1>5. ASSUME op' = NoOp PROVE OpLocks'
    BY <1>5 DEF NoOp, OpLocks, Deciding, Finishing
  <1>6. ASSUME Throws, UNCHANGED <<write, subject, owners>> PROVE FlockInv'
    BY <1>2, <1>4, <1>5, <1>6 DEF Throws, FlockInv
  <1>7. ASSUME Holds, UNCHANGED <<write, subject, owners>>, op' = NoOp PROVE FlockInv'
    BY <1>2, <1>3, <1>5, <1>7 DEF FlockInv
  \* The operation goes on with the runs it has.
  <1>8. ASSUME Holds, UNCHANGED <<write, subject>>, WriterLocks', op.at \in Deciding \cup Finishing,
               op'.at \in Deciding \cup Finishing, op'.at # "lock", op.at = "lock" => op.todo = {}, Wanted' = Wanted,
               op'.at \in Finishing \cup {"freeze"} => op.at \in Finishing \cup {"freeze"}
        PROVE  FlockInv'
    <2>1. \A r \in Wanted : runLock[r] = Holder
      BY <1>0, <1>8 DEF OpLocks
    <2>2. OpLocks'
      BY <1>0, <1>1, <1>3, <1>8, <2>1 DEF OpLocks, Deciding, Finishing
    <2> QED
      BY <1>8, <2>2 DEF FlockInv
  <1>9. ASSUME NEW at, NEW plan, NEW fresh, NEW todo, NEW missing, Goes(at, plan, fresh, todo, missing),
               plan = op.plan \/ (plan # NoPlan /\ op.plan # NoPlan /\ plan.runs = op.plan.runs)
        PROVE  Wanted' = Wanted
    BY <1>9 DEF Goes, Wanted
  <1>10. ASSUME Holds, UNCHANGED <<write, subject, owners>> PROVE WriterLocks'
    BY <1>2, <1>3, <1>10
  <1>11. OnlyOp \/ NoFiles => UNCHANGED <<write, subject>>
    BY DEF OnlyOp, NoFiles
  <1>12. OnlyOp => owners' = owners
    BY DEF OnlyOp
  <1>20. CASE LockTimesOut \/ VerifyRefuses
    BY <1>0, <1>6, <1>11, <1>12, <1>20, DecidingEffects
  <1>21. ASSUME NEW p \in journal, ReplayNext(p) PROVE FlockInv'
    <2>1. op.at = "replay" /\ Goes("lock", p, op.fresh, p.runs, op.missing) /\ Holds /\ OnlyOp
      BY <1>0, <1>21, DecidingEffects
    <2>2. p # NoPlan
      BY <1>0, FrozenIsPlan DEF DurableInv
    <2>3. OpLocks'
      BY <1>0, <1>3, <2>1, <2>2 DEF OpLocks, Goes, Wanted, Deciding, Finishing
    <2> QED
      BY <1>10, <1>11, <1>12, <2>1, <2>3 DEF FlockInv
  <1>22. CASE ReplayDone
    <2>1. op.at = "replay" /\ Holds /\ OnlyOp /\ (op' = NoOp \/ Goes("lock", op.plan, op.fresh, op.ask.runs, op.missing))
      BY <1>0, <1>22, DecidingEffects
    <2>2. CASE Goes("lock", op.plan, op.fresh, op.ask.runs, op.missing)
      <3>1. op.plan = NoPlan
        BY <1>0, <2>1 DEF OperationInv
      <3>2. OpLocks'
        BY <1>0, <1>3, <2>1, <2>2, <3>1 DEF OpLocks, Goes, Wanted, Deciding, Finishing
      <3> QED
        BY <1>10, <1>11, <1>12, <2>1, <3>2 DEF FlockInv
    <2> QED
      BY <1>7, <1>11, <1>12, <2>1, <2>2
  <1>23. CASE LockRun
    <2> DEFINE r == Least(op.todo)
    <2>1. /\ op.at = "lock" /\ op.todo # {} /\ OnlyOp /\ UNCHANGED <<index, phase, crashes>>
          /\ Goes("lock", op.plan, op.fresh, op.todo \ {r}, op.missing)
          /\ runLock[r] = None /\ runLock' = [runLock EXCEPT ![r] = Holder]
      BY <1>0, <1>23, LockingEffects
    <2>2. op.todo \subseteq Wanted /\ Wanted \subseteq Runs
      BY <1>1, <2>1 DEF InHand, Wanted, Deciding
    <2>3. r \in Runs
      BY <2>1, <2>2, LeastIsMember
    <2> HIDE DEF r
    <2>4. \A x \in Runs : runLock'[x] = IF x = r THEN Holder ELSE runLock[x]
      BY <1>0, <2>1, <2>3
    <2>5. WriterLocks'
      BY <1>2, <1>11, <1>12, <2>1, <2>4
    <2>6. Wanted' = Wanted
      BY <1>9, <2>1
    <2>7. \A x \in Wanted \ op.todo : runLock[x] = Holder
      BY <1>0, <2>1 DEF OpLocks, Deciding
    <2>8. \A x \in Wanted \ (op.todo \ {r}) : runLock'[x] = Holder
      BY <2>2, <2>4, <2>7
    <2>9. OpLocks'
      BY <1>0, <2>1, <2>6, <2>8 DEF OpLocks, Goes, Finishing
    <2> QED
      BY <2>5, <2>9 DEF FlockInv
  <1>24. CASE Verify
    <2>1. op.at = "lock" /\ op.todo = {} /\ Holds /\ OnlyOp /\ Goes("verified", op.plan, op.fresh, op.todo, op.missing)
      BY <1>0, <1>24, DecidingEffects
    <2>2. op'.at = "verified" /\ Wanted' = Wanted
      BY <1>9, <2>1 DEF Goes
    <2> QED
      BY <1>8, <1>10, <1>11, <1>12, <2>1, <2>2 DEF Deciding, Finishing
  <1>25. CASE LockMailboxes
    <2>1. /\ op.at \in {"lock", "verified"} /\ OnlyOp /\ UNCHANGED <<runLock, phase, crashes>>
          /\ op.at = "lock" => op.todo = {}
          /\ index = None /\ index' = Holder
          /\ Goes(IF op.plan # NoPlan THEN "claim" ELSE "freeze", op.plan, op.fresh, op.todo, op.missing)
      BY <1>0, <1>25, LockingEffects
    <2>2. op'.at \in {"claim", "freeze"} /\ Wanted' = Wanted
      BY <1>9, <2>1 DEF Goes
    <2>3. WriterLocks'
      BY <1>2, <1>11, <1>12, <2>1
    <2>4. \A r \in Wanted : runLock[r] = Holder
      BY <1>0, <2>1 DEF OpLocks, Deciding
    <2>5. OpLocks'
      BY <1>0, <2>1, <2>2, <2>4 DEF OpLocks
    <2> QED
      BY <2>3, <2>5 DEF FlockInv
  <1>26. ASSUME NEW w \in Writes, Freeze(w) PROVE FlockInv'
    <2>1. /\ op.at = "freeze" /\ NoFiles /\ owners' = owners
          /\ Throws \/ (Holds /\ Goes("claim", FrozenPlan(op.ask), TRUE, op.todo, op.missing))
      BY <1>0, <1>26, FreezeEffects
    <2>2. CASE Holds /\ Goes("claim", FrozenPlan(op.ask), TRUE, op.todo, op.missing)
      <3>1. op.plan = NoPlan /\ FrozenPlan(op.ask) # NoPlan
        BY <2>1, FrozenPlanIsWell, FrozenIsPlan
      <3>2. FrozenPlan(op.ask).runs = op.ask.runs
        BY DEF FrozenPlan
      <3>3. Wanted' = Wanted /\ op'.at = "claim"
        BY <2>2, <3>1, <3>2 DEF Goes, Wanted
      <3> QED
        BY <1>8, <1>10, <1>11, <2>1, <2>2, <3>3 DEF Deciding, Finishing
    <2> QED
      BY <1>6, <1>11, <2>1, <2>2
  <1>27. ASSUME op.at \in Finishing, Holds, UNCHANGED <<write, subject>>, WriterLocks', op'.at \in Finishing, Wanted' = Wanted
         PROVE  FlockInv'
    BY <1>8, <1>27 DEF Deciding, Finishing
  <1>28. ASSUME NEW w \in Writes, ConsumeClaim(w) PROVE FlockInv'
    <2>1. /\ op.at = "claim" /\ NoFiles /\ owners' = owners
          /\ Throws \/ (Holds /\ Goes("owners", op.plan, op.fresh, op.plan.runs, op.missing))
      BY <1>0, <1>28, ClaimEffects
    <2>2. Goes("owners", op.plan, op.fresh, op.plan.runs, op.missing) => Wanted' = Wanted /\ op'.at = "owners"
      BY <1>9 DEF Goes
    <2> QED
      BY <1>6, <1>10, <1>11, <1>27, <2>1, <2>2 DEF Finishing
  <1>29. ASSUME NEW w \in Writes, WriteOwners(w) PROVE FlockInv'
    <2>1. /\ op.at = "owners" /\ op.todo # {} /\ NoFiles
          /\ owners' = owners \/ owners' = [owners EXCEPT ![Least(op.todo)] = op.plan.owners[Least(op.todo)]]
          /\ Throws \/ (Holds /\ Goes("owners", op.plan, op.fresh, op.todo \ {Least(op.todo)}, op.missing))
      BY <1>0, <1>29, OwnersEffects
    <2>2. Goes("owners", op.plan, op.fresh, op.todo \ {Least(op.todo)}, op.missing) => Wanted' = Wanted /\ op'.at = "owners"
      BY <1>9 DEF Goes
    <2>3. op.plan # NoPlan /\ Wanted = op.plan.runs /\ op.todo \subseteq Wanted
      BY <1>0, <2>1 DEF OperationInv, Finishing, Wanted
    <2>4. Least(op.todo) \in Wanted /\ Wanted \subseteq Runs
      BY <1>1, <2>1, <2>3, LeastIsMember DEF Finishing
    <2>5. \A q \in Writers : write[q].at # "idle" => runLock[write[q].run] # Holder
      BY <1>0 DEF WriterLocks
    <2>6. runLock[Least(op.todo)] = Holder
      BY <1>0, <2>1, <2>4 DEF OpLocks, Finishing
    <2>7. owners \in [Runs -> OwnerHistory]
      BY DEF BoxInv, MailboxShape
    <2>8. \A q \in Writers : write[q].at # "idle" => owners'[write[q].run] = owners[write[q].run]
      BY <1>0, <2>1, <2>4, <2>5, <2>6, <2>7
    <2>9. ASSUME \A r \in Runs : runLock[r] \in Writers => runLock'[r] = runLock[r],
                 index \in Writers => index' = index
          PROVE  WriterLocks'
      BY <1>0, <1>11, <2>1, <2>8, <2>9 DEF WriterLocks, OwnerOf
    <2>10. CASE Throws
      BY <1>4, <1>5, <2>9, <2>10 DEF Throws, FlockInv
    <2>11. CASE Holds /\ Goes("owners", op.plan, op.fresh, op.todo \ {Least(op.todo)}, op.missing)
      BY <1>3, <1>11, <1>27, <2>1, <2>2, <2>9, <2>11 DEF Finishing
    <2> QED
      BY <2>1, <2>10, <2>11
  <1>30. CASE OwnersWritten
    <2>1. /\ op.at = "owners" /\ Holds /\ OnlyOp
          /\ \E at \in {"notice from", "moves"} : \E todo : Goes(at, op.plan, op.fresh, todo, op.missing)
      BY <1>0, <1>30, DecidingEffects
    <2>2. Wanted' = Wanted /\ op'.at \in {"notice from", "moves"}
      BY <1>9, <2>1 DEF Goes
    <2> QED
      BY <1>10, <1>11, <1>12, <1>27, <2>1, <2>2 DEF Finishing
  <1>31. ASSUME NEW w \in Writes, MoveFile(w) PROVE FlockInv'
    <2>1. /\ op.at = "moves" /\ UNCHANGED <<write, subject, owners>>
          /\ Throws \/ (Holds /\ \E t, m : Goes("moves", op.plan, op.fresh, t, m))
      BY <1>0, <1>31, MoveEffects
    <2>2. (\E t, m : Goes("moves", op.plan, op.fresh, t, m)) => Wanted' = Wanted /\ op'.at = "moves"
      BY <1>9 DEF Goes
    <2> QED
      BY <1>6, <1>10, <1>27, <2>1, <2>2 DEF Finishing
  <1>32. CASE MovesDone
    <2>1. /\ op.at = "moves" /\ UNCHANGED <<write, subject, owners>> /\ Holds
          /\ Goes("checkpoint", [op.plan EXCEPT !.moved = TRUE], op.fresh, op.todo, {})
      BY <1>0, <1>32, MovesDoneEffects
    <2>2. WellFrozen(op.plan) /\ op.plan # NoPlan
      BY <1>0, <2>1 DEF OperationInv, PlanInHand, Finishing
    <2>3. [op.plan EXCEPT !.moved = TRUE] # NoPlan /\ [op.plan EXCEPT !.moved = TRUE].runs = op.plan.runs
      BY <2>2, MovedFields, MovedIsPlan
    <2>4. Wanted' = Wanted /\ op'.at = "checkpoint"
      BY <2>1, <2>2, <2>3 DEF Goes, Wanted
    <2> QED
      BY <1>10, <1>27, <2>1, <2>4 DEF Finishing
  <1>33. ASSUME NEW w \in Writes, Checkpoint(w) PROVE FlockInv'
    <2>1. /\ op.at = "checkpoint" /\ NoFiles /\ owners' = owners
          /\ Throws \/ (Holds /\ Goes("notice from", op.plan, op.fresh, op.todo, op.missing))
      BY <1>0, <1>33, CheckpointEffects
    <2>2. Goes("notice from", op.plan, op.fresh, op.todo, op.missing) => Wanted' = Wanted /\ op'.at = "notice from"
      BY <1>9 DEF Goes
    <2> QED
      BY <1>6, <1>10, <1>11, <1>27, <2>1, <2>2 DEF Finishing
  <1>34. ASSUME NEW w \in Writes, NoticeFrom(w) \/ NoticeTo(w) PROVE FlockInv'
    <2>1. /\ op.at \in {"notice from", "notice to"} /\ UNCHANGED <<write, subject, owners>>
          /\ Throws \/ (Holds /\ \E at \in {"notice to", "retarget"} : Goes(at, op.plan, op.fresh, op.todo, op.missing))
      BY <1>0, <1>34, NoticeEffects DEF NoticeStep
    <2>2. ASSUME NEW at \in {"notice to", "retarget"}, Goes(at, op.plan, op.fresh, op.todo, op.missing)
          PROVE  Wanted' = Wanted /\ op'.at \in {"notice to", "retarget"}
      BY <1>9, <2>2 DEF Goes
    <2> QED
      BY <1>6, <1>10, <1>27, <2>1, <2>2 DEF Finishing
  <1>35. ASSUME NEW w \in Writes, MarkDone(w) PROVE FlockInv'
    <2>1. /\ op.at = "retarget" /\ NoFiles /\ owners' = owners
          /\ \/ Throws
             \/ Lets /\ phase' = phase /\ (op' = NoOp \/ Goes("replay", NoPlan, op.fresh, op.todo, op.missing))
      BY <1>0, <1>35, MarkDoneEffects
    <2>2. CASE Lets /\ phase' = phase /\ Goes("replay", NoPlan, op.fresh, op.todo, op.missing)
      <3>1. OpLocks'
        BY <1>0, <2>1, <2>2 DEF OpLocks, Goes, Deciding, Finishing
      <3> QED
        BY <1>2, <1>4, <1>11, <2>1, <2>2, <3>1 DEF FlockInv
    <2>3. CASE Lets /\ op' = NoOp
      BY <1>2, <1>4, <1>5, <1>11, <2>1, <2>3 DEF FlockInv
    <2> QED
      BY <1>6, <1>11, <2>1, <2>2, <2>3
  <1> QED
    BY <1>20, <1>21, <1>22, <1>23, <1>24, <1>25, <1>26, <1>28, <1>29, <1>30, <1>31, <1>32, <1>33, <1>34, <1>35 DEF OpStep

LEMMA FlockStep == OwnershipInv /\ PlanInv /\ FlockInv /\ [Next]_vars => FlockInv'
  <1> SUFFICES ASSUME OwnershipInv, PlanInv, FlockInv, [Next]_vars PROVE FlockInv'
    OBVIOUS
  <1>0. BoxInv /\ BookInv /\ MailboxShape /\ BoxTypes /\ Numbered /\ InHand /\ WriterLocks /\ OpLocks
    BY DEF OwnershipInv, BoxInv, PlanInv, PlansInv, FlockInv
  <1>1. ASSUME UNCHANGED <<write, subject, owners, runLock, index>>, OpLocks' PROVE FlockInv'
    BY <1>0, <1>1 DEF FlockInv, WriterLocks, OwnerOf
  <1>2. ASSUME UNCHANGED <<runLock, index, phase, op>> PROVE OpLocks'
    BY <1>0, <1>2 DEF OpLocks, Wanted
  <1>3. ASSUME NEW p \in Writers, NEW r \in Runs, EventsLeft, BeginWrite(p, r), Else PROVE FlockInv'
    BY <1>0, <1>3, WritersKeepFlocks
  <1>4. ASSUME NEW p \in Writers, Writing(p), Else PROVE FlockInv'
    BY <1>0, <1>4, WritersKeepFlocks
  <1>5. ASSUME NEW k \in Managers, NEW e \in unread[k], Ack(k, e), Else PROVE FlockInv'
    BY <1>1, <1>2, <1>5 DEF Ack, locks, Else
  <1>6. ASSUME Retrying, Else PROVE FlockInv'
    <2>1. UNCHANGED <<write, subject, owners, runLock, index>>
      BY <1>6 DEF Retrying, BeginRetry, EndRetry, RetryOnDisk, RetryWrite, ClearGap, locks
    <2> QED
      BY <1>1, <1>2, <1>6, <2>1 DEF Else
  <1>7. ASSUME NEW k \in Managers, NEW w \in Writes, WriteGap(k, w), Else PROVE FlockInv'
    BY <1>1, <1>2, <1>7 DEF WriteGap, locks, Else
  <1>8. CASE Asking
    <2>1. UNCHANGED <<write, subject, owners, runLock, index, phase>> /\ op'.at = "replay"
          /\ phase \in {"replaying", "serving"}
      BY <1>8 DEF Asking, AskChange, AskPending, Serving, NoOp, box, locks, daemon
    <2>2. OpLocks'
      BY <2>1 DEF OpLocks, Deciding, Finishing
    <2> QED
      BY <1>1, <2>1, <2>2
  <1>9. CASE OpStep \/ LockTimesOut
    BY <1>0, <1>9, OpKeepsFlocks
  <1>10. CASE Crash
    BY <1>10 DEF Crash, FlockInv, WriterLocks, OpLocks, NoWrite, NoOp, Deciding, Finishing
  <1>11. CASE Idle
    <2>1. UNCHANGED <<write, subject, owners, runLock, index, op>>
      BY <1>11 DEF Idle
    <2>2. op.at # "idle" => phase' \in {"replaying", "serving"}
      BY <1>0, <1>11 DEF Idle, OpLocks
    <2>3. OpLocks'
      BY <1>0, <2>1, <2>2 DEF OpLocks, Wanted
    <2> QED
      BY <1>1, <2>1, <2>3
  <1> QED
    BY <1>3, <1>4, <1>5, <1>6, <1>7, <1>8, <1>9, <1>10, <1>11, NextCases

LEMMA FlockInit == Init => FlockInv
  BY DEF Init, FlockInv, WriterLocks, OpLocks, NoWrite, NoOp, Deciding, Finishing

-----------------------------------------------------------------------------
(* The capacity: one file arrives at a time, where the scan found room, or *)
(* from another mailbox.                                                   *)
Arrives(k, e) == \A j \in Managers : unread'[j] \subseteq unread[j] \cup (IF j = k THEN {e} ELSE {})

LEMMA AddOne ==
    ASSUME NEW S, IsFiniteSet(S), NEW x
    PROVE  /\ IsFiniteSet(S \cup {x}) /\ Cardinality(S) \in Nat
           /\ Cardinality(S \cup {x}) \in Nat /\ Cardinality(S \cup {x}) <= Cardinality(S) + 1
  <1>1. Cardinality(S) \in Nat
    BY FS_CardinalityType
  <1>2. IsFiniteSet(S \cup {x})
    BY FS_AddElement
  <1>3. Cardinality(S \cup {x}) = Cardinality(S) \/ Cardinality(S \cup {x}) = Cardinality(S) + 1
    BY FS_AddElement
  <1> QED
    BY <1>1, <1>2, <1>3

LEMMA OneArrival ==
    ASSUME BoxTypes, minted \in Nat, RoomInv, NEW k \in Managers, NEW e, Arrives(k, e)
    PROVE  /\ IsFiniteSet(UNION {{j} \X unread'[j] : j \in Managers})
           /\ ~AtCap(k) => Cardinality(unread'[k]) <= UnreadMax /\ Total(unread') <= GlobalMax
  <1> DEFINE before == UNION {{j} \X unread[j] : j \in Managers}
             after == UNION {{j} \X unread'[j] : j \in Managers}
  <1>1. IsFiniteSet(before) /\ Cardinality(before) \in Nat
    BY FS_CardinalityType DEF RoomInv
  <1>2. IsFiniteSet(before \cup {<<k, e>>}) /\ Cardinality(before \cup {<<k, e>>}) <= Cardinality(before) + 1
        /\ Cardinality(before \cup {<<k, e>>}) \in Nat
    BY <1>1, AddOne
  <1>3. ASSUME NEW x \in after PROVE x \in before \cup {<<k, e>>}
    <2>1. PICK j \in Managers : x \in {j} \X unread'[j]
      BY Zenon
    <2>2. PICK y \in unread'[j] : x = <<j, y>>
      BY <2>1
    <2>3. y \in unread[j] \/ (j = k /\ y = e)
      BY <2>2 DEF Arrives
    <2>4. CASE y \in unread[j]
      <3>1. x \in {j} \X unread[j]
        BY <2>2, <2>4
      <3> QED
        BY <3>1, Zenon
    <2> QED
      BY <2>2, <2>3, <2>4
  <1>4. after \subseteq before \cup {<<k, e>>}
    BY <1>3, Zenon
  <1>5. IsFiniteSet(after) /\ Cardinality(after) <= Cardinality(before \cup {<<k, e>>}) /\ Cardinality(after) \in Nat
    BY <1>2, <1>4, FS_Subset, FS_CardinalityType
  <1>6. unread[k] \subseteq Minted
    BY DEF BoxTypes
  <1>7. IsFiniteSet(unread[k]) /\ Cardinality(unread[k]) \in Nat
    BY <1>6, MintedIsFinite
  <1>8. IsFiniteSet(unread[k] \cup {e}) /\ Cardinality(unread[k] \cup {e}) <= Cardinality(unread[k]) + 1
        /\ Cardinality(unread[k] \cup {e}) \in Nat
    BY <1>7, AddOne
  <1>9. unread'[k] \subseteq unread[k] \cup {e}
    BY DEF Arrives
  <1>10. Cardinality(unread'[k]) <= Cardinality(unread[k] \cup {e}) /\ Cardinality(unread'[k]) \in Nat
    BY <1>8, <1>9, FS_Subset, FS_CardinalityType
  <1>11. Total(unread) = Cardinality(before) /\ Total(unread') = Cardinality(after)
    BY DEF Total
  <1>12. UnreadMax \in Nat /\ GlobalMax \in Nat
    BY MailboxAssumption
  <1>13. ASSUME ~AtCap(k) PROVE Cardinality(unread[k]) + 1 <= UnreadMax /\ Total(unread) + 1 <= GlobalMax
    <2> HIDE DEF before, after
    <2> QED
      BY <1>1, <1>7, <1>11, <1>12, <1>13 DEF AtCap
  <1> HIDE DEF before, after
  <1>14. ~AtCap(k) => Cardinality(unread'[k]) <= UnreadMax /\ Total(unread') <= GlobalMax
    BY <1>1, <1>2, <1>5, <1>7, <1>8, <1>10, <1>11, <1>12, <1>13
  <1> QED
    BY <1>5, <1>14 DEF after

(* What a step does to the mailboxes, while no writer is past its scan, or *)
(* by the one that is.                                                     *)
Arrival ==
    \/ \A j \in Managers : unread'[j] \subseteq unread[j]
    \/ \E k \in Managers, e \in Minted' : /\ Arrives(k, e) /\ (\A j \in Managers : unread[j] \subseteq unread'[j])
                               /\ ~AtCap(k)
    \/ \E k \in Managers : \E j \in Managers : \E e \in unread[j] : Arrives(k, e)

LEMMA Added ==
    ASSUME BoxTypes, NEW k \in Managers, NEW e \in Minted', NEW room,
           unread' = unread \/ (room /\ unread' = [unread EXCEPT ![k] = @ \cup {e}]), room => ~AtCap(k)
    PROVE  Arrival
  <1>1. CASE unread' = unread
    BY <1>1 DEF Arrival
  <1>2. CASE room /\ unread' = [unread EXCEPT ![k] = @ \cup {e}]
    <2>1. Arrives(k, e) /\ \A j \in Managers : unread[j] \subseteq unread'[j]
      BY <1>2 DEF BoxTypes, Arrives
    <2> QED
      BY <1>2, <2>1 DEF Arrival
  <1> QED
    BY <1>1, <1>2

(* Events arrive where there is room, or from another mailbox; the step of *)
(* another does not move files under a writer that is past its scan.       *)
LEMMA Arrivals ==
    ASSUME OwnershipInv, PlanInv, FlockInv, RoomInv, [Next]_vars
    PROVE  /\ Arrival
           /\ \A p \in Writers : write'[p].at = "scanned" => /\ unread' = unread
                                                             /\ write'[p] = write[p] \/ (write'[p].room => ~AtCap(write'[p].key))
  <1> USE HolderIsNoWriter DEF files, status, locks, past, box, book
  <1>0. BoxInv /\ BookInv /\ MailboxShape /\ BoxTypes /\ PlansInv /\ Numbered /\ InHand /\ WriterLocks /\ OpLocks
    BY DEF OwnershipInv, BoxInv, PlanInv, PlansInv, FlockInv
  <1>00. /\ OperationInv /\ minted \in Nat /\ write \in [Writers -> WriteShape]
         /\ \A p \in Writers : write[p].at = "scanned" => index = p
    BY <1>0 DEF BookInv, MailboxShape, WriterLocks
  <1>1. ASSUME UNCHANGED <<unread, write>> PROVE Arrival /\ \A p \in Writers : write'[p].at = "scanned" => unread' = unread /\ write'[p] = write[p]
    BY <1>1 DEF Arrival
  <1>2. ASSUME write' = write, \A p \in Writers : index # p
        PROVE  \A p \in Writers : write'[p].at # "scanned"
    BY <1>00, <1>2
  <1>3. ASSUME NEW p \in Writers, NEW r \in Runs, BeginWrite(p, r)
        PROVE  Arrival /\ \A q \in Writers : write'[q].at = "scanned" => unread' = unread /\ write'[q] = write[q]
    <2>1. unread' = unread
      BY <1>3 DEF BeginWrite
    <2> DEFINE begun == [at |-> "resolved", run |-> r, key |-> OwnerOf(r), id |-> minted', room |-> FALSE]
    <2>2. write' = [write EXCEPT ![p] = begun] /\ begun.at # "scanned"
      BY <1>3 DEF BeginWrite
    <2> HIDE DEF begun
    <2> QED
      BY <1>00, <2>1, <2>2 DEF Arrival
  <1>4. ASSUME NEW p \in Writers, AdmitWrite(p)
        PROVE  Arrival /\ \A q \in Writers : write'[q].at = "scanned" => /\ unread' = unread
                                                                         /\ write'[q] = write[q] \/ (write'[q].room => ~AtCap(write'[q].key))
    <2>1. unread' = unread
      BY <1>4 DEF AdmitWrite
    <2> DEFINE admitted == [write[p] EXCEPT !.at = "scanned", !.room = ~AtCap(write[p].key)]
    <2>2. write' = [write EXCEPT ![p] = admitted]
      BY <1>4 DEF AdmitWrite
    <2>3. admitted.room = (~AtCap(write[p].key)) /\ admitted.key = write[p].key
      BY <1>00 DEF WriteShape
    <2> HIDE DEF admitted
    <2>4. admitted.room => ~AtCap(admitted.key)
      BY <2>3
    <2> QED
      BY <1>00, <2>1, <2>2, <2>4 DEF Arrival
  <1>5. ASSUME NEW p \in Writers, WriteTimesOut(p)
        PROVE  Arrival /\ \A q \in Writers : write'[q].at = "scanned" => unread' = unread /\ write'[q] = write[q]
    <2>1. unread' = unread /\ write' = [write EXCEPT ![p] = NoWrite]
      BY <1>5 DEF WriteTimesOut
    <2> QED
      BY <1>00, <2>1 DEF Arrival, NoWrite
  <1>6. ASSUME NEW p \in Writers, NEW w \in Writes, LandWrite(p, w)
        PROVE  Arrival /\ \A q \in Writers : write'[q].at # "scanned"
    <2>1. /\ write[p].at = "scanned" /\ write' = [write EXCEPT ![p] = NoWrite] /\ minted' = minted
          /\ PersistRun(write[p].key, write[p].id, write[p].room, w)
      BY <1>6 DEF LandWrite
    <2>2. write[p].key \in Managers /\ write[p].id \in Minted /\ write[p].room \in BOOLEAN
      BY <1>0, <1>00, <2>1 DEF BoxTypes, MailboxShape, WriteShape
    <2>3. unread' = unread \/ (write[p].room /\ unread' = [unread EXCEPT ![write[p].key] = @ \cup {write[p].id}])
      BY <2>1, <2>2, PersistRunEffects
    <2>4. write[p].room => ~AtCap(write[p].key)
      BY <2>1 DEF RoomInv
    <2>5. Arrival
      BY <1>0, <2>1, <2>2, <2>3, <2>4, Added DEF Minted
    <2> QED
      BY <1>00, <2>1, <2>5 DEF NoWrite
  <1>7. ASSUME NEW k \in Managers, NEW e \in unread[k], Ack(k, e)
        PROVE  Arrival /\ \A q \in Writers : write'[q].at # "scanned"
    <2>1. unread' = [unread EXCEPT ![k] = @ \ {e}] /\ write' = write /\ index = None
      BY <1>7 DEF Ack
    <2>2. \A j \in Managers : unread'[j] \subseteq unread[j]
      BY <1>0, <2>1 DEF BoxTypes
    <2> QED
      BY <1>2, <2>1, <2>2 DEF Arrival
  <1>8. ASSUME NEW k \in Managers, NEW e \in Minted', NEW w \in Writes, PersistGap(k, e, ~AtCap(k), w), write' = write, index = None
        PROVE  Arrival /\ \A q \in Writers : write'[q].at # "scanned"
    <2>1. GapPlaced(k, e, ~AtCap(k))
      BY <1>0, <1>8, PersistGapEffects
    <2>2. unread' = unread \/ (~AtCap(k) /\ unread' = [unread EXCEPT ![k] = @ \cup {e}])
      BY <2>1 DEF GapPlaced
    <2>3. Arrival
      BY <1>0, <2>2, Added
    <2> QED
      BY <1>2, <1>8, <2>3
  <1>9. ASSUME NEW k \in Managers, NEW w \in Writes, WriteGap(k, w)
        PROVE  Arrival /\ \A q \in Writers : write'[q].at # "scanned"
    <2>1. minted' \in Minted'
      BY <1>00, <1>9 DEF WriteGap, Minted
    <2> QED
      BY <1>8, <1>9, <2>1 DEF WriteGap
  <1>10. ASSUME NEW g \in retry.todo, NEW w \in Writes, RetryWrite(g, w)
         PROVE  Arrival /\ \A q \in Writers : write'[q].at # "scanned"
    <2>1. g[1] \in Managers /\ g[2] \in Minted /\ minted' = minted
      BY <1>0, <1>10 DEF BoxTypes, RetryWrite
    <2> QED
      BY <1>8, <1>10, <2>1 DEF RetryWrite, Minted
  <1>11. CASE Retrying
    <2>1. BeginRetry \/ EndRetry \/ (\E g \in retry.todo : RetryOnDisk(g)) \/ (\E w \in Writes : ClearGap(w))
            => UNCHANGED <<unread, write>>
      BY DEF BeginRetry, EndRetry, RetryOnDisk, ClearGap
    <2> QED
      BY <1>1, <1>10, <1>11, <2>1 DEF Retrying
  <1>12. CASE Asking
    <2>1. UNCHANGED <<unread, write>>
      BY <1>12 DEF Asking, AskChange, AskPending
    <2> QED
      BY <1>1, <2>1
  <1>13. CASE Idle
    <2>1. UNCHANGED <<unread, write>>
      BY <1>13 DEF Idle
    <2> QED
      BY <1>1, <2>1
  <1>14. CASE Crash
    <2>1. PICK linked \in SUBSET {p \in Writers : write[p].at = "scanned" /\ write[p].room} :
              unread' = [k \in Managers |-> unread[k] \cup {write[p].id : p \in {q \in linked : write[q].key = k}}]
      BY <1>14 DEF Crash
    <2>2. (\A q \in Writers : write'[q].at # "scanned") /\ minted' = minted
      BY <1>14 DEF Crash, NoWrite
    <2>3. CASE linked = {}
      BY <2>1, <2>2, <2>3 DEF Arrival
    <2>4. ASSUME NEW p \in linked PROVE Arrival
      <3>1. p \in Writers /\ write[p].at = "scanned" /\ write[p].room /\ \A q \in linked : q = p
        BY <1>00
      <3>2. write[p].key \in Managers /\ write[p].id \in Minted' /\ ~AtCap(write[p].key)
        BY <1>0, <2>2, <3>1 DEF BoxTypes, MailboxShape, RoomInv, Minted
      <3>3. Arrives(write[p].key, write[p].id) /\ \A j \in Managers : unread[j] \subseteq unread'[j]
        BY <2>1, <3>1 DEF Arrives
      <3> QED
        BY <3>2, <3>3 DEF Arrival
    <2> QED
      BY <2>2, <2>3, <2>4
  <1>15. ASSUME OnlyOp \/ NoFiles PROVE UNCHANGED <<unread, write>>
    BY <1>15 DEF OnlyOp, NoFiles
  <1>16. CASE LockTimesOut \/ ReplayDone \/ LockRun \/ Verify \/ VerifyRefuses \/ LockMailboxes \/ OwnersWritten
              \/ \E p \in journal : ReplayNext(p)
    <2>1. OnlyOp
      BY <1>0, <1>00, <1>16, DecidingEffects, LockingEffects
    <2> QED
      BY <1>1, <1>15, <2>1
  <1>17. CASE MovesDone
    BY <1>0, <1>00, <1>1, <1>17, MovesDoneEffects
  <1>18. ASSUME NEW w \in Writes, Freeze(w) \/ ConsumeClaim(w) \/ WriteOwners(w) \/ Checkpoint(w) \/ MarkDone(w)
         PROVE  UNCHANGED <<unread, write>>
    BY <1>0, <1>00, <1>15, <1>18, FreezeEffects, ClaimEffects, OwnersEffects, CheckpointEffects, MarkDoneEffects
  <1>19. op.at \in {"moves", "notice from", "notice to"} => /\ index = Holder /\ WellFrozen(op.plan)
                                                           /\ op.plan.notice[1] \in Minted /\ op.plan.notice[2] \in Minted
    <2>1. op.at \in {"moves", "notice from", "notice to"} => index = Holder /\ WellFrozen(op.plan) /\ op.plan \in journal
      BY <1>0, <1>00 DEF OpLocks, OperationInv, PlanInHand, InHand, Finishing
    <2> QED
      BY <1>0, <2>1 DEF PlansInv, Frozen
  <1>20. ASSUME NEW w \in Writes, MoveFile(w)
         PROVE  Arrival /\ \A q \in Writers : write'[q].at # "scanned"
    <2>1. PICK e, p : e = Least(op.todo) /\ p = op.plan
      OBVIOUS
    <2>2. /\ op.at = "moves" /\ write' = write
          /\ unread' = unread \/ (e \in unread[p.from] /\ unread' = [unread EXCEPT ![p.from] = @ \ {e}, ![p.to] = @ \cup {e}])
      BY <1>0, <1>00, <1>20, <2>1, MoveEffects
    <2>3. p.from \in Managers /\ p.to \in Managers /\ index = Holder
      BY <1>19, <2>1, <2>2 DEF WellFrozen
    <2>4. CASE unread' = unread
      BY <1>2, <2>2, <2>3, <2>4 DEF Arrival
    <2>5. CASE e \in unread[p.from] /\ unread' = [unread EXCEPT ![p.from] = @ \ {e}, ![p.to] = @ \cup {e}]
      <3>1. Arrives(p.to, e)
        BY <1>0, <2>3, <2>5 DEF Arrives, BoxTypes
      <3> QED
        BY <1>2, <2>2, <2>3, <2>5, <3>1 DEF Arrival
    <2> QED
      BY <2>2, <2>4, <2>5
  <1>21. ASSUME NEW w \in Writes, NoticeFrom(w) \/ NoticeTo(w)
         PROVE  Arrival /\ \A q \in Writers : write'[q].at # "scanned"
    <2>1. ASSUME NEW key \in Managers, NEW id \in Minted, NEW next, NoticeStep(key, id, next, w) PROVE Arrival /\ write' = write
      <3>1. write' = write /\ minted' = minted /\ (unread' = unread \/ PersistRun(key, id, ~AtCap(key), w))
        BY <2>1 DEF NoticeStep
      <3>2. unread' = unread \/ (~AtCap(key) /\ unread' = [unread EXCEPT ![key] = @ \cup {id}])
        BY <3>1, PersistRunEffects
      <3> QED
        BY <1>0, <3>1, <3>2, Added DEF Minted
    <2>2. /\ op.at \in {"notice from", "notice to"}
          /\ \/ NoticeStep(op.plan.from, op.plan.notice[1], "notice to", w)
             \/ NoticeStep(op.plan.to, op.plan.notice[2], "retarget", w)
      BY <1>0, <1>00, <1>21, NoticeEffects
    <2>3. op.plan.from \in Managers /\ op.plan.to \in Managers /\ index = Holder
          /\ op.plan.notice[1] \in Minted /\ op.plan.notice[2] \in Minted
      BY <1>19, <2>2 DEF WellFrozen
    <2> QED
      BY <1>2, <2>1, <2>2, <2>3
  <1>22. CASE OpStep
    <2>1. ASSUME NEW w \in Writes, Freeze(w) \/ ConsumeClaim(w) \/ WriteOwners(w) \/ Checkpoint(w) \/ MarkDone(w)
          PROVE  Arrival /\ \A p \in Writers : write'[p].at = "scanned" => unread' = unread /\ write'[p] = write[p]
      BY <1>1, <1>18, <2>1
    <2> QED
      BY <1>16, <1>17, <1>20, <1>21, <1>22, <2>1 DEF OpStep
  <1> QED
    BY <1>3, <1>4, <1>5, <1>6, <1>7, <1>9, <1>11, <1>12, <1>13, <1>14, <1>16, <1>22, NextCases DEF Writing

LEMMA RoomStep == OwnershipInv /\ PlanInv /\ FlockInv /\ RoomInv /\ [Next]_vars => RoomInv'
  <1> SUFFICES ASSUME OwnershipInv, PlanInv, FlockInv, RoomInv, [Next]_vars PROVE RoomInv'
    OBVIOUS
  <1>0. BoxTypes /\ minted \in Nat /\ Managers # {}
    BY OwnershipAssumption DEF OwnershipInv, BoxInv, MailboxShape, PlanInv
  <1>1. \E k \in Managers : \E e : Arrives(k, e)
    BY <1>0, Arrivals DEF Arrival, Arrives
  <1>2. IsFiniteSet(UNION {{j} \X unread'[j] : j \in Managers})
    BY <1>0, <1>1, OneArrival
  <1>3. ASSUME NEW p \in Writers, write'[p].at = "scanned", write'[p].room PROVE ~AtCap(write[p].key)'
    <2>1. unread' = unread /\ (write'[p] = write[p] \/ ~AtCap(write'[p].key))
      BY <1>3, Arrivals
    <2>2. ~AtCap(write'[p].key)
      BY <1>3, <2>1 DEF RoomInv
    <2> QED
      BY <2>1, <2>2 DEF AtCap, Total
  <1> QED
    BY <1>2, <1>3 DEF RoomInv

LEMMA RoomInit == Init => RoomInv
  <1> SUFFICES ASSUME Init PROVE RoomInv
    OBVIOUS
  <1>1. \A k \in Managers : {k} \X unread[k] = {}
    BY DEF Init
  <1>2. UNION {{k} \X unread[k] : k \in Managers} = {}
    BY <1>1, Zenon
  <1>3. IsFiniteSet(UNION {{k} \X unread[k] : k \in Managers})
    BY <1>2, FS_EmptySet
  <1> QED
    BY <1>3 DEF Init, RoomInv, NoWrite

(* A file that is new to all the mailboxes had room. *)
LEMMA NewcomerHasRoom ==
    ASSUME OwnershipInv, PlanInv, FlockInv, RoomInv, [Next]_vars, NEW k \in Managers,
           (unread'[k] \ unread[k]) \ UNION {unread[j] : j \in Managers} # {}
    PROVE  Cardinality(unread'[k]) <= UnreadMax /\ Total(unread') <= GlobalMax
  <1>0. BoxTypes /\ minted \in Nat
    BY DEF OwnershipInv, BoxInv, MailboxShape, PlanInv
  <1>1. PICK x \in unread'[k] : x \notin UNION {unread[j] : j \in Managers}
    BY Zenon
  <1>2. \A j \in Managers : x \notin unread[j]
    BY <1>1, Zenon
  <1>3. PICK i \in Managers, e \in Minted' : Arrives(i, e) /\ ~AtCap(i)
    BY <1>1, <1>2, Arrivals DEF Arrival, Arrives
  <1>4. i = k
    BY <1>1, <1>2, <1>3 DEF Arrives
  <1> QED
    BY <1>0, <1>3, <1>4, OneArrival

(* The flocks: a writer holds its run's from the resolution of the owner   *)
(* on and the index from the scan on, so the room it found is still there. *)
THEOREM RoomIsInvariant == Spec => [](FlockInv /\ RoomInv)
  BY OwnershipIsInvariant, OwnersIsInvariant, FlockInit, FlockStep, RoomInit, RoomStep, PTL DEF Spec

(* However writers, transfers, retries and crashes interleave, an event    *)
(* that is written takes neither its mailbox nor all of them over the cap. *)
THEOREM CapacityHolds == Spec => WritesRespectCapacity
  <1>1. OwnershipInv /\ PlanInv /\ FlockInv /\ RoomInv /\ [Next]_vars
            => [\A k \in Managers :
                  (unread'[k] \ unread[k]) \ UNION {unread[j] : j \in Managers} # {}
                      => Cardinality(unread'[k]) <= UnreadMax /\ Total(unread') <= GlobalMax]_vars
    BY NewcomerHasRoom
  <1> QED
    BY <1>1, OwnershipIsInvariant, OwnersIsInvariant, RoomIsInvariant, PTL DEF Spec, WritesRespectCapacity

-----------------------------------------------------------------------------
(* The identifiers: what is written anew is nowhere yet, so that only a    *)
(* move brings an event to another mailbox.                                *)
WritersShrink ==
    \A p \in Writers : write'[p].at # "idle" =>
        write[p].at # "idle" /\ write'[p].id = write[p].id /\ write'[p].run = write[p].run /\ write'[p].key = write[p].key

(* The pending transfer is still pending, or it is done. *)
Alike(q, p) ==
    /\ q.from = p.from /\ q.to = p.to /\ q.runs = p.runs
    /\ q.notice = p.notice /\ q.unread = p.unread
JournalAlike == \A q \in journal' : \E p \in journal : Alike(q, p)

LEMMA FreshKept ==
    ASSUME Fresh, WritersShrink, JournalAlike,
           \A p \in Writers : write'[p].at # "idle" => \A j \in Managers : OnDisk(j, write[p].id)' => OnDisk(j, write'[p].id)
    PROVE  Fresh'
  <1> SUFFICES ASSUME NEW p \in Writers, write'[p].at # "idle"
               PROVE  ~OnSomeDisk(write[p].id)' /\ \A t \in journal' : write'[p].id \notin t.unread
    BY DEF Fresh
  <1>1. write[p].at # "idle" /\ write'[p].id = write[p].id
    BY DEF WritersShrink
  <1>2. ~OnSomeDisk(write[p].id) /\ \A t \in journal : write[p].id \notin t.unread
    BY <1>1 DEF Fresh
  <1>3. ~OnSomeDisk(write[p].id)'
    BY <1>1, <1>2 DEF OnSomeDisk
  <1> QED
    BY <1>1, <1>2, <1>3 DEF JournalAlike, Alike

LEMMA NoticesKept ==
    ASSUME NoticeIds, JournalAlike,
           \A p \in journal : \A i \in {1, 2} :
               /\ p.notice[i] \notin gaps' /\ subject'[p.notice[i]] = subject[p.notice[i]]
               /\ \A k \in Managers : OnDisk(k, p.notice[i])' => OnDisk(k, p.notice[i]) \/ k = <<p.from, p.to>>[i]
    PROVE  NoticeIds'
  <1> SUFFICES ASSUME NEW q \in journal', NEW i \in {1, 2}
               PROVE  /\ q.notice[i] \notin gaps' /\ subject'[q.notice[i]] = 0
                      /\ \A k \in Managers : OnDisk(k, q.notice[i])' => k = <<q.from, q.to>>[i]
    BY DEF NoticeIds
  <1>1. PICK p \in journal : q.from = p.from /\ q.to = p.to /\ q.notice = p.notice
    BY DEF JournalAlike, Alike
  <1>2. /\ subject[p.notice[i]] = 0
        /\ \A k \in Managers : OnDisk(k, p.notice[i]) => k = <<p.from, p.to>>[i]
    BY DEF NoticeIds
  <1> QED
    BY <1>1, <1>2

(* A new file, or one more copy of a gap, in one mailbox. *)
Brings(k, N) == \A j \in Managers : unread'[j] = unread[j] \cup (IF j = k THEN N ELSE {}) /\ acked'[j] = acked[j]

LEMMA UniqueAdd ==
    ASSUME EventsAreUnique, gaps \subseteq gaps', NEW k \in Managers, NEW N, Brings(k, N),
           \A e \in N : e \in gaps' \/ ~OnSomeDisk(e)
    PROVE  EventsAreUnique'
  <1>1. \A e \in N : e \in gaps' \/ \A j \in Managers : e \notin unread[j] /\ e \notin acked[j]
    BY DEF OnSomeDisk, OnDisk
  <1> SUFFICES ASSUME NEW j \in Managers, NEW i \in Managers
               PROVE  /\ (unread'[i] \cap acked'[j]) \subseteq gaps'
                      /\ j # i => (unread'[j] \cap unread'[i]) \cup (acked'[j] \cap acked'[i]) \subseteq gaps'
    BY DEF EventsAreUnique
  <1>2. /\ (unread[i] \cap acked[j]) \subseteq gaps
        /\ j # i => (unread[j] \cap unread[i]) \cup (acked[j] \cap acked[i]) \subseteq gaps
    BY DEF EventsAreUnique
  <1>3. /\ unread'[i] = unread[i] \cup (IF i = k THEN N ELSE {}) /\ acked'[i] = acked[i]
        /\ unread'[j] = unread[j] \cup (IF j = k THEN N ELSE {}) /\ acked'[j] = acked[j]
    BY DEF Brings
  <1> QED
    BY <1>1, <1>2, <1>3

(* Nothing moves on disk. *)
LEMMA IdFrame ==
    ASSUME IdInv, WritersShrink, JournalAlike, minted \in Nat, minted' \in Nat, minted <= minted',
           UNCHANGED <<unread, acked, gaps, subject>>,
           \A k \in Managers : pendingGap'[k] \in {0, pendingGap[k]},
           \A g \in retry'.todo : g[2] \in gaps
    PROVE  IdInv'
  <1>0. \A j, e : OnDisk(j, e)' <=> OnDisk(j, e)
    BY DEF OnDisk
  <1>00. \A p \in Writers : \A j \in Managers : OnDisk(j, write[p].id)' => OnDisk(j, write'[p].id)
    BY DEF OnDisk
  <1>1. Fresh'
    BY <1>00, FreshKept DEF IdInv
  <1>2. \A p \in journal : \A i \in {1, 2} :
               /\ p.notice[i] \notin gaps' /\ subject'[p.notice[i]] = subject[p.notice[i]]
               /\ \A k \in Managers : OnDisk(k, p.notice[i])' => OnDisk(k, p.notice[i]) \/ k = <<p.from, p.to>>[i]
    BY <1>0 DEF IdInv, NoticeIds
  <1>3. NoticeIds'
    BY <1>2, NoticesKept DEF IdInv
  <1>4. GapIds'
    BY DEF IdInv, GapIds, Ids
  <1>5. EventsAreUnique'
    BY DEF IdInv, EventsAreUnique
  <1> QED
    BY <1>1, <1>3, <1>4, <1>5 DEF IdInv

(* A writer lands its event, or a crash finds it linked. *)
LEMMA IdLand ==
    ASSUME IdInv, BoxTypes, WriterLocks, Numbered, minted \in Nat, WritersShrink,
           NEW p \in Writers, write[p].at # "idle", write'[p].at = "idle",
           NEW N, N \subseteq {write[p].id}, Brings(write[p].key, N), write[p].key \in Managers,
           UNCHANGED <<gaps, subject, minted, journal, pendingGap>>, retry'.todo \subseteq retry.todo
    PROVE  IdInv'
  <1> DEFINE e == write[p].id
             k == write[p].key
  <1>0. JournalAlike
    BY DEF JournalAlike, Alike
  <1>1. write[p].run \in Runs /\ write[p].run # 0 /\ e \in Minted /\ e \in Ids
    BY MintedInIds, MailboxAssumption DEF BoxTypes
  <1>2. subject[e] = write[p].run
    BY DEF WriterLocks
  <1>3. e \notin gaps /\ ~OnSomeDisk(e)
    BY <1>1, <1>2 DEF IdInv, GapIds, Fresh
  <1>4. \A q \in Writers : write[q].at # "idle" /\ q # p => write[q].id # e
    BY <1>2 DEF WriterLocks
  <1>5. \A j \in Managers : \A x : OnDisk(j, x)' => OnDisk(j, x) \/ x = e
    BY DEF OnDisk, Brings
  <1>6. ASSUME NEW q \in Writers, write'[q].at # "idle", NEW j \in Managers, OnDisk(j, write[q].id)'
        PROVE  OnDisk(j, write'[q].id)
    <2>1. write[q].at # "idle" /\ write'[q].id = write[q].id /\ q # p
      BY <1>6 DEF WritersShrink
    <2>2. OnDisk(j, write'[q].id) \/ write'[q].id = e
      BY <1>5, <1>6
    <2> QED
      BY <1>4, <2>1, <2>2
  <1>7. Fresh'
    BY <1>0, <1>6, FreshKept DEF IdInv
  <1>8. \A t \in journal : \A i \in {1, 2} : subject[t.notice[i]] = 0 /\ t.notice[i] \notin gaps
    BY DEF IdInv, NoticeIds
  <1>9. \A t \in journal : \A i \in {1, 2} :
               /\ t.notice[i] \notin gaps' /\ subject'[t.notice[i]] = subject[t.notice[i]]
               /\ \A j \in Managers : OnDisk(j, t.notice[i])' => OnDisk(j, t.notice[i]) \/ j = <<t.from, t.to>>[i]
    BY <1>1, <1>2, <1>5, <1>8
  <1>10. NoticeIds'
    BY <1>0, <1>9, NoticesKept DEF IdInv
  <1>11. EventsAreUnique'
    BY <1>3, UniqueAdd DEF IdInv
  <1>12. GapIds'
    BY DEF IdInv, GapIds, Ids
  <1> QED
    BY <1>7, <1>10, <1>11, <1>12 DEF IdInv

(* A gap reaches a mailbox, or is held, under an identifier of its own. *)
LEMMA IdGap ==
    ASSUME IdInv, BoxTypes, PlansInv, WriterLocks, MailboxShape, minted' \in Nat, minted <= minted', minted' \in Ids,
           NEW k \in Managers, NEW e, e \in gaps \/ (e = minted + 1 /\ e = minted'), GapPlaced(k, e, ~AtCap(k)),
           UNCHANGED <<acked, subject, journal, write>>, retry'.todo \subseteq retry.todo
    PROVE  IdInv'
  <1>0. JournalAlike /\ WritersShrink
    BY DEF JournalAlike, Alike, WritersShrink
  <1>1. minted \in Nat /\ Numbered
    BY DEF MailboxShape, PlansInv
  <1>2. e \in Ids /\ subject[e] = 0
    <2>1. Minted \subseteq Ids /\ gaps \subseteq Minted
      BY <1>1, MintedInIds DEF BoxTypes
    <2>2. e \in Ids /\ (e > minted \/ e \in gaps)
      <3>1. CASE e \in gaps
        BY <2>1, <3>1
      <3>2. CASE e = minted + 1 /\ e = minted'
        BY <1>1, <3>2
      <3> QED
        BY <3>1, <3>2
    <2> QED
      BY <2>2 DEF IdInv, GapIds
  <1>3. ASSUME NEW x \in Minted, subject[x] # 0 \/ x \notin gaps PROVE x # e
    BY <1>1, <1>2, <1>3 DEF Minted
  <1>4. PICK N \in SUBSET {e} : Brings(k, N) /\ N \subseteq gaps'
    <2>1. CASE unread' = unread
      <3>1. Brings(k, {})
        BY <2>1 DEF Brings
      <3> QED
        BY <3>1
    <2>2. CASE unread' = [unread EXCEPT ![k] = @ \cup {e}] /\ unread' # unread
      <3>1. Brings(k, {e}) /\ e \in gaps'
        BY <2>2 DEF Brings, GapPlaced, BoxTypes
      <3> QED
        BY <3>1
    <2> QED
      BY <2>1, <2>2 DEF GapPlaced
  <1>5. \A j \in Managers : \A x : OnDisk(j, x)' => OnDisk(j, x) \/ x = e
    BY <1>4 DEF OnDisk, Brings
  <1>50. \A q \in Writers : write[q].at # "idle" => write[q].id # e
    <2>1. ASSUME NEW q \in Writers, write[q].at # "idle" PROVE write[q].id \in Minted /\ subject[write[q].id] # 0
      BY <2>1, MailboxAssumption DEF BoxTypes, WriterLocks
    <2> QED
      BY <1>3, <2>1
  <1>6. ASSUME NEW q \in Writers, write'[q].at # "idle", NEW j \in Managers, OnDisk(j, write[q].id)'
        PROVE  OnDisk(j, write'[q].id)
    <2>1. OnDisk(j, write'[q].id) \/ write'[q].id = e
      BY <1>5, <1>6
    <2> QED
      BY <1>50, <1>6, <2>1
  <1>7. Fresh'
    BY <1>0, <1>6, FreshKept DEF IdInv
  <1>8. \A t \in journal : \A i \in {1, 2} : t.notice[i] \in Minted /\ t.notice[i] \notin gaps
    BY DEF IdInv, NoticeIds, PlansInv, Frozen
  <1>9. \A t \in journal : \A i \in {1, 2} : t.notice[i] # e
    BY <1>3, <1>8
  <1>10. gaps' \subseteq gaps \cup {e} /\ gaps \subseteq gaps'
    BY DEF GapPlaced
  <1>11. \A t \in journal : \A i \in {1, 2} :
               /\ t.notice[i] \notin gaps' /\ subject'[t.notice[i]] = subject[t.notice[i]]
               /\ \A j \in Managers : OnDisk(j, t.notice[i])' => OnDisk(j, t.notice[i]) \/ j = <<t.from, t.to>>[i]
    BY <1>5, <1>8, <1>9, <1>10
  <1>12. NoticeIds'
    BY <1>0, <1>11, NoticesKept DEF IdInv
  <1>13. EventsAreUnique'
    BY <1>4, <1>10, UniqueAdd DEF IdInv
  <1>14. \A j \in Managers : pendingGap'[j] # 0 => pendingGap'[j] \in gaps'
    BY <1>10 DEF GapPlaced, IdInv, GapIds, BoxTypes
  <1>15. GapIds'
    <2>1. \A x \in Ids : x > minted' \/ x \in gaps' => subject[x] = 0
      BY <1>1, <1>2, <1>10 DEF IdInv, GapIds, Ids
    <2> QED
      BY <1>10, <1>14, <2>1 DEF IdInv, GapIds, Ids
  <1> QED
    BY <1>7, <1>12, <1>13, <1>15 DEF IdInv

(* A new identifier is beyond all the others. *)
LEMMA IdBegin ==
    ASSUME IdInv, BoxTypes, PlansInv, MailboxShape, EventsLeft, NEW p \in Writers, NEW r \in Runs, BeginWrite(p, r), journal' = journal
    PROVE  IdInv'
  <1> USE DEF files, status, past
  <1>0. JournalAlike /\ minted \in Nat /\ Numbered /\ write \in [Writers -> WriteShape]
    BY DEF JournalAlike, Alike, MailboxShape, PlansInv
  <1>1. PICK e : e = minted + 1
    OBVIOUS
  <1>2. e \in Ids /\ e \notin Minted /\ e > minted
    BY <1>0, <1>1, MintedOneMore DEF Minted
  <1>3. UNCHANGED <<unread, acked, gaps, pendingGap, retry>> /\ minted' = e
    BY <1>1 DEF BeginWrite
  <1>4. subject' = [subject EXCEPT ![e] = r]
    BY <1>1 DEF BeginWrite
  <1>5. \A x \in Ids : x # e => subject'[x] = subject[x]
    BY <1>2, <1>4 DEF BoxTypes
  <1>6. \A j, x : OnDisk(j, x)' <=> OnDisk(j, x)
    BY <1>3 DEF OnDisk
  <1>7. \A j \in Managers : unread[j] \subseteq Minted /\ acked[j] \subseteq Minted
    BY DEF BoxTypes
  <1>8. ~OnSomeDisk(e)
    BY <1>2, <1>7 DEF OnSomeDisk, OnDisk
  <1>9. \A t \in journal : e \notin t.unread /\ \A i \in {1, 2} : t.notice[i] \in Minted
    BY <1>0, <1>1 DEF PlansInv, Frozen, Minted
  <1>10. \A q \in Writers : write'[q] = write[q] \/ write'[q].id = e
    <2> DEFINE begun == [at |-> "resolved", run |-> r, key |-> OwnerOf(r), id |-> minted', room |-> FALSE]
    <2>1. write' = [write EXCEPT ![p] = begun] /\ begun.id = e
      BY <1>3 DEF BeginWrite
    <2> HIDE DEF begun
    <2> QED
      BY <1>0, <2>1
  <1>11. Fresh'
    <2> SUFFICES ASSUME NEW q \in Writers, write'[q].at # "idle"
                 PROVE  ~OnSomeDisk(write[q].id)' /\ \A t \in journal' : write'[q].id \notin t.unread
      BY DEF Fresh
    <2>1. ~OnSomeDisk(write'[q].id) /\ \A t \in journal : write'[q].id \notin t.unread
      BY <1>8, <1>9, <1>10 DEF IdInv, Fresh
    <2>2. ~OnSomeDisk(write[q].id)'
      BY <1>3, <2>1 DEF OnSomeDisk, OnDisk
    <2> QED
      BY <2>1, <2>2
  <1>12. \A t \in journal : \A i \in {1, 2} :
               /\ t.notice[i] \notin gaps' /\ subject'[t.notice[i]] = subject[t.notice[i]]
               /\ \A k \in Managers : OnDisk(k, t.notice[i])' => OnDisk(k, t.notice[i]) \/ k = <<t.from, t.to>>[i]
    <2>1. Minted \subseteq Ids
      BY <1>0, MintedInIds
    <2> QED
      BY <1>2, <1>3, <1>5, <1>6, <1>9, <2>1 DEF IdInv, NoticeIds
  <1>13. NoticeIds'
    BY <1>0, <1>12, NoticesKept DEF IdInv
  <1>14. GapIds'
    <2>1. \A x \in Ids : x > minted' \/ x \in gaps' => subject'[x] = 0
      <3> SUFFICES ASSUME NEW x \in Ids, x > minted' \/ x \in gaps' PROVE subject'[x] = 0
        OBVIOUS
      <3>1. x # e /\ (x > minted \/ x \in gaps)
        BY <1>0, <1>1, <1>2, <1>3 DEF BoxTypes, Ids
      <3> QED
        BY <1>5, <3>1 DEF IdInv, GapIds
    <2> QED
      BY <1>3, <2>1 DEF IdInv, GapIds, Ids
  <1>15. EventsAreUnique'
    BY <1>3 DEF IdInv, EventsAreUnique
  <1> QED
    BY <1>11, <1>13, <1>14, <1>15 DEF IdInv

(* A handled event leaves the unread files of its mailbox. *)
LEMMA IdAck ==
    ASSUME IdInv, BoxTypes, MailboxShape, NEW k \in Managers, NEW e \in unread[k], Ack(k, e), journal' = journal
    PROVE  IdInv'
  <1> USE DEF files, status, past, locks
  <1>0. /\ JournalAlike /\ WritersShrink /\ UNCHANGED <<gaps, subject, minted, pendingGap, retry, write>>
    BY DEF JournalAlike, Alike, WritersShrink, Ack
  <1>1. unread' = [unread EXCEPT ![k] = @ \ {e}] /\ acked' = [acked EXCEPT ![k] = Newest(acked[k] \cup {e})]
    BY DEF Ack
  <1>2. Newest(acked[k] \cup {e}) \subseteq acked[k] \cup {e}
    BY DEF Newest
  <1>3. \A j \in Managers : /\ unread'[j] = unread[j] \ (IF j = k THEN {e} ELSE {})
                            /\ acked'[j] \subseteq acked[j] \cup (IF j = k THEN {e} ELSE {})
    BY <1>1, <1>2 DEF BoxTypes
  <1>4. \A j \in Managers : \A x : OnDisk(j, x)' => OnDisk(j, x)
    BY <1>3 DEF OnDisk
  <1>40. \A p \in Writers : \A j \in Managers : OnDisk(j, write[p].id)' => OnDisk(j, write'[p].id)
    BY <1>3 DEF OnDisk
  <1>5. Fresh'
    BY <1>0, <1>40, FreshKept DEF IdInv
  <1>6. \A t \in journal : \A i \in {1, 2} :
               /\ t.notice[i] \notin gaps' /\ subject'[t.notice[i]] = subject[t.notice[i]]
               /\ \A j \in Managers : OnDisk(j, t.notice[i])' => OnDisk(j, t.notice[i]) \/ j = <<t.from, t.to>>[i]
    BY <1>0, <1>4 DEF IdInv, NoticeIds
  <1>7. NoticeIds'
    BY <1>0, <1>6, NoticesKept DEF IdInv
  <1>8. GapIds'
    BY <1>0 DEF IdInv, GapIds, Ids
  <1>9. EventsAreUnique'
    <2> SUFFICES ASSUME NEW j \in Managers, NEW i \in Managers
                 PROVE  /\ (unread'[i] \cap acked'[j]) \subseteq gaps'
                        /\ j # i => (unread'[j] \cap unread'[i]) \cup (acked'[j] \cap acked'[i]) \subseteq gaps'
      BY DEF EventsAreUnique
    <2>1. e \in gaps \/ \A x \in Managers : e \notin acked[x] /\ (x # k => e \notin unread[x])
      BY DEF IdInv, EventsAreUnique
    <2>2. /\ (unread[i] \cap acked[j]) \subseteq gaps
          /\ j # i => (unread[j] \cap unread[i]) \cup (acked[j] \cap acked[i]) \subseteq gaps
      BY DEF IdInv, EventsAreUnique
    <2>3. /\ unread'[i] = unread[i] \ (IF i = k THEN {e} ELSE {})
          /\ acked'[i] \subseteq acked[i] \cup (IF i = k THEN {e} ELSE {})
          /\ unread'[j] = unread[j] \ (IF j = k THEN {e} ELSE {})
          /\ acked'[j] \subseteq acked[j] \cup (IF j = k THEN {e} ELSE {})
      BY <1>3
    <2> QED
      BY <1>0, <2>1, <2>2, <2>3
  <1> QED
    BY <1>5, <1>7, <1>8, <1>9 DEF IdInv

(* The steps of the operation that reach the files or the journal. *)
LEMMA IdFreeze ==
    ASSUME IdInv, BoxTypes, PlansInv, PlansInv', MailboxShape, MailboxShape', BookInv, NEW w \in Writes, Freeze(w)
    PROVE  IdInv'
  <1>0. OperationInv /\ minted \in Nat /\ minted' \in Nat /\ Numbered'
    BY DEF BookInv, MailboxShape, PlansInv
  <1>1. /\ op.at = "freeze" /\ NoFiles
        /\ minted' = IF w # "lost" THEN minted + 2 ELSE minted
        /\ journal' = IF w # "lost" THEN journal \cup {FrozenPlan(op.ask)} ELSE journal
    BY <1>0, FreezeEffects
  <1>2. UNCHANGED <<unread, acked, gaps, subject, pendingGap, retry, write>> /\ minted <= minted'
    BY <1>0, <1>1 DEF NoFiles
  <1>3. WritersShrink /\ (\A g \in retry'.todo : g[2] \in gaps) /\ \A j \in Managers : pendingGap'[j] \in {0, pendingGap[j]}
    BY <1>2 DEF WritersShrink, IdInv, GapIds
  <1>4. CASE w = "lost"
    <2>1. JournalAlike
      BY <1>1, <1>4 DEF JournalAlike, Alike
    <2> QED
      BY <1>0, <1>2, <1>3, <2>1, IdFrame
  <1>5. CASE w # "lost"
    <2>1. op.plan = NoPlan /\ op.ask # NoAsk /\ journal = {}
      BY <1>0, <1>1 DEF OperationInv, Deciding
    <2>2. op.ask.from \in Managers
      BY <1>0, <2>1 DEF OperationInv, WellAsked
    <2>3. PICK p : p = FrozenPlan(op.ask)
      OBVIOUS
    <2>4. p.from = op.ask.from /\ p.unread = unread[op.ask.from] /\ p.notice[1] = minted + 1 /\ p.notice[2] = minted + 2
      BY <2>3 DEF FrozenPlan
    <2>5. journal' = {p} /\ minted' = minted + 2
      BY <1>1, <1>5, <2>1, <2>3
    <2>6. \A j \in Managers : unread[j] \subseteq Minted /\ acked[j] \subseteq Minted
      BY DEF BoxTypes
    <2>7. \A i \in {1, 2} : p.notice[i] \in Ids /\ p.notice[i] > minted /\ p.notice[i] \notin Minted
      BY <1>0, <2>4, <2>5, OwnershipAssumption DEF Numbered, Ids, Minted
    <2>8. \A i \in {1, 2} : p.notice[i] \notin gaps /\ subject[p.notice[i]] = 0 /\ ~OnSomeDisk(p.notice[i])
      BY <2>6, <2>7 DEF BoxTypes, IdInv, GapIds, OnSomeDisk, OnDisk
    <2>9. NoticeIds'
      BY <1>2, <2>5, <2>8 DEF NoticeIds, OnDisk, OnSomeDisk
    <2>10. Fresh'
      <3> SUFFICES ASSUME NEW q \in Writers, write'[q].at # "idle"
                   PROVE  ~OnSomeDisk(write[q].id)' /\ \A t \in journal' : write'[q].id \notin t.unread
        BY DEF Fresh
      <3>1. ~OnSomeDisk(write[q].id)
        BY <1>2 DEF IdInv, Fresh
      <3> QED
        BY <1>2, <2>2, <2>4, <2>5, <3>1 DEF OnSomeDisk, OnDisk
    <2>11. GapIds'
      BY <1>0, <1>2 DEF IdInv, GapIds, Ids
    <2>12. EventsAreUnique'
      BY <1>2 DEF IdInv, EventsAreUnique
    <2> QED
      BY <2>9, <2>10, <2>11, <2>12 DEF IdInv
  <1> QED
    BY <1>4, <1>5

(* The plan that finish has in hand. *)
LEMMA PlanAtHand ==
    ASSUME BookInv, PlansInv, op.at \in Finishing \ {"checkpoint"}
    PROVE  /\ op.plan \in journal /\ journal = {op.plan} /\ WellFrozen(op.plan) /\ Frozen(op.plan)
           /\ op.plan.from \in Managers /\ op.plan.to \in Managers /\ op.plan.from # op.plan.to
  <1>1. op.plan \in journal /\ WellFrozen(op.plan)
    BY DEF BookInv, OperationInv, PlanInHand, PlansInv, InHand, Finishing
  <1>2. journal = {op.plan}
    BY <1>1 DEF BookInv, DurableInv
  <1> QED
    BY <1>1, <1>2 DEF PlansInv, Frozen, WellFrozen

LEMMA IdMove ==
    ASSUME IdInv, BoxTypes, PlansInv, MailboxShape, BookInv, NEW w \in Writes, MoveFile(w)
    PROVE  IdInv'
  <1>0. OperationInv /\ minted \in Nat /\ InHand
    BY DEF BookInv, MailboxShape, PlansInv
  <1>1. PICK p : p = op.plan
    OBVIOUS
  <1>2. PICK e : e = Least(op.todo)
    OBVIOUS
  <1>3. op.at = "moves" /\ op.todo # {} /\ UNCHANGED <<acked, pendingGap, minted, subject, write, retry, gaps, journal>>
    BY <1>0, MoveEffects
  <1>4. \/ unread' = unread
        \/ e \in unread[p.from] /\ unread' = [unread EXCEPT ![p.from] = @ \ {e}, ![p.to] = @ \cup {e}]
    BY <1>0, <1>1, <1>2, MoveEffects
  <1>5. journal = {p} /\ Frozen(p) /\ p.from \in Managers /\ p.to \in Managers /\ p.from # p.to /\ op.todo \subseteq p.unread
    BY <1>0, <1>1, <1>3, PlanAtHand DEF Finishing, InHand
  <1>6. JournalAlike /\ WritersShrink
    BY <1>3 DEF JournalAlike, Alike, WritersShrink
  <1>7. CASE unread' = unread
    <2>1. (\A g \in retry'.todo : g[2] \in gaps) /\ \A j \in Managers : pendingGap'[j] \in {0, pendingGap[j]}
      BY <1>3 DEF IdInv, GapIds
    <2> QED
      BY <1>0, <1>3, <1>6, <1>7, <2>1, IdFrame
  <1>8. CASE e \in unread[p.from] /\ unread' = [unread EXCEPT ![p.from] = @ \ {e}, ![p.to] = @ \cup {e}]
    <2>1. op.todo \in SUBSET Nat
      BY <1>0, <1>5 DEF Frozen, Minted
    <2>2. e \in p.unread
      BY <1>2, <1>3, <1>5, <2>1, LeastOfNumbers
    <2>3. \A i \in {1, 2} : e # p.notice[i]
      BY <1>5, <2>2 DEF Frozen, Minted
    <2>4. \A q \in Writers : write[q].at # "idle" => write[q].id # e
      BY <1>5, <2>2 DEF IdInv, Fresh
    <2>5. \A j \in Managers : unread'[j] = IF j = p.from THEN unread[j] \ {e} ELSE IF j = p.to THEN unread[j] \cup {e} ELSE unread[j]
      BY <1>5, <1>8 DEF BoxTypes
    <2>6. \A j \in Managers : \A x : OnDisk(j, x)' => OnDisk(j, x) \/ x = e
      BY <1>3, <2>5 DEF OnDisk
    <2>7. ASSUME NEW q \in Writers, write'[q].at # "idle", NEW j \in Managers, OnDisk(j, write[q].id)'
          PROVE  OnDisk(j, write'[q].id)
      <3>1. OnDisk(j, write'[q].id) \/ write'[q].id = e
        BY <2>6, <2>7
      <3> QED
        BY <1>3, <2>4, <2>7, <3>1
    <2>8. Fresh'
      BY <1>6, <2>7, FreshKept DEF IdInv
    <2>9. \A t \in journal : \A i \in {1, 2} :
                 /\ t.notice[i] \notin gaps' /\ subject'[t.notice[i]] = subject[t.notice[i]]
                 /\ \A j \in Managers : OnDisk(j, t.notice[i])' => OnDisk(j, t.notice[i]) \/ j = <<t.from, t.to>>[i]
      BY <1>3, <1>5, <2>3, <2>6 DEF IdInv, NoticeIds
    <2>10. NoticeIds'
      BY <1>6, <2>9, NoticesKept DEF IdInv
    <2>11. GapIds'
      BY <1>3 DEF IdInv, GapIds, Ids
    <2>12. EventsAreUnique'
      <3> SUFFICES ASSUME NEW j \in Managers, NEW i \in Managers
                   PROVE  /\ (unread'[i] \cap acked'[j]) \subseteq gaps'
                          /\ j # i => (unread'[j] \cap unread'[i]) \cup (acked'[j] \cap acked'[i]) \subseteq gaps'
        BY DEF EventsAreUnique
      <3>1. e \in gaps \/ \A x \in Managers : e \notin acked[x] /\ (x # p.from => e \notin unread[x])
        BY <1>5, <1>8 DEF IdInv, EventsAreUnique
      <3>2. /\ (unread[i] \cap acked[j]) \subseteq gaps
            /\ j # i => (unread[j] \cap unread[i]) \cup (acked[j] \cap acked[i]) \subseteq gaps
        BY DEF IdInv, EventsAreUnique
      <3>3. /\ unread'[i] \subseteq unread[i] \cup (IF i = p.to THEN {e} ELSE {}) /\ (i = p.from => e \notin unread'[i])
            /\ unread'[j] \subseteq unread[j] \cup (IF j = p.to THEN {e} ELSE {}) /\ (j = p.from => e \notin unread'[j])
            /\ acked'[i] = acked[i] /\ acked'[j] = acked[j] /\ gaps' = gaps
        BY <1>3, <1>5, <2>5
      <3>4. (unread'[i] \cap acked'[j]) \subseteq gaps'
        BY <3>1, <3>2, <3>3
      <3>5. ASSUME j # i, NEW x \in unread'[j], x \in unread'[i] PROVE x \in gaps
        BY <3>1, <3>2, <3>3, <3>5
      <3> QED
        BY <3>2, <3>3, <3>4, <3>5
    <2> QED
      BY <2>8, <2>10, <2>11, <2>12 DEF IdInv
  <1> QED
    BY <1>4, <1>7, <1>8

LEMMA IdNotice ==
    ASSUME IdInv, BoxTypes, PlansInv, WriterLocks, MailboxShape, BookInv, NEW w \in Writes, NoticeFrom(w) \/ NoticeTo(w)
    PROVE  IdInv'
  <1>0. OperationInv /\ minted \in Nat /\ Numbered
    BY DEF BookInv, MailboxShape, PlansInv
  <1>1. PICK p : p = op.plan
    OBVIOUS
  <1>2. PICK i \in {1, 2} : op.at \in {"notice from", "notice to"} /\ \E next : NoticeStep(<<p.from, p.to>>[i], p.notice[i], next, w)
    <2>1. CASE NoticeFrom(w)
      <3>1. op.at = "notice from" /\ NoticeStep(<<p.from, p.to>>[1], p.notice[1], "notice to", w)
        BY <1>0, <1>1, <2>1, NoticeEffects
      <3> QED
        BY <3>1
    <2>2. CASE NoticeTo(w)
      <3>1. op.at = "notice to" /\ NoticeStep(<<p.from, p.to>>[2], p.notice[2], "retarget", w)
        BY <1>0, <1>1, <2>2, NoticeEffects
      <3> QED
        BY <3>1
    <2> QED
      BY <2>1, <2>2
  <1>3. journal = {p} /\ Frozen(p) /\ p.from \in Managers /\ p.to \in Managers /\ p.from # p.to
    BY <1>1, <1>2, PlanAtHand DEF Finishing
  <1>4. PICK k : k = <<p.from, p.to>>[i]
    OBVIOUS
  <1>5. PICK e : e = p.notice[i]
    OBVIOUS
  <1>6. k \in Managers /\ e \in Minted /\ e \notin gaps /\ subject[e] = 0 /\ \A j \in Managers : OnDisk(j, e) => j = k
    BY <1>3, <1>4, <1>5 DEF IdInv, NoticeIds, Frozen
  <1>7. PICK next : NoticeStep(k, e, next, w)
    BY <1>2, <1>4, <1>5
  <1>8. UNCHANGED <<acked, minted, subject, write, retry, gaps, journal>>
    BY <1>7 DEF NoticeStep
  <1>9. \/ UNCHANGED <<unread, pendingGap>>
        \/ ~OnDisk(k, e) /\ PersistRun(k, e, ~AtCap(k), w)
    BY <1>7 DEF NoticeStep
  <1>10. JournalAlike /\ WritersShrink
    BY <1>8 DEF JournalAlike, Alike, WritersShrink
  <1>11. pendingGap' = pendingGap
    BY <1>6, <1>9, PersistRunEffects
  <1>12. CASE unread' = unread
    <2>1. (\A g \in retry'.todo : g[2] \in gaps) /\ \A j \in Managers : pendingGap'[j] \in {0, pendingGap[j]}
      BY <1>8, <1>11 DEF IdInv, GapIds
    <2> QED
      BY <1>0, <1>8, <1>10, <1>12, <2>1, IdFrame
  <1>13. CASE unread' # unread
    <2>1. ~OnDisk(k, e) /\ unread' = [unread EXCEPT ![k] = @ \cup {e}]
      BY <1>6, <1>9, <1>13, PersistRunEffects
    <2>2. ~OnSomeDisk(e)
      BY <1>6, <2>1 DEF OnSomeDisk
    <2>3. Brings(k, {e})
      BY <1>8, <2>1 DEF Brings, BoxTypes
    <2>4. \A j \in Managers : \A x : OnDisk(j, x)' => OnDisk(j, x) \/ (x = e /\ j = k)
      BY <2>3 DEF OnDisk, Brings
    <2>5. \A q \in Writers : write[q].at # "idle" => write[q].id # e
      <3>1. ASSUME NEW q \in Writers, write[q].at # "idle" PROVE subject[write[q].id] # 0
        BY <3>1, MailboxAssumption DEF BoxTypes, WriterLocks
      <3> QED
        BY <1>6, <3>1
    <2>6. ASSUME NEW q \in Writers, write'[q].at # "idle", NEW j \in Managers, OnDisk(j, write[q].id)'
          PROVE  OnDisk(j, write'[q].id)
      <3>1. OnDisk(j, write'[q].id) \/ write'[q].id = e
        BY <2>4, <2>6
      <3> QED
        BY <1>8, <2>5, <2>6, <3>1
    <2>7. Fresh'
      BY <1>10, <2>6, FreshKept DEF IdInv
    <2>8. \A n \in {1, 2} : p.notice[n] = e => n = i
      BY <1>3, <1>5 DEF Frozen, Minted
    <2>9. \A t \in journal : \A n \in {1, 2} :
                 /\ t.notice[n] \notin gaps' /\ subject'[t.notice[n]] = subject[t.notice[n]]
                 /\ \A j \in Managers : OnDisk(j, t.notice[n])' => OnDisk(j, t.notice[n]) \/ j = <<t.from, t.to>>[n]
      BY <1>3, <1>4, <1>8, <2>4, <2>8 DEF IdInv, NoticeIds
    <2>10. NoticeIds'
      BY <1>10, <2>9, NoticesKept DEF IdInv
    <2>11. GapIds'
      BY <1>8, <1>11 DEF IdInv, GapIds, Ids
    <2>12. EventsAreUnique'
      BY <1>6, <1>8, <2>2, <2>3, UniqueAdd DEF IdInv
    <2> QED
      BY <2>7, <2>10, <2>11, <2>12 DEF IdInv
  <1> QED
    BY <1>12, <1>13

(* The other steps of the operation leave the files alone, and in the      *)
(* journal the plan as it was frozen.                                      *)
LEMMA OpIsQuiet ==
    ASSUME OwnershipInv, PlanInv,
           \/ LockTimesOut \/ ReplayDone \/ LockRun \/ Verify \/ VerifyRefuses \/ LockMailboxes \/ OwnersWritten \/ MovesDone
           \/ \E p \in journal : ReplayNext(p)
           \/ \E w \in Writes : ConsumeClaim(w) \/ WriteOwners(w) \/ Checkpoint(w) \/ MarkDone(w)
    PROVE  UNCHANGED <<unread, acked, gaps, subject, pendingGap, retry, write, minted, carried>> /\ JournalAlike
  <1>0. BoxTypes /\ OperationInv /\ DurableInv /\ InHand
    BY DEF PlanInv, PlansInv, OwnershipInv, BookInv
  <1>1. ASSUME journal' \subseteq journal PROVE JournalAlike
    BY <1>1 DEF JournalAlike, Alike
  <1>2. CASE LockTimesOut \/ ReplayDone \/ LockRun \/ Verify \/ VerifyRefuses \/ LockMailboxes \/ OwnersWritten
             \/ \E p \in journal : ReplayNext(p)
    <2>1. OnlyOp
      BY <1>0, <1>2, DecidingEffects, LockingEffects
    <2> QED
      BY <1>1, <2>1 DEF OnlyOp
  <1>3. CASE MovesDone
    BY <1>0, <1>1, <1>3, MovesDoneEffects
  <1>4. ASSUME NEW w \in Writes, ConsumeClaim(w) \/ WriteOwners(w)
        PROVE  UNCHANGED <<unread, acked, gaps, subject, pendingGap, retry, write, minted, carried>> /\ JournalAlike
    <2>1. NoFiles /\ UNCHANGED <<minted, journal>>
      BY <1>0, <1>4, ClaimEffects, OwnersEffects
    <2> QED
      BY <1>1, <2>1 DEF NoFiles
  <1>5. ASSUME NEW w \in Writes, MarkDone(w)
        PROVE  UNCHANGED <<unread, acked, gaps, subject, pendingGap, retry, write, minted, carried>> /\ JournalAlike
    <2>1. NoFiles /\ minted' = minted /\ journal' \subseteq journal
      BY <1>0, <1>5, MarkDoneEffects
    <2> QED
      BY <1>1, <2>1 DEF NoFiles
  <1>6. ASSUME NEW w \in Writes, Checkpoint(w)
        PROVE  UNCHANGED <<unread, acked, gaps, subject, pendingGap, retry, write, minted, carried>> /\ JournalAlike
    <2>1. op.at = "checkpoint" /\ NoFiles /\ minted' = minted /\ journal' \subseteq journal \cup {op.plan}
      BY <1>0, <1>6, CheckpointEffects
    <2>2. \E p \in journal : op.plan = [p EXCEPT !.moved = TRUE]
      BY <1>0, <2>1 DEF InHand, OperationInv, Finishing
    <2>3. \E p \in journal : Alike(op.plan, p)
      BY <1>0, <2>2, MovedFields DEF DurableInv, Alike
    <2>4. JournalAlike
      BY <2>1, <2>3 DEF JournalAlike, Alike
    <2> QED
      BY <2>1, <2>4 DEF NoFiles
  <1> QED
    BY <1>2, <1>3, <1>4, <1>5, <1>6

(* What a writer brings to its mailbox when it ends, and at a crash. *)
Ending(p) ==
    /\ write[p].at = "scanned" /\ write'[p].at = "idle" /\ write[p].key \in Managers
    /\ \E N \in SUBSET {write[p].id} : Brings(write[p].key, N)

LEMMA LandBrings ==
    ASSUME BoxTypes, MailboxShape, NEW p \in Writers, NEW w \in Writes, LandWrite(p, w)
    PROVE  Ending(p) /\ WritersShrink /\ UNCHANGED <<gaps, subject, minted, pendingGap, retry, owners>>
  <1>1. /\ write[p].at = "scanned" /\ write' = [write EXCEPT ![p] = NoWrite]
        /\ UNCHANGED <<acked, gaps, subject, minted, retry, owners>> /\ PersistRun(write[p].key, write[p].id, write[p].room, w)
    BY DEF LandWrite
  <1>2. write[p].key \in Managers /\ write[p].room \in BOOLEAN
    BY <1>1 DEF MailboxShape, WriteShape
  <1>3. pendingGap' = pendingGap /\ (unread' = unread \/ unread' = [unread EXCEPT ![write[p].key] = @ \cup {write[p].id}])
    BY <1>1, <1>2, PersistRunEffects
  <1>4. write'[p].at = "idle" /\ WritersShrink
    BY <1>1 DEF MailboxShape, NoWrite, WritersShrink
  <1>5. unread' = unread => Brings(write[p].key, {})
    BY <1>1 DEF Brings
  <1>6. unread' # unread => Brings(write[p].key, {write[p].id})
    BY <1>1, <1>2, <1>3 DEF Brings, BoxTypes
  <1> QED
    BY <1>1, <1>2, <1>3, <1>4, <1>5, <1>6 DEF Ending

LEMMA CrashBrings ==
    ASSUME BoxTypes, MailboxShape, WriterLocks, Crash
    PROVE  /\ unread' = unread \/ \E p \in Writers : Ending(p)
           /\ \A p \in Writers : write'[p].at = "idle"
           /\ op' = NoOp /\ retry'.todo = {} /\ UNCHANGED <<acked, gaps, subject, minted, pendingGap, owners, faults, journal, done, carried>>
  <1>1. /\ \A p \in Writers : write'[p].at = "idle"
        /\ op' = NoOp /\ retry'.todo = {} /\ UNCHANGED <<acked, gaps, subject, minted, pendingGap, owners, faults, journal, done, carried>>
    BY DEF Crash, NoWrite, NoRetry, status, past, book
  <1>2. PICK linked \in SUBSET {p \in Writers : write[p].at = "scanned" /\ write[p].room} :
            unread' = [k \in Managers |-> unread[k] \cup {write[p].id : p \in {q \in linked : write[q].key = k}}]
    BY DEF Crash
  <1>3. CASE linked = {}
    <2>1. \A k \in Managers : unread'[k] = unread[k]
      BY <1>2, <1>3
    <2>2. unread' = unread
      BY <1>2, <2>1 DEF BoxTypes
    <2> QED
      BY <1>1, <2>2
  <1>4. ASSUME NEW p \in linked PROVE p \in Writers /\ Ending(p)
    <2>1. p \in Writers /\ write[p].at = "scanned" /\ \A q \in linked : q = p
      BY DEF WriterLocks
    <2>2. write[p].key \in Managers
      BY <2>1 DEF MailboxShape
    <2>3. \A j \in Managers : unread'[j] = unread[j] \cup (IF j = write[p].key THEN {write[p].id} ELSE {})
      BY <1>2, <2>1
    <2>4. Brings(write[p].key, {write[p].id})
      BY <1>1, <2>3 DEF Brings
    <2> QED
      BY <1>1, <2>1, <2>2, <2>4 DEF Ending
  <1> QED
    BY <1>1, <1>3, <1>4

(* A writer or the retry that goes on, or gives up. *)
LEMMA WritersGoOn ==
    ASSUME MailboxShape, BoxTypes, NEW p \in Writers, AdmitWrite(p) \/ WriteTimesOut(p)
    PROVE  WritersShrink /\ UNCHANGED <<unread, acked, gaps, subject, minted, pendingGap, retry, owners, faults>>
  <1> USE DEF files, status, past
  <1>0. write \in [Writers -> WriteShape]
    BY DEF MailboxShape
  <1>1. CASE AdmitWrite(p)
    <2> DEFINE admitted == [write[p] EXCEPT !.at = "scanned", !.room = ~AtCap(write[p].key)]
    <2>1. /\ write' = [write EXCEPT ![p] = admitted] /\ write[p].at # "idle"
          /\ UNCHANGED <<unread, acked, gaps, subject, minted, pendingGap, retry, owners, faults>>
      BY <1>1 DEF AdmitWrite
    <2>2. admitted.run = write[p].run /\ admitted.id = write[p].id /\ admitted.key = write[p].key
      BY <1>0 DEF WriteShape
    <2> HIDE DEF admitted
    <2> QED
      BY <1>0, <2>1, <2>2 DEF WritersShrink
  <1>2. CASE WriteTimesOut(p)
    <2>1. /\ write' = [write EXCEPT ![p] = NoWrite]
          /\ UNCHANGED <<unread, acked, gaps, subject, minted, pendingGap, retry, owners, faults>>
      BY <1>2 DEF WriteTimesOut
    <2> QED
      BY <1>0, <2>1 DEF WritersShrink, NoWrite
  <1> QED
    BY <1>1, <1>2

LEMMA RetryGoesOn ==
    ASSUME MailboxShape, BoxTypes, GapIds, BeginRetry \/ EndRetry \/ (\E g \in retry.todo : RetryOnDisk(g)) \/ (\E w \in Writes : ClearGap(w))
    PROVE  /\ UNCHANGED <<unread, acked, gaps, subject, minted, write, owners, refused, unpersisted, unlogged>>
           /\ \A g \in retry'.todo : g[2] \in gaps
           /\ \A k \in Managers : pendingGap'[k] \in {0, pendingGap[k]}
  <1> USE DEF files, status, past
  <1>0. retry \in RetryShape /\ \A g \in retry.todo : g[2] \in gaps
    BY DEF MailboxShape, GapIds
  <1>1. CASE BeginRetry
    <2>1. retry'.todo = {<<k, pendingGap[k]>> : k \in {x \in Managers : pendingGap[x] # 0}}
      BY <1>1 DEF BeginRetry, NoRetry
    <2>2. \A g \in retry'.todo : g[2] \in gaps
      BY <2>1 DEF GapIds
    <2> QED
      BY <1>1, <2>2 DEF BeginRetry
  <1>2. CASE EndRetry
    BY <1>2 DEF EndRetry, NoRetry
  <1>3. ASSUME NEW g \in retry.todo, RetryOnDisk(g)
        PROVE  /\ UNCHANGED <<unread, acked, gaps, subject, minted, write, owners, refused, unpersisted, unlogged>>
               /\ \A x \in retry'.todo : x[2] \in gaps
               /\ \A k \in Managers : pendingGap'[k] \in {0, pendingGap[k]}
    BY <1>0, <1>3 DEF RetryOnDisk, RetryShape
  <1>4. ASSUME NEW w \in Writes, ClearGap(w)
        PROVE  /\ UNCHANGED <<unread, acked, gaps, subject, minted, write, owners, refused, unpersisted, unlogged>>
               /\ \A x \in retry'.todo : x[2] \in gaps
               /\ \A k \in Managers : pendingGap'[k] \in {0, pendingGap[k]}
    <2>1. retry'.todo = retry.todo
      BY <1>0, <1>4 DEF ClearGap, RetryShape
    <2>2. \A k \in Managers : pendingGap'[k] \in {0, pendingGap[k]}
      BY <1>4 DEF ClearGap, BoxTypes
    <2> QED
      BY <1>0, <1>4, <2>1, <2>2 DEF ClearGap
  <1> QED
    BY <1>1, <1>2, <1>3, <1>4

LEMMA IdStep == OwnershipInv /\ OwnershipInv' /\ PlanInv /\ PlanInv' /\ FlockInv /\ IdInv /\ [Next]_vars => IdInv'
  <1> SUFFICES ASSUME OwnershipInv, OwnershipInv', PlanInv, PlanInv', FlockInv, IdInv, [Next]_vars PROVE IdInv'
    OBVIOUS
  <1>0. /\ MailboxShape /\ MailboxShape' /\ BookInv /\ BoxTypes /\ PlansInv /\ PlansInv' /\ WriterLocks
        /\ Numbered /\ GapIds /\ minted \in Nat /\ minted' \in Nat
    BY DEF OwnershipInv, BoxInv, PlanInv, PlansInv, FlockInv, IdInv, MailboxShape
  <1>1. (\A g \in retry.todo : g[2] \in gaps) /\ (journal' = journal => JournalAlike) /\ (write' = write => WritersShrink)
    BY <1>0 DEF GapIds, JournalAlike, Alike, WritersShrink
  <1>2. ASSUME NEW p \in Writers, NEW r \in Runs, EventsLeft, BeginWrite(p, r), Else PROVE IdInv'
    BY <1>0, <1>2, IdBegin DEF Else
  <1>3. ASSUME NEW p \in Writers, Writing(p), Else PROVE IdInv'
    <2>1. journal' = journal
      BY <1>3 DEF Else
    <2>2. CASE AdmitWrite(p) \/ WriteTimesOut(p)
      <3>1. WritersShrink /\ UNCHANGED <<unread, acked, gaps, subject, minted, pendingGap, retry>>
        BY <1>0, <2>2, WritersGoOn
      <3> QED
        BY <1>0, <1>1, <2>1, <3>1, IdFrame
    <2>3. ASSUME NEW w \in Writes, LandWrite(p, w) PROVE IdInv'
      <3>1. Ending(p) /\ WritersShrink /\ UNCHANGED <<gaps, subject, minted, pendingGap, retry>>
        BY <1>0, <2>3, LandBrings
      <3>2. PICK N \in SUBSET {write[p].id} : Brings(write[p].key, N)
        BY <3>1 DEF Ending
      <3>3. write[p].at # "idle" /\ write'[p].at = "idle" /\ write[p].key \in Managers
        BY <3>1 DEF Ending
      <3> QED
        BY <1>0, <2>1, <3>1, <3>2, <3>3, IdLand
    <2> QED
      BY <1>3, <2>2, <2>3 DEF Writing
  <1>4. ASSUME NEW k \in Managers, NEW e \in unread[k], Ack(k, e), Else PROVE IdInv'
    BY <1>0, <1>4, IdAck DEF Else
  <1>5. ASSUME Retrying, Else PROVE IdInv'
    <2>1. journal' = journal
      BY <1>5 DEF Else
    <2>2. CASE BeginRetry \/ EndRetry \/ (\E g \in retry.todo : RetryOnDisk(g)) \/ (\E w \in Writes : ClearGap(w))
      <3>1. /\ UNCHANGED <<unread, acked, gaps, subject, minted, write>>
            /\ \A g \in retry'.todo : g[2] \in gaps
            /\ \A k \in Managers : pendingGap'[k] \in {0, pendingGap[k]}
        BY <1>0, <2>2, RetryGoesOn
      <3> QED
        BY <1>0, <1>1, <2>1, <3>1, IdFrame
    <2>3. ASSUME NEW g \in retry.todo, NEW w \in Writes, RetryWrite(g, w) PROVE IdInv'
      <3>1. g[1] \in Managers /\ g[2] \in gaps
        BY <1>0, <1>1 DEF BoxTypes
      <3>2. GapPlaced(g[1], g[2], ~AtCap(g[1]))
        BY <1>0, <2>3, <3>1, PersistGapEffects DEF RetryWrite
      <3>3. UNCHANGED <<acked, subject, write, minted>>
        BY <2>3 DEF RetryWrite
      <3>4. retry'.todo \subseteq retry.todo
        BY <1>0, <2>3 DEF RetryWrite, MailboxShape, RetryShape
      <3>5. gaps \subseteq Minted /\ Minted \subseteq Ids
        BY <1>0, MintedInIds DEF BoxTypes
      <3>6. minted \in Minted
        <4>1. PICK x : x \in Minted
          BY <3>1, <3>5, Zenon
        <4> QED
          BY <1>0, <4>1 DEF Minted
      <3>7. minted' \in Ids
        BY <3>3, <3>5, <3>6
      <3> QED
        BY <1>0, <2>1, <3>1, <3>2, <3>3, <3>4, <3>7, IdGap
    <2> QED
      BY <1>5, <2>2, <2>3 DEF Retrying
  <1>6. ASSUME NEW k \in Managers, NEW w \in Writes, EventsLeft, WriteGap(k, w), Else PROVE IdInv'
    <2>1. minted' = minted + 1 /\ minted' \in Ids /\ minted <= minted'
      BY <1>0, <1>6, MintedOneMore DEF WriteGap
    <2>2. GapPlaced(k, minted', ~AtCap(k))
      BY <1>0, <1>6, PersistGapEffects DEF WriteGap
    <2>3. UNCHANGED <<acked, subject, write, retry, journal>>
      BY <1>6 DEF WriteGap, Else
    <2>4. PICK e : e = minted'
      OBVIOUS
    <2> QED
      BY <1>0, <2>1, <2>2, <2>3, <2>4, IdGap
  <1>7. ASSUME UNCHANGED <<unread, acked, gaps, subject, pendingGap, retry, write, minted>>, JournalAlike PROVE IdInv'
    BY <1>0, <1>1, <1>7, IdFrame
  <1>8. CASE Asking
    <2>1. UNCHANGED <<unread, acked, gaps, subject, pendingGap, retry, write, minted, journal>>
      BY <1>8 DEF Asking, AskChange, AskPending, box, files, status, past, book
    <2> QED
      BY <1>1, <1>7, <2>1
  <1>9. CASE OpStep \/ LockTimesOut
    <2>1. ASSUME \/ LockTimesOut \/ ReplayDone \/ LockRun \/ Verify \/ VerifyRefuses \/ LockMailboxes \/ OwnersWritten \/ MovesDone
                 \/ \E p \in journal : ReplayNext(p)
                 \/ \E w \in Writes : ConsumeClaim(w) \/ WriteOwners(w) \/ Checkpoint(w) \/ MarkDone(w)
          PROVE  IdInv'
      BY <1>7, <2>1, OpIsQuiet
    <2>2. ASSUME NEW w \in Writes, Freeze(w) \/ MoveFile(w) \/ NoticeFrom(w) \/ NoticeTo(w) PROVE IdInv'
      BY <1>0, <2>2, IdFreeze, IdMove, IdNotice
    <2> QED
      BY <1>9, <2>1, <2>2 DEF OpStep
  <1>10. CASE Crash
    <2>1. /\ unread' = unread \/ \E p \in Writers : Ending(p)
          /\ \A p \in Writers : write'[p].at = "idle"
          /\ retry'.todo = {} /\ UNCHANGED <<acked, gaps, subject, minted, pendingGap, journal>>
      BY <1>0, <1>10, CrashBrings
    <2>2. WritersShrink
      BY <2>1 DEF WritersShrink
    <2>3. CASE unread' = unread
      BY <1>0, <1>1, <2>1, <2>2, <2>3, IdFrame
    <2>4. ASSUME NEW p \in Writers, Ending(p) PROVE IdInv'
      <3>1. PICK N \in SUBSET {write[p].id} : Brings(write[p].key, N)
        BY <2>4 DEF Ending
      <3>2. write[p].at # "idle" /\ write'[p].at = "idle" /\ write[p].key \in Managers
        BY <2>4 DEF Ending
      <3> QED
        BY <1>0, <2>1, <2>2, <3>1, <3>2, IdLand
    <2> QED
      BY <2>1, <2>3, <2>4
  <1>11. CASE Idle
    <2>1. UNCHANGED <<unread, acked, gaps, subject, pendingGap, retry, write, minted, journal>>
      BY <1>11 DEF Idle
    <2> QED
      BY <1>1, <1>7, <2>1
  <1> QED
    BY <1>2, <1>3, <1>4, <1>5, <1>6, <1>8, <1>9, <1>10, <1>11, NextCases

LEMMA IdInit == Init => IdInv
  BY MailboxAssumption DEF Init, IdInv, Fresh, GapIds, NoticeIds, EventsAreUnique, NoWrite, NoRetry

-----------------------------------------------------------------------------
(* Where the events are. *)
LEMMA FaultsGrow ==
    ASSUME BoxTypes, NEW w, Attempt(w)
    PROVE  faults \in Nat /\ faults' \in Nat /\ faults <= faults' /\ (faults' = 0 => faults = 0 /\ w = "ok")
  BY MailboxAssumption DEF BoxTypes, Attempt

(* A thrown operation leaves what serves as settled as it was. *)
LEMMA SettledStep ==
    ASSUME OwnershipInv, PlanInv, Settled, [Next]_vars
    PROVE  Settled'
  <1> USE DEF files, status, past, box, book, locks, daemon
  <1>0. BookInv /\ BoxTypes /\ PlansInv /\ OperationInv /\ DurableInv /\ InHand
    BY DEF OwnershipInv, BookInv, PlanInv, PlansInv
  <1> DEFINE busy == {"claim", "owners", "moves", "checkpoint"}
  <1>1. ASSUME faults' = 0 => faults = 0, UNCHANGED <<journal, op>>, phase' \in {"gaps", "serving"} => phase \in {"gaps", "serving"} \/ journal = {}
        PROVE  Settled'
    BY <1>1 DEF Settled
  <1>2. ASSUME Else, \E w \in Writes : Attempt(w) \/ faults' = faults PROVE Settled'
    BY <1>0, <1>1, <1>2, FaultsGrow DEF Else
  <1>3. ASSUME NEW p \in Writers, NEW r \in Runs, BeginWrite(p, r), Else PROVE Settled'
    BY <1>2, <1>3 DEF BeginWrite, Writes
  <1>4. ASSUME NEW p \in Writers, Writing(p), Else PROVE Settled'
    BY <1>2, <1>4 DEF Writing, AdmitWrite, WriteTimesOut, LandWrite, Writes
  <1>5. ASSUME NEW k \in Managers, NEW e \in unread[k], Ack(k, e), Else PROVE Settled'
    BY <1>2, <1>5 DEF Ack, Writes
  <1>6. ASSUME Retrying, Else PROVE Settled'
    BY <1>2, <1>6 DEF Retrying, BeginRetry, EndRetry, RetryOnDisk, RetryWrite, ClearGap, Writes
  <1>7. ASSUME NEW k \in Managers, NEW w \in Writes, WriteGap(k, w), Else PROVE Settled'
    BY <1>2, <1>7 DEF WriteGap
  <1>8. ASSUME op.at \notin busy, UNCHANGED <<faults, journal>>,
               phase' = phase \/ phase' \notin {"gaps", "serving"}
        PROVE  Settled'
    BY <1>8 DEF Settled
  <1>9. CASE Asking
    <2>1. op.at = "idle" /\ UNCHANGED <<faults, journal, phase>>
      BY <1>9 DEF Asking, AskChange, AskPending
    <2> QED
      BY <1>8, <2>1
  <1>10. CASE Idle
    BY <1>1, <1>10 DEF Idle
  <1>11. CASE Crash
    BY <1>11 DEF Crash, Settled
  <1>12. CASE LockTimesOut \/ ReplayDone \/ LockRun \/ Verify \/ VerifyRefuses \/ LockMailboxes \/ \E p \in journal : ReplayNext(p)
    <2>1. OnlyOp /\ op.at \in {"replay", "lock", "verified"} /\ (phase' = phase \/ Throws)
      BY <1>0, <1>12, DecidingEffects, LockingEffects DEF Holds
    <2>2. phase' = phase \/ phase' \notin {"gaps", "serving"}
      BY <2>1 DEF Throws
    <2> QED
      BY <1>8, <2>1, <2>2 DEF OnlyOp
  <1>13. ASSUME faults' = 0 => op'.at \in busy PROVE Settled'
    BY <1>13 DEF Settled
  <1>14. ASSUME \A p \in journal' : p.moved PROVE Settled'
    BY <1>14 DEF Settled
  <1>15. CASE OwnersWritten
    <2>1. op.at = "owners" /\ OnlyOp /\ (op.plan.moved \/ op'.at = "moves")
      BY <1>0, <1>15, DecidingEffects DEF Goes
    <2>2. journal = {op.plan} /\ journal' = journal
      BY <1>0, <2>1, PlanAtHand DEF Finishing, OnlyOp
    <2> QED
      BY <1>13, <1>14, <2>1, <2>2
  <1>16. CASE MovesDone
    BY <1>0, <1>13, <1>16, MovesDoneEffects DEF Goes
  <1>17. ASSUME NEW w \in Writes, Freeze(w) \/ ConsumeClaim(w) \/ WriteOwners(w) \/ MoveFile(w) PROVE Settled'
    <2>1. Attempt(w) /\ (w = "ok" => op'.at \in busy)
      BY <1>0, <1>17, FreezeEffects, ClaimEffects, OwnersEffects, MoveEffects DEF Goes
    <2> QED
      BY <1>0, <1>13, <2>1, FaultsGrow
  <1>18. ASSUME NEW w \in Writes, Checkpoint(w) PROVE Settled'
    <2>1. /\ op.at = "checkpoint" /\ Attempt(w)
          /\ journal' = IF w # "lost" THEN {p \in journal : p.id # op.plan.id} \cup {op.plan} ELSE journal
      BY <1>0, <1>18, CheckpointEffects
    <2>2. op.plan.moved /\ \A p \in journal : p.id = op.plan.id
      BY <1>0, <2>1 DEF InHand, OperationInv, PlanInHand, SamePlan, Finishing
    <2>3. w # "lost" => \A p \in journal' : p.moved
      BY <2>1, <2>2
    <2>4. w = "lost" => faults' # 0
      BY <1>0, <2>1, FaultsGrow
    <2> QED
      BY <1>14, <2>3, <2>4 DEF Settled
  <1>19. ASSUME NEW w \in Writes, NoticeFrom(w) \/ NoticeTo(w) \/ MarkDone(w) PROVE Settled'
    <2>1. op.at \in {"notice from", "notice to", "retarget"} /\ journal' \subseteq journal
      BY <1>0, <1>19, NoticeEffects, MarkDoneEffects DEF NoticeStep
    <2>2. op.plan.moved /\ journal = {op.plan}
      BY <1>0, <2>1, PlanAtHand DEF Finishing, InHand
    <2> QED
      BY <1>14, <2>1, <2>2
  <1>20. CASE OpStep
    BY <1>12, <1>15, <1>16, <1>17, <1>18, <1>19, <1>20 DEF OpStep
  <1> QED
    BY <1>3, <1>4, <1>5, <1>6, <1>7, <1>9, <1>10, <1>11, <1>12, <1>20, NextCases

(* The plans name managers and runs. *)
LEMMA PlanParties ==
    ASSUME BookInv, PlansInv
    PROVE  \A p \in journal : p.from \in Managers /\ p.to \in Managers /\ p.from # p.to /\ p.runs \subseteq Runs /\ 0 \notin p.runs
  BY MailboxAssumption DEF BookInv, DurableInv, WellFrozen, PlansInv, Frozen

(* An event that was not there is about no run, or with the owner of its   *)
(* run, and late if that owner is giving the run away.                     *)
NewHere(k, e) ==
    /\ k = OwnerOf(subject'[e])
    /\ \A p \in journal : /\ e \notin p.unread
                          /\ k = p.from /\ subject'[e] \in p.runs => faults' > 0 /\ e > p.notice[2]

Stays ==
    /\ \A k \in Managers : \A e \in unread'[k] : (e \in unread[k] /\ subject'[e] = subject[e]) \/ subject'[e] = 0 \/ NewHere(k, e)
    /\ UNCHANGED <<owners, journal>> /\ carried \subseteq carried' /\ done \subseteq done'
    /\ faults > 0 => faults' > 0

LEMMA PlacedKept ==
    ASSUME BookInv, PlansInv, Placed, Stays
    PROVE  Placed'
  <1> SUFFICES ASSUME NEW k \in Managers, NEW e \in unread'[k], subject'[e] # 0
               PROVE  \/ e \in carried'
                      \/ k = OwnerOf(subject[e])'
                      \/ faults' > 0 /\ WrittenAfterFreeze(e, k)'
                      \/ \E p \in journal' : subject'[e] \in p.runs /\ k \in {p.from, p.to}
    BY DEF Placed
  <1>0. carried \subseteq carried' /\ journal' = journal /\ OwnerOf(subject[e])' = OwnerOf(subject'[e])
    BY DEF Stays, OwnerOf
  <1>1. CASE NewHere(k, e)
    BY <1>0, <1>1 DEF NewHere
  <1>2. CASE e \in unread[k] /\ subject'[e] = subject[e]
    <2>1. \/ e \in carried
          \/ k = OwnerOf(subject[e])
          \/ faults > 0 /\ WrittenAfterFreeze(e, k)
          \/ \E p \in journal : subject[e] \in p.runs /\ k \in {p.from, p.to}
      BY <1>2 DEF Placed
    <2>2. faults > 0 /\ WrittenAfterFreeze(e, k) => faults' > 0 /\ WrittenAfterFreeze(e, k)'
      BY <1>2 DEF Stays, WrittenAfterFreeze
    <2> QED
      BY <1>0, <1>2, <2>1, <2>2
  <1> QED
    BY <1>1, <1>2 DEF Stays

LEMMA ListedKept ==
    ASSUME BookInv, PlansInv, Listed, Stays
    PROVE  Listed'
  <1> SUFFICES ASSUME NEW p \in journal', NEW e \in unread'[p.from], subject'[e] \in p.runs
               PROVE  e \in p.unread \/ (faults' > 0 /\ e > p.notice[2])
    BY DEF Listed
  <1>0. p \in journal /\ p.from \in Managers /\ subject'[e] # 0 /\ (faults > 0 => faults' > 0)
    BY PlanParties DEF Stays
  <1>1. (e \in unread[p.from] /\ subject'[e] = subject[e]) \/ NewHere(p.from, e)
    BY <1>0 DEF Stays
  <1> QED
    BY <1>0, <1>1 DEF NewHere, Listed

LEMMA MovedKept ==
    ASSUME BookInv, PlansInv, Moved, Stays, op'.at \in {"moves", "checkpoint"} => op' = op
    PROVE  Moved'
  <1>0. journal' = journal
    BY DEF Stays
  <1>1. ASSUME NEW p \in journal, NEW e, e \in p.unread, e \in unread'[p.from], subject'[e] # 0
        PROVE  e \in unread[p.from] /\ subject'[e] = subject[e]
    <2>1. p.from \in Managers
      BY PlanParties
    <2>2. ~NewHere(p.from, e)
      BY <1>1 DEF NewHere
    <2> QED
      BY <1>1, <2>1, <2>2 DEF Stays
  <1>2. ASSUME NEW p \in journal', p.moved \/ op'.at = "checkpoint", NEW e \in p.unread \cap unread'[p.from]
        PROVE  subject'[e] = 0
    <2>1. p \in journal /\ (p.moved \/ op.at = "checkpoint")
      BY <1>0, <1>2
    <2> QED
      BY <1>1, <1>2, <2>1 DEF Moved
  <1>3. ASSUME op'.at = "moves", NEW e \in op'.plan.unread \cap unread'[op'.plan.from]
        PROVE  subject'[e] = 0 \/ e \in op'.todo
    <2>1. op' = op /\ op.at = "moves"
      BY <1>3
    <2>2. op.plan \in journal
      BY <2>1, PlanAtHand DEF Finishing
    <2> QED
      BY <1>1, <1>3, <2>1, <2>2 DEF Moved
  <1> QED
    BY <1>2, <1>3 DEF Moved

LEMMA LateKept ==
    ASSUME Late, WritersShrink, JournalAlike, faults > 0 => faults' > 0
    PROVE  Late'
  <1> SUFFICES ASSUME NEW t \in journal', NEW q \in Writers,
                      write'[q].at # "idle", write'[q].run \in t.runs, write'[q].key = t.from
               PROVE  faults' > 0 /\ write'[q].id > t.notice[2]
    BY DEF Late
  <1>1. write[q].at # "idle" /\ write'[q].id = write[q].id /\ write'[q].run = write[q].run /\ write'[q].key = write[q].key
    BY DEF WritersShrink
  <1>2. PICK p \in journal : t.from = p.from /\ t.runs = p.runs /\ t.notice = p.notice
    BY DEF JournalAlike, Alike
  <1> QED
    BY <1>1, <1>2 DEF Late

(* The files of the transferred runs stay where they are. *)
LEMMA PlaceKept ==
    ASSUME BookInv, PlansInv, PlaceInv, Stays, op'.at \in {"moves", "checkpoint"} => op' = op, WritersShrink
    PROVE  Placed' /\ Listed' /\ Late' /\ Moved'
  <1>1. JournalAlike /\ (faults > 0 => faults' > 0)
    BY DEF JournalAlike, Alike, Stays
  <1> QED
    BY <1>1, PlacedKept, ListedKept, MovedKept, LateKept DEF PlaceInv

(* A run that is being transferred is with the one or the other. *)
LEMMA PendingOwner ==
    ASSUME HistoryInv, NEW p \in journal, NEW r \in p.runs
    PROVE  /\ OwnerOf(r) \in {p.from, p.to}
           /\ owners[r] = p.owners[r] => OwnerOf(r) = p.to
           /\ p.owners[r][Len(p.owners[r])].session = p.to
  <1>1. PICK h \in OwnerHistory :
            /\ h[Len(h)].session = p.from
            /\ p.owners[r] = Append(h, [session |-> p.to, by |-> p.id])
            /\ owners[r] \in {h, p.owners[r]}
    BY DEF HistoryInv, Continues
  <1>2. h \in Seq(Entry)
    BY DEF OwnerHistory
  <1> DEFINE x == [session |-> p.to, by |-> p.id]
  <1>3. x.session = p.to
    OBVIOUS
  <1> HIDE DEF x
  <1>4. p.owners[r] = Append(h, x)
    BY <1>1 DEF x
  <1>5. Len(p.owners[r]) = Len(h) + 1 /\ p.owners[r][Len(h) + 1] = x
    BY <1>2, <1>4
  <1> QED
    BY <1>1, <1>3, <1>5 DEF OwnerOf

(* A writer of a transferred run begins before the owner has changed only  *)
(* if a failed write stopped the transfer.                                 *)
LEMMA PlaceBegin ==
    ASSUME OwnershipInv, PlanInv, OwnersInv, FlockInv, PlaceInv, NEW p \in Writers, NEW r \in Runs,
           Watching, EventsLeft, BeginWrite(p, r), Else
    PROVE  Placed' /\ Listed' /\ Late' /\ Moved'
  <1> USE DEF files, status, past
  <1>0. /\ BookInv /\ PlansInv /\ BoxTypes /\ MailboxShape /\ HistoryInv /\ OpLocks /\ Numbered
        /\ minted \in Nat /\ write \in [Writers -> WriteShape]
    BY DEF OwnershipInv, BoxInv, PlanInv, PlansInv, OwnersInv, FlockInv, MailboxShape
  <1>1. minted + 1 \in Ids
    BY <1>0, MintedOneMore
  <1>2. /\ UNCHANGED <<unread, owners, faults, op, journal, done, carried>> /\ runLock[r] = None
        /\ subject' = [subject EXCEPT ![minted + 1] = r]
    BY DEF BeginWrite, Else
  <1>3. \A k \in Managers : \A e \in unread'[k] : e \in unread[k] /\ subject'[e] = subject[e]
    <2>1. \A k \in Managers : unread[k] \subseteq Minted
      BY <1>0 DEF BoxTypes
    <2>2. \A e \in Minted : subject'[e] = subject[e]
      BY <1>0, <1>1, <1>2, MintedInIds DEF BoxTypes, Minted
    <2> QED
      BY <1>2, <2>1, <2>2
  <1>4. Stays
    BY <1>2, <1>3 DEF Stays
  <1> DEFINE begun == [at |-> "resolved", run |-> r, key |-> OwnerOf(r), id |-> minted', room |-> FALSE]
  <1>5. write' = [write EXCEPT ![p] = begun] /\ begun.run = r /\ begun.key = OwnerOf(r) /\ begun.id = minted + 1
    BY DEF BeginWrite
  <1> HIDE DEF begun
  <1>6. ASSUME NEW t \in journal, r \in t.runs, OwnerOf(r) = t.from PROVE faults > 0
    <2>1. ~t.moved
      BY <1>0, <1>6, PendingOwner, PlanParties DEF HistoryInv
    <2>2. op.at \notin {"claim", "owners", "moves", "checkpoint"}
      <3> SUFFICES ASSUME op.at \in {"claim", "owners", "moves", "checkpoint"} PROVE FALSE
        OBVIOUS
      <3>1. op.at \in Finishing /\ op.at # "lock" /\ op.plan # NoPlan
        BY <1>0 DEF Finishing, BookInv, OperationInv
      <3>2. t.runs = op.plan.runs
        BY <1>0, <3>1 DEF BookInv, OperationInv, PlanInHand, SamePlan
      <3>3. runLock[r] = Holder
        BY <1>0, <1>6, <3>1, <3>2 DEF OpLocks, Wanted
      <3> QED
        BY <1>2, <3>3, HolderIsNoWriter
    <2>3. phase \in {"gaps", "serving"}
      BY DEF Watching
    <2>4. faults # 0
      BY <2>1, <2>2, <2>3 DEF PlaceInv, Settled
    <2> QED
      BY <1>0, <2>4 DEF BoxTypes
  <1>7. Late'
    <2> SUFFICES ASSUME NEW t \in journal', NEW q \in Writers,
                        write'[q].at # "idle", write'[q].run \in t.runs, write'[q].key = t.from
                 PROVE  faults' > 0 /\ write'[q].id > t.notice[2]
      BY DEF Late
    <2>1. t \in journal /\ faults' = faults /\ t.notice[2] \in Minted
      BY <1>0, <1>2 DEF PlansInv, Frozen
    <2>2. CASE q = p
      BY <1>0, <1>5, <1>6, <2>1, <2>2 DEF Minted
    <2>3. CASE q # p
      BY <1>0, <1>5, <2>1, <2>3 DEF PlaceInv, Late
    <2> QED
      BY <2>2, <2>3
  <1> QED
    BY <1>0, <1>2, <1>4, <1>7, PlacedKept, ListedKept, MovedKept DEF PlaceInv

(* What a writer brings is with the owner of its run, whose flock it has. *)
LEMMA PlaceEnding ==
    ASSUME OwnershipInv, PlanInv, FlockInv, IdInv, PlaceInv, WritersShrink, NEW p \in Writers, Ending(p),
           UNCHANGED <<subject, owners, journal, done, carried>>, faults > 0 => faults' > 0,
           op'.at \in {"moves", "checkpoint"} => op' = op
    PROVE  Placed' /\ Listed' /\ Late' /\ Moved'
  <1>0. BookInv /\ PlansInv /\ BoxTypes /\ WriterLocks /\ Fresh
    BY DEF OwnershipInv, PlanInv, FlockInv, IdInv
  <1>1. write[p].at # "idle" /\ write[p].key \in Managers
    BY DEF Ending
  <1>2. PICK e : e = write[p].id
    OBVIOUS
  <1>3. \A k \in Managers : \A x \in unread'[k] : x \in unread[k] \/ (x = e /\ k = write[p].key)
    BY <1>2 DEF Ending, Brings
  <1>4. write[p].key = OwnerOf(write[p].run) /\ subject[e] = write[p].run /\ \A t \in journal : e \notin t.unread
    BY <1>0, <1>1, <1>2 DEF WriterLocks, Fresh
  <1>5. NewHere(write[p].key, e)
    BY <1>1, <1>2, <1>4 DEF NewHere, PlaceInv, Late
  <1>6. Stays
    BY <1>3, <1>5 DEF Stays
  <1> QED
    BY <1>0, <1>6, PlaceKept

(* What is about no run may come and go, and what is handled goes. *)
LEMMA PlaceQuiet ==
    ASSUME OwnershipInv, PlanInv, PlaceInv, write' = write,
           \A k \in Managers : \A e \in unread'[k] : e \in unread[k] \/ subject[e] = 0,
           UNCHANGED <<subject, owners, journal, done, carried>>, faults > 0 => faults' > 0,
           op'.at \in {"moves", "checkpoint"} => op' = op
    PROVE  Placed' /\ Listed' /\ Late' /\ Moved'
  <1>1. Stays /\ WritersShrink /\ BookInv /\ PlansInv
    BY DEF Stays, WritersShrink, OwnershipInv, PlanInv
  <1> QED
    BY <1>1, PlaceKept

(* The freeze lists what the source has, while no writer has a flock of    *)
(* the runs.                                                               *)
LEMMA PlaceFreeze ==
    ASSUME OwnershipInv, PlanInv, FlockInv, PlaceInv, NEW w \in Writes, Freeze(w)
    PROVE  Placed' /\ Listed' /\ Late' /\ Moved'
  <1>0. BookInv /\ BoxTypes /\ PlansInv /\ OperationInv /\ WriterLocks /\ OpLocks
    BY DEF OwnershipInv, BookInv, PlanInv, FlockInv
  <1>1. /\ op.at = "freeze" /\ NoFiles /\ Attempt(w) /\ UNCHANGED <<owners, done>>
        /\ journal' = IF w # "lost" THEN journal \cup {FrozenPlan(op.ask)} ELSE journal
        /\ Throws \/ \E q, f, t, m : Goes("claim", q, f, t, m)
    BY <1>0, FreezeEffects
  <1>2. UNCHANGED <<unread, subject, write, carried>> /\ op'.at \notin {"moves", "checkpoint"}
    BY <1>1 DEF NoFiles, Throws, NoOp, Goes
  <1>3. faults > 0 => faults' > 0
    BY <1>0, <1>1, FaultsGrow
  <1>4. CASE w = "lost"
    BY <1>1, <1>2, <1>3, <1>4, PlaceQuiet
  <1>5. CASE w # "lost"
    <2>1. op.plan = NoPlan /\ op.ask # NoAsk /\ journal = {}
      BY <1>0, <1>1 DEF OperationInv, Deciding
    <2>2. PICK p : p = FrozenPlan(op.ask)
      OBVIOUS
    <2>3. p.from = op.ask.from /\ p.runs = op.ask.runs /\ p.unread = unread[op.ask.from] /\ p.moved = FALSE
      BY <2>2 DEF FrozenPlan
    <2>4. journal' = {p}
      BY <1>1, <1>5, <2>1, <2>2
    <2>5. Placed'
      <3> SUFFICES ASSUME NEW k \in Managers, NEW e \in unread'[k], subject'[e] # 0
                   PROVE  \/ e \in carried'
                          \/ k = OwnerOf(subject[e])'
                          \/ faults' > 0 /\ WrittenAfterFreeze(e, k)'
        BY DEF Placed
      <3>1. \/ e \in carried
            \/ k = OwnerOf(subject[e])
            \/ faults > 0 /\ WrittenAfterFreeze(e, k)
        BY <1>2, <2>1 DEF PlaceInv, Placed
      <3>2. (OwnerOf(subject[e]))' = OwnerOf(subject[e]) /\ (WrittenAfterFreeze(e, k)' <=> WrittenAfterFreeze(e, k))
        BY <1>1, <1>2 DEF OwnerOf, WrittenAfterFreeze
      <3> QED
        BY <1>2, <1>3, <3>1, <3>2
    <2>6. Listed' /\ Moved'
      BY <1>2, <2>3, <2>4 DEF Listed, Moved
    <2>7. Late'
      <3> SUFFICES ASSUME NEW q \in Writers, write[q].at # "idle", write[q].run \in p.runs PROVE FALSE
        BY <1>2, <2>4 DEF Late
      <3>1. runLock[write[q].run] = Holder
        BY <1>0, <1>1, <2>1, <2>3 DEF OpLocks, Wanted, Deciding
      <3>2. runLock[write[q].run] = q
        BY <1>0 DEF WriterLocks
      <3> QED
        BY <3>1, <3>2, HolderIsNoWriter
    <2> QED
      BY <2>5, <2>6, <2>7
  <1> QED
    BY <1>4, <1>5

(* A run whose owner changes has its events with a party of the transfer.  *)
LEMMA PlaceOwners ==
    ASSUME OwnershipInv, PlanInv, OwnersInv, PlaceInv, NEW w \in Writes, WriteOwners(w)
    PROVE  Placed' /\ Listed' /\ Late' /\ Moved'
  <1>0. BoxInv /\ BookInv /\ BoxTypes /\ PlansInv /\ OperationInv /\ HistoryInv
    BY DEF OwnershipInv, BookInv, PlanInv, OwnersInv
  <1>1. PICK r : r = Least(op.todo)
    OBVIOUS
  <1>2. /\ op.at = "owners" /\ NoFiles /\ Attempt(w) /\ UNCHANGED <<journal, done>>
        /\ owners' = owners \/ owners' = [owners EXCEPT ![r] = op.plan.owners[r]]
        /\ Throws \/ \E q, f, t, m : Goes("owners", q, f, t, m)
    BY <1>0, <1>1, OwnersEffects
  <1>3. UNCHANGED <<unread, subject, write, carried>> /\ op'.at \notin {"moves", "checkpoint"}
    BY <1>2 DEF NoFiles, Throws, NoOp, Goes
  <1>4. faults > 0 => faults' > 0
    BY <1>0, <1>2, FaultsGrow
  <1>5. op.plan \in journal /\ r \in op.plan.runs
    BY <1>0, <1>1, <1>2, PlanAtHand, WriteOwnersKeepsBox DEF Finishing
  <1>6. Placed'
    <2> SUFFICES ASSUME NEW k \in Managers, NEW e \in unread'[k], subject'[e] # 0
                 PROVE  \/ e \in carried'
                        \/ k = OwnerOf(subject[e])'
                        \/ faults' > 0 /\ WrittenAfterFreeze(e, k)'
                        \/ \E p \in journal' : subject'[e] \in p.runs /\ k \in {p.from, p.to}
      BY DEF Placed
    <2>1. \/ e \in carried
          \/ k = OwnerOf(subject[e])
          \/ faults > 0 /\ WrittenAfterFreeze(e, k)
          \/ \E p \in journal : subject[e] \in p.runs /\ k \in {p.from, p.to}
      BY <1>3 DEF PlaceInv, Placed
    <2>2. WrittenAfterFreeze(e, k)' <=> WrittenAfterFreeze(e, k)
      BY <1>2, <1>3 DEF WrittenAfterFreeze
    <2>3. CASE k = OwnerOf(subject[e]) /\ subject[e] = r
      <3>1. k \in {op.plan.from, op.plan.to}
        BY <1>0, <1>5, <2>3, PendingOwner
      <3> QED
        BY <1>2, <1>3, <1>5, <2>3, <3>1
    <2>4. CASE k = OwnerOf(subject[e]) /\ subject[e] # r
      <3>1. subject[e] \in Runs
        <4>1. e \in Ids
          BY <1>0, <1>3, MintedInIds DEF BoxTypes, PlansInv, BoxInv, MailboxShape
        <4> QED
          BY <1>0, <1>3, <4>1 DEF BoxTypes
      <3>2. owners'[subject[e]] = owners[subject[e]]
        BY <1>0, <1>2, <2>4, <3>1 DEF BoxInv, MailboxShape
      <3> QED
        BY <1>3, <2>4, <3>2 DEF OwnerOf
    <2> QED
      BY <1>2, <1>3, <1>4, <2>1, <2>2, <2>3, <2>4
  <1>7. Listed' /\ Moved'
    BY <1>2, <1>3, <1>4 DEF Listed, Moved, PlaceInv
  <1>8. WritersShrink /\ JournalAlike
    BY <1>2, <1>3 DEF WritersShrink, JournalAlike, Alike
  <1> QED
    BY <1>4, <1>6, <1>7, <1>8, LateKept DEF PlaceInv

(* A moved event of the transferred runs is with the successor; any other  *)
(* is carried along.                                                       *)
LEMMA PlaceMove ==
    ASSUME OwnershipInv, PlanInv, PlaceInv, NEW w \in Writes, MoveFile(w)
    PROVE  Placed' /\ Listed' /\ Late' /\ Moved'
  <1>0. BookInv /\ BoxTypes /\ PlansInv /\ OperationInv /\ InHand
    BY DEF OwnershipInv, BookInv, PlanInv, PlansInv
  <1>1. PICK p : p = op.plan
    OBVIOUS
  <1>2. PICK e : e = Least(op.todo)
    OBVIOUS
  <1>3. op.at = "moves" /\ Attempt(w) /\ UNCHANGED <<subject, owners, write, journal, done>>
    BY <1>0, MoveEffects
  <1>4. journal = {p} /\ p.from \in Managers /\ p.to \in Managers /\ p.from # p.to /\ ~p.moved
    BY <1>0, <1>1, <1>3, PlanAtHand DEF Finishing, InHand
  <1>5. faults > 0 => faults' > 0
    BY <1>0, <1>3, FaultsGrow
  <1>6. \/ unread' = unread /\ carried' = carried
        \/ /\ e \in unread[p.from]
           /\ unread' = [unread EXCEPT ![p.from] = @ \ {e}, ![p.to] = @ \cup {e}]
           /\ carried' = IF subject[e] \in p.runs THEN carried ELSE carried \cup {e}
    BY <1>0, <1>1, <1>2, MoveEffects
  <1>7. \A k \in Managers : unread'[k] \subseteq unread[k] \cup (IF k = p.to THEN {e} ELSE {})
    BY <1>0, <1>4, <1>6 DEF BoxTypes
  <1>8. carried \subseteq carried' /\ (unread' # unread => subject[e] \in p.runs \/ e \in carried')
    BY <1>6
  <1>9. Placed'
    <2> SUFFICES ASSUME NEW k \in Managers, NEW x \in unread'[k], subject'[x] # 0
                 PROVE  \/ x \in carried'
                        \/ k = OwnerOf(subject[x])'
                        \/ faults' > 0 /\ WrittenAfterFreeze(x, k)'
                        \/ \E t \in journal' : subject'[x] \in t.runs /\ k \in {t.from, t.to}
      BY DEF Placed
    <2>1. CASE x \in unread[k]
      <3>1. \/ x \in carried
            \/ k = OwnerOf(subject[x])
            \/ faults > 0 /\ WrittenAfterFreeze(x, k)
            \/ \E t \in journal : subject[x] \in t.runs /\ k \in {t.from, t.to}
        BY <1>3, <2>1 DEF PlaceInv, Placed
      <3>2. WrittenAfterFreeze(x, k)' <=> WrittenAfterFreeze(x, k)
        BY <1>3 DEF WrittenAfterFreeze
      <3>3. OwnerOf(subject[x])' = OwnerOf(subject[x])
        BY <1>3 DEF OwnerOf
      <3> QED
        BY <1>3, <1>5, <1>8, <3>1, <3>2, <3>3
    <2>2. CASE x \notin unread[k]
      <3>1. x = e /\ k = p.to /\ unread' # unread
        BY <1>7, <2>2
      <3> QED
        BY <1>3, <1>4, <1>8, <3>1
    <2> QED
      BY <2>1, <2>2
  <1>10. unread'[p.from] \subseteq unread[p.from] /\ (unread' # unread => e \notin unread'[p.from])
    BY <1>0, <1>4, <1>6 DEF BoxTypes
  <1>11. Listed'
    BY <1>3, <1>4, <1>5, <1>10 DEF PlaceInv, Listed
  <1>12. Throws \/ (w = "ok" /\ op'.at = "moves" /\ op'.plan = p /\ op'.todo = op.todo \ {e})
    <2>1. Throws \/ (w = "ok" /\ \E m : Goes("moves", p, op.fresh, op.todo \ {e}, m))
      BY <1>0, <1>1, <1>2, MoveEffects
    <2> QED
      BY <2>1 DEF Goes
  <1>13. e \notin unread'[p.from] \/ Throws
    <2>1. w = "ok" /\ e \in unread[p.from] => unread' = [unread EXCEPT ![p.from] = @ \ {e}, ![p.to] = @ \cup {e}]
      BY <1>0, <1>1, <1>2, MoveEffects
    <2>2. w = "ok" => e \notin unread'[p.from]
      BY <1>0, <1>4, <1>10, <2>1 DEF BoxTypes
    <2> QED
      BY <1>12, <2>2
  <1>14. Moved'
    <2>1. CASE Throws
      BY <1>3, <1>4, <2>1 DEF Moved, Throws, NoOp
    <2>2. CASE op'.at = "moves" /\ op'.plan = p /\ op'.todo = op.todo \ {e} /\ e \notin unread'[p.from]
      <3>2. \A x \in p.unread \cap unread[p.from] : subject[x] = 0 \/ x \in op.todo
        BY <1>1, <1>3 DEF PlaceInv, Moved
      <3> QED
        BY <1>3, <1>4, <1>10, <2>2, <3>2 DEF Moved
    <2> QED
      BY <1>12, <1>13, <2>1, <2>2
  <1>15. WritersShrink /\ JournalAlike
    BY <1>3 DEF WritersShrink, JournalAlike, Alike
  <1> QED
    BY <1>5, <1>9, <1>11, <1>14, <1>15, LateKept DEF PlaceInv

(* The moves begin with all that was listed, and end with nothing of it at *)
(* the source.                                                             *)
LEMMA PlaceMoves ==
    ASSUME OwnershipInv, PlanInv, PlaceInv, OwnersWritten \/ MovesDone
    PROVE  Placed' /\ Listed' /\ Late' /\ Moved'
  <1>0. BookInv /\ BoxTypes /\ PlansInv /\ OperationInv /\ DurableInv
    BY DEF OwnershipInv, BookInv, PlanInv
  <1>1. op.at \in {"owners", "moves"} /\ UNCHANGED <<unread, subject, owners, write, journal, done, carried, faults>>
    BY <1>0, DecidingEffects, MovesDoneEffects DEF OnlyOp
  <1>2. PICK p : p = op.plan
    OBVIOUS
  <1>3. journal = {p} /\ WellFrozen(p)
    BY <1>0, <1>1, <1>2, PlanAtHand DEF Finishing
  <1>4. Stays /\ WritersShrink /\ JournalAlike
    BY <1>1 DEF Stays, WritersShrink, JournalAlike, Alike
  <1>5. Moved'
    <2>1. CASE OwnersWritten
      <3>1. IF p.moved THEN op'.at = "notice from" ELSE op'.at = "moves" /\ op'.plan = p /\ op'.todo = p.unread
        BY <1>0, <1>2, <2>1, DecidingEffects DEF Goes
      <3>2. op'.at # "checkpoint" /\ (op'.at = "moves" => op'.plan = p /\ op'.todo = p.unread)
        BY <3>1
      <3> QED
        BY <1>1, <3>2 DEF Moved, PlaceInv
    <2>2. CASE MovesDone
      <3>1. op.at = "moves" /\ op.todo = {} /\ op'.at = "checkpoint"
        BY <1>0, <2>2, MovesDoneEffects DEF Goes
      <3>2. \A x \in p.unread \cap unread[p.from] : subject[x] = 0
        BY <1>2, <3>1 DEF PlaceInv, Moved
      <3> QED
        BY <1>1, <1>3, <3>1, <3>2 DEF Moved
    <2> QED
      BY <2>1, <2>2
  <1> QED
    BY <1>0, <1>4, <1>5, PlacedKept, ListedKept, LateKept DEF PlaceInv, Stays

(* The plan is journaled as moved, or not. *)
LEMMA PlaceCheckpoint ==
    ASSUME OwnershipInv, PlanInv, PlaceInv, NEW w \in Writes, Checkpoint(w)
    PROVE  Placed' /\ Listed' /\ Late' /\ Moved'
  <1>0. BookInv /\ BoxTypes /\ PlansInv /\ OperationInv /\ DurableInv /\ InHand
    BY DEF OwnershipInv, BookInv, PlanInv, PlansInv
  <1>1. op.at = "checkpoint" /\ NoFiles /\ Attempt(w) /\ UNCHANGED <<owners, done>>
    BY <1>0, CheckpointEffects
  <1>10. journal' = IF w # "lost" THEN {t \in journal : t.id # op.plan.id} \cup {op.plan} ELSE journal
    BY <1>0, CheckpointEffects
  <1>11. Throws \/ Goes("notice from", op.plan, op.fresh, op.todo, op.missing)
    BY <1>0, CheckpointEffects
  <1>2. UNCHANGED <<unread, subject, write, carried>> /\ op'.at \notin {"moves", "checkpoint"}
    <2>1. op'.at \in {"idle", "notice from"}
      BY <1>11, ThrowsEnds DEF Goes
    <2> QED
      BY <1>1, <2>1 DEF NoFiles
  <1>3. faults > 0 => faults' > 0
    BY <1>0, <1>1, FaultsGrow
  <1>4. CASE journal' = journal
    BY <1>1, <1>2, <1>3, <1>4, PlaceQuiet
  <1>5. CASE journal' # journal
    <2>1. PICK p \in journal : op.plan = [p EXCEPT !.moved = TRUE]
      BY <1>0, <1>1 DEF InHand, OperationInv, Finishing
    <2>2. PICK q : q = op.plan
      OBVIOUS
    <2>3. journal = {p} /\ q.id = p.id /\ Alike(q, p)
      BY <1>0, <2>1, <2>2, MovedFields DEF DurableInv, Alike
    <2>4. journal' = {q}
      BY <1>10, <1>5, <2>2, <2>3
    <2>5. q.from = p.from /\ q.to = p.to /\ q.runs = p.runs /\ q.notice = p.notice /\ q.unread = p.unread
      BY <2>3 DEF Alike
    <2>6. Placed'
      <3> SUFFICES ASSUME NEW k \in Managers, NEW x \in unread'[k], subject'[x] # 0
                   PROVE  \/ x \in carried'
                          \/ k = OwnerOf(subject[x])'
                          \/ faults' > 0 /\ WrittenAfterFreeze(x, k)'
                          \/ subject'[x] \in q.runs /\ k \in {q.from, q.to}
        BY <2>4 DEF Placed
      <3>1. \/ x \in carried
            \/ k = OwnerOf(subject[x])
            \/ faults > 0 /\ WrittenAfterFreeze(x, k)
            \/ subject[x] \in p.runs /\ k \in {p.from, p.to}
        BY <1>2, <2>3 DEF PlaceInv, Placed
      <3>2. WrittenAfterFreeze(x, k)' <=> WrittenAfterFreeze(x, k)
        BY <1>1, <1>2 DEF WrittenAfterFreeze
      <3>3. OwnerOf(subject[x])' = OwnerOf(subject[x])
        BY <1>1, <1>2 DEF OwnerOf
      <3> QED
        BY <1>2, <1>3, <2>5, <3>1, <3>2, <3>3
    <2>7. Listed'
      BY <1>2, <1>3, <2>3, <2>4, <2>5 DEF PlaceInv, Listed
    <2>8. Moved'
      BY <1>1, <1>2, <2>3, <2>4, <2>5 DEF PlaceInv, Moved
    <2>9. WritersShrink /\ JournalAlike
      BY <1>2, <2>3, <2>4 DEF WritersShrink, JournalAlike
    <2> QED
      BY <1>3, <2>6, <2>7, <2>8, <2>9, LateKept DEF PlaceInv
  <1> QED
    BY <1>4, <1>5

(* A transfer that is done has its events with the successor, but for what *)
(* came after the freeze.                                                  *)
LEMMA PlaceMarkDone ==
    ASSUME OwnershipInv, PlanInv, OwnersInv, PlaceInv, NEW w \in Writes, MarkDone(w)
    PROVE  Placed' /\ Listed' /\ Late' /\ Moved'
  <1>0. BookInv /\ BoxTypes /\ PlansInv /\ OperationInv /\ InHand /\ HistoryInv
    BY DEF OwnershipInv, BookInv, PlanInv, PlansInv, OwnersInv
  <1>1. op.at = "retarget" /\ NoFiles /\ Attempt(w) /\ owners' = owners
    BY <1>0, MarkDoneEffects
  <1>2. PICK p : p = op.plan
    OBVIOUS
  <1>3. journal = {p} /\ p.moved
    BY <1>0, <1>1, <1>2, PlanAtHand DEF Finishing, InHand
  <1>4. /\ journal' = IF w # "lost" THEN {q \in journal : q.id # p.id} ELSE journal
        /\ done' = IF w # "lost" THEN done \cup {p} ELSE done
    BY <1>0, <1>2, MarkDoneEffects
  <1>5. Throws \/ op' = NoOp \/ Goes("replay", NoPlan, op.fresh, op.todo, op.missing)
    BY <1>0, MarkDoneEffects
  <1>6. op'.at \in {"idle", "replay"}
    BY <1>5, ThrowsEnds DEF Goes, NoOp
  <1>7. UNCHANGED <<unread, subject, write, carried>>
    BY <1>1 DEF NoFiles
  <1>8. faults > 0 => faults' > 0
    BY <1>0, <1>1, FaultsGrow
  <1>9. CASE w = "lost"
    BY <1>1, <1>4, <1>6, <1>7, <1>8, <1>9, PlaceQuiet
  <1>10. CASE w # "lost"
    <2>1. journal' = {} /\ done' = done \cup {p}
      BY <1>3, <1>4, <1>10
    <2>2. Placed'
      <3> SUFFICES ASSUME NEW k \in Managers, NEW x \in unread'[k], subject'[x] # 0
                   PROVE  \/ x \in carried'
                          \/ k = OwnerOf(subject[x])'
                          \/ faults' > 0 /\ WrittenAfterFreeze(x, k)'
        BY DEF Placed
      <3>1. \/ x \in carried
            \/ k = OwnerOf(subject[x])
            \/ faults > 0 /\ WrittenAfterFreeze(x, k)
            \/ subject[x] \in p.runs /\ k \in {p.from, p.to}
        BY <1>3, <1>7 DEF PlaceInv, Placed
      <3>2. WrittenAfterFreeze(x, k) => WrittenAfterFreeze(x, k)'
        BY <1>7, <2>1 DEF WrittenAfterFreeze
      <3>3. OwnerOf(subject[x])' = OwnerOf(subject[x])
        BY <1>1, <1>7 DEF OwnerOf
      <3>4. CASE subject[x] \in p.runs /\ k \in {p.from, p.to}
        <4>1. OwnerOf(subject[x]) = p.to
          BY <1>0, <1>3, <3>4, PendingOwner DEF HistoryInv
        <4>2. CASE k = p.from
          <5>1. x \notin p.unread
            BY <1>3, <1>7, <3>4, <4>2 DEF PlaceInv, Moved
          <5>2. faults > 0 /\ x > p.notice[2]
            BY <1>3, <1>7, <3>4, <4>2, <5>1 DEF PlaceInv, Listed
          <5>3. WrittenAfterFreeze(x, k)'
            BY <1>7, <2>1, <3>4, <4>2, <5>2 DEF WrittenAfterFreeze
          <5> QED
            BY <1>8, <5>2, <5>3
        <4> QED
          BY <3>3, <3>4, <4>1, <4>2
      <3> QED
        BY <1>7, <1>8, <3>1, <3>2, <3>3, <3>4
    <2>3. Listed' /\ Late' /\ Moved'
      BY <1>6, <2>1 DEF Listed, Late, Moved
    <2> QED
      BY <2>2, <2>3
  <1> QED
    BY <1>9, <1>10

(* A notice is about no run. *)
LEMMA PlaceNotice ==
    ASSUME OwnershipInv, PlanInv, IdInv, PlaceInv, NEW w \in Writes, NoticeFrom(w) \/ NoticeTo(w)
    PROVE  Placed' /\ Listed' /\ Late' /\ Moved'
  <1>0. BookInv /\ BoxTypes /\ PlansInv /\ OperationInv
    BY DEF OwnershipInv, BookInv, PlanInv
  <1>1. op.at \in {"notice from", "notice to"}
    BY <1>0, NoticeEffects
  <1>2. PICK p : p = op.plan
    OBVIOUS
  <1>3. p \in journal /\ p.from \in Managers /\ p.to \in Managers
    BY <1>0, <1>1, <1>2, PlanAtHand DEF Finishing
  <1>4. subject[p.notice[1]] = 0 /\ subject[p.notice[2]] = 0
    BY <1>3 DEF IdInv, NoticeIds
  <1>40. PICK e : /\ subject[e] = 0
                  /\ \E k \in Managers : NoticeStep(k, e, "notice to", w) \/ NoticeStep(k, e, "retarget", w)
    <2>1. CASE NoticeFrom(w)
      <3>1. NoticeStep(p.from, p.notice[1], "notice to", w)
        BY <1>0, <1>2, <2>1, NoticeEffects
      <3> QED
        BY <1>3, <1>4, <3>1
    <2>2. CASE NoticeTo(w)
      <3>1. NoticeStep(p.to, p.notice[2], "retarget", w)
        BY <1>0, <1>2, <2>2, NoticeEffects
      <3> QED
        BY <1>3, <1>4, <3>1
    <2> QED
      BY <2>1, <2>2
  <1>5. PICK k \in Managers : NoticeStep(k, e, "notice to", w) \/ NoticeStep(k, e, "retarget", w)
    BY <1>40
  <1>6. Attempt(w) /\ UNCHANGED <<subject, owners, write, journal, done, carried>>
    BY <1>5 DEF NoticeStep
  <1>7. unread' = unread \/ PersistRun(k, e, ~AtCap(k), w)
    BY <1>5 DEF NoticeStep
  <1>8. unread' = unread \/ unread' = [unread EXCEPT ![k] = @ \cup {e}]
    BY <1>5, <1>7, PersistRunEffects
  <1>9. \A j \in Managers : \A x \in unread'[j] : x \in unread[j] \/ subject[x] = 0
    <2>1. unread \in [Managers -> SUBSET Minted]
      BY <1>0 DEF BoxTypes
    <2>2. \A j \in Managers : unread'[j] \subseteq unread[j] \cup {e}
      BY <1>8, <2>1
    <2> QED
      BY <1>40, <2>2
  <1>10. \/ Throws
         \/ Goes("notice to", op.plan, op.fresh, op.todo, op.missing)
         \/ Goes("retarget", op.plan, op.fresh, op.todo, op.missing)
    BY <1>5 DEF NoticeStep
  <1>11. op'.at \notin {"moves", "checkpoint"}
    BY <1>10, ThrowsEnds DEF Goes
  <1>12. faults > 0 => faults' > 0
    BY <1>0, <1>6, FaultsGrow
  <1> QED
    BY <1>6, <1>9, <1>11, <1>12, PlaceQuiet

LEMMA PlaceStep ==
    ASSUME OwnershipInv, PlanInv, OwnersInv, FlockInv, IdInv, PlaceInv, [Next]_vars
    PROVE  PlaceInv'
  <1> USE DEF files, status, past, box, book
  <1> DEFINE Place == Placed /\ Listed /\ Late /\ Moved
  <1> SUFFICES Place'
    BY SettledStep DEF PlaceInv
  <1>0. /\ BookInv /\ BoxTypes /\ MailboxShape /\ PlansInv /\ OperationInv /\ WriterLocks /\ GapIds
        /\ minted \in Nat /\ Numbered
    BY DEF OwnershipInv, BookInv, BoxInv, PlanInv, PlansInv, FlockInv, IdInv, MailboxShape
  <1>1. ASSUME Else PROVE UNCHANGED <<journal, done, carried, op>>
    BY <1>1 DEF Else
  <1>2. ASSUME NEW p \in Writers, NEW r \in Runs, Watching, EventsLeft, BeginWrite(p, r), Else PROVE Place'
    BY <1>2, PlaceBegin
  <1>3. ASSUME NEW p \in Writers, Writing(p), Else PROVE Place'
    <2>1. CASE AdmitWrite(p) \/ WriteTimesOut(p)
      <3>1. WritersShrink /\ UNCHANGED <<unread, subject, owners, faults>>
        BY <1>0, <2>1, WritersGoOn
      <3>2. Stays
        BY <1>1, <1>3, <3>1 DEF Stays
      <3> QED
        BY <1>0, <1>1, <1>3, <3>1, <3>2, PlaceKept
    <2>2. ASSUME NEW w \in Writes, LandWrite(p, w) PROVE Place'
      <3>1. Ending(p) /\ WritersShrink /\ UNCHANGED <<subject, owners>>
        BY <1>0, <2>2, LandBrings
      <3>2. faults > 0 => faults' > 0
        BY <1>0, <2>2, FaultsGrow DEF LandWrite
      <3> QED
        BY <1>1, <1>3, <3>1, <3>2, PlaceEnding
    <2> QED
      BY <1>3, <2>1, <2>2 DEF Writing
  <1>4. ASSUME write' = write, UNCHANGED <<subject, owners>>, Else, faults' = faults \/ \E w \in Writes : Attempt(w),
               \A k \in Managers : \A e \in unread'[k] : e \in unread[k] \/ subject[e] = 0
        PROVE  Place'
    <2>1. faults > 0 => faults' > 0
      BY <1>0, <1>4, FaultsGrow
    <2> QED
      BY <1>1, <1>4, <2>1, PlaceQuiet
  <1>5. ASSUME NEW k \in Managers, NEW e \in unread[k], Ack(k, e), Else PROVE Place'
    <2>1. write' = write /\ UNCHANGED <<subject, owners, faults>> /\ unread' = [unread EXCEPT ![k] = @ \ {e}]
      BY <1>5 DEF Ack
    <2>2. unread \in [Managers -> SUBSET Minted]
      BY <1>0 DEF BoxTypes
    <2>3. \A j \in Managers : unread'[j] \subseteq unread[j]
      BY <2>1, <2>2
    <2> QED
      BY <1>4, <1>5, <2>1, <2>3
  <1>6. ASSUME NEW k \in Managers, NEW e, NEW w \in Writes, subject[e] = 0, Attempt(w), GapPlaced(k, e, ~AtCap(k)),
               UNCHANGED <<write, subject, owners>>, Else
        PROVE  Place'
    <2>1. unread \in [Managers -> SUBSET Minted]
      BY <1>0 DEF BoxTypes
    <2>2. unread' = unread \/ unread' = [unread EXCEPT ![k] = @ \cup {e}]
      BY <1>6 DEF GapPlaced
    <2>3. \A j \in Managers : unread'[j] \subseteq unread[j] \cup {e}
      BY <2>1, <2>2
    <2> QED
      BY <1>4, <1>6, <2>3
  <1>7. ASSUME Retrying, Else PROVE Place'
    <2>1. CASE BeginRetry \/ EndRetry \/ (\E g \in retry.todo : RetryOnDisk(g)) \/ (\E w \in Writes : ClearGap(w))
      <3>1. UNCHANGED <<unread, subject, write, owners>>
        BY <1>0, <2>1, RetryGoesOn
      <3>2. faults' = faults \/ \E w \in Writes : Attempt(w)
        BY <2>1 DEF BeginRetry, EndRetry, RetryOnDisk, ClearGap
      <3> QED
        BY <1>4, <1>7, <3>1, <3>2
    <2>2. ASSUME NEW g \in retry.todo, NEW w \in Writes, RetryWrite(g, w) PROVE Place'
      <3>1. g[1] \in Managers /\ g[2] \in gaps /\ gaps \subseteq Minted /\ Minted \subseteq Ids
        BY <1>0, MintedInIds DEF BoxTypes, GapIds
      <3>2. subject[g[2]] = 0
        <4>1. PICK e : e = g[2]
          OBVIOUS
        <4>2. e \in gaps /\ e \in Ids
          BY <3>1, <4>1
        <4> QED
          BY <1>0, <4>1, <4>2 DEF GapIds
      <3>3. GapPlaced(g[1], g[2], ~AtCap(g[1]))
        BY <1>0, <2>2, <3>1, PersistGapEffects DEF RetryWrite
      <3>4. Attempt(w) /\ UNCHANGED <<write, subject, owners>>
        BY <2>2 DEF RetryWrite
      <3> QED
        BY <1>6, <1>7, <3>1, <3>2, <3>3, <3>4
    <2> QED
      BY <1>7, <2>1, <2>2 DEF Retrying
  <1>8. ASSUME NEW k \in Managers, NEW w \in Writes, EventsLeft, WriteGap(k, w), Else PROVE Place'
    <2>1. minted' = minted + 1 /\ minted + 1 \in Ids
      BY <1>0, <1>8, MintedOneMore DEF WriteGap
    <2>2. subject[minted'] = 0
      BY <1>0, <2>1 DEF GapIds
    <2>3. GapPlaced(k, minted', ~AtCap(k))
      BY <1>0, <1>8, PersistGapEffects DEF WriteGap
    <2>4. Attempt(w) /\ UNCHANGED <<write, subject, owners>>
      BY <1>8 DEF WriteGap
    <2>5. PICK e : e = minted'
      OBVIOUS
    <2> QED
      BY <1>6, <1>8, <2>2, <2>3, <2>4, <2>5
  <1>9. ASSUME UNCHANGED <<unread, subject, write, owners, journal, done, carried, faults>>,
               op'.at \in {"moves", "checkpoint"} => op' = op
        PROVE  Place'
    BY <1>9, PlaceQuiet
  <1>10. CASE Asking
    <2>1. UNCHANGED <<unread, subject, write, owners, journal, done, carried, faults>> /\ op'.at = "replay"
      BY <1>10 DEF Asking, AskChange, AskPending, NoOp
    <2> QED
      BY <1>9, <2>1
  <1>11. CASE Idle
    BY <1>9, <1>11 DEF Idle
  <1>12. CASE Crash
    <2>1. /\ unread' = unread \/ \E p \in Writers : Ending(p)
          /\ \A p \in Writers : write'[p].at = "idle"
          /\ op' = NoOp /\ UNCHANGED <<subject, owners, faults, journal, done, carried>>
      BY <1>0, <1>12, CrashBrings
    <2>2. WritersShrink /\ op'.at \notin {"moves", "checkpoint"}
      BY <2>1 DEF WritersShrink, NoOp
    <2>3. CASE unread' = unread
      <3>1. Stays
        BY <2>1, <2>3 DEF Stays
      <3> QED
        BY <1>0, <2>2, <3>1, PlaceKept
    <2>4. ASSUME NEW p \in Writers, Ending(p) PROVE Place'
      BY <2>1, <2>2, <2>4, PlaceEnding
    <2> QED
      BY <2>1, <2>3, <2>4
  <1>13. CASE LockTimesOut \/ ReplayDone \/ LockRun \/ Verify \/ VerifyRefuses \/ LockMailboxes \/ \E p \in journal : ReplayNext(p)
    <2>1. /\ OnlyOp
          /\ Throws \/ op' = NoOp \/ \E a \in {"lock", "verified", "claim", "freeze"} : \E q, f, t, m : Goes(a, q, f, t, m)
      BY <1>0, <1>13, DecidingEffects, LockingEffects
    <2>2. op'.at \notin {"moves", "checkpoint"}
      BY <2>1, ThrowsEnds DEF Goes, NoOp
    <2> QED
      BY <1>9, <2>1, <2>2 DEF OnlyOp
  <1>14. ASSUME NEW w \in Writes, ConsumeClaim(w) PROVE Place'
    <2>1. NoFiles /\ Attempt(w) /\ UNCHANGED <<owners, journal, done>> /\ (Throws \/ \E q, f, t, m : Goes("owners", q, f, t, m))
      BY <1>0, <1>14, ClaimEffects
    <2>2. op'.at \notin {"moves", "checkpoint"}
      BY <2>1, ThrowsEnds DEF Goes
    <2>3. faults > 0 => faults' > 0
      BY <1>0, <2>1, FaultsGrow
    <2>4. UNCHANGED <<unread, subject, write, carried>>
      BY <2>1 DEF NoFiles
    <2> QED
      BY <2>1, <2>2, <2>3, <2>4, PlaceQuiet
  <1>15. CASE OpStep
    <2>1. ASSUME NEW w \in Writes,
                 Freeze(w) \/ WriteOwners(w) \/ MoveFile(w) \/ Checkpoint(w) \/ NoticeFrom(w) \/ NoticeTo(w) \/ MarkDone(w)
          PROVE  Place'
      BY <2>1, PlaceFreeze, PlaceOwners, PlaceMove, PlaceCheckpoint, PlaceNotice, PlaceMarkDone
    <2>2. CASE OwnersWritten \/ MovesDone
      BY <2>2, PlaceMoves
    <2> QED
      BY <1>13, <1>14, <1>15, <2>1, <2>2 DEF OpStep
  <1> QED
    BY <1>2, <1>3, <1>5, <1>7, <1>8, <1>10, <1>11, <1>12, <1>13, <1>15, NextCases

LEMMA PlaceInit == Init => PlaceInv
  BY DEF Init, PlaceInv, Settled, Placed, Listed, Late, Moved, NoOp

-----------------------------------------------------------------------------
(* What is lost is counted. *)
LEMMA TallyKept ==
    ASSUME BoxTypes, Tally, UNCHANGED <<refused, unlogged>>, \A k \in Managers : unpersisted'[k] \in Nat /\ unpersisted[k] <= unpersisted'[k]
    PROVE  Tally'
  <1> SUFFICES ASSUME NEW k \in Managers PROVE Cardinality(refused[k]) <= unpersisted'[k] + unlogged
    BY DEF Tally, LossesAreCounted
  <1>1. Cardinality(refused[k]) \in Nat /\ unlogged \in Nat
    BY FS_CardinalityType DEF Tally
  <1>2. Cardinality(refused[k]) <= unpersisted[k] + unlogged
    BY DEF Tally, LossesAreCounted
  <1>3. unpersisted[k] \in Nat /\ unpersisted'[k] \in Nat /\ unpersisted[k] <= unpersisted'[k]
    BY DEF BoxTypes
  <1> QED
    BY <1>1, <1>2, <1>3

(* One more loss is one more in daemon.json, or one more that is logged. *)
LEMMA TallyCounts ==
    ASSUME BoxTypes, Tally, NEW k \in Managers, NEW e, Counted(k, e)
    PROVE  Tally'
  <1>0. unpersisted \in [Managers -> Nat]
    BY DEF BoxTypes
  <1>1. CASE UNCHANGED <<refused, unpersisted, unlogged>>
    BY <1>0, <1>1, TallyKept
  <1>2. CASE /\ refused' = [refused EXCEPT ![k] = @ \cup {e}]
             /\ \/ unpersisted' = [unpersisted EXCEPT ![k] = @ + 1] /\ unlogged' = unlogged
                \/ unpersisted' = unpersisted /\ unlogged' = unlogged + 1
    <2>1. \A j \in Managers : /\ unpersisted[j] \in Nat /\ unpersisted'[j] \in Nat /\ unlogged \in Nat /\ unlogged' \in Nat
                              /\ unpersisted[j] + unlogged <= unpersisted'[j] + unlogged'
                              /\ j = k => unpersisted[j] + unlogged + 1 = unpersisted'[j] + unlogged'
      BY <1>0, <1>2 DEF Tally
    <2>2. /\ \A j \in Managers : refused'[j] = IF j = k THEN refused[j] \cup {e} ELSE refused[j]
          /\ DOMAIN refused' = Managers
      BY <1>2 DEF Tally
    <2>3. ASSUME NEW j \in Managers PROVE IsFiniteSet(refused'[j]) /\ Cardinality(refused'[j]) <= unpersisted'[j] + unlogged'
      <3>1. IsFiniteSet(refused[j]) /\ Cardinality(refused[j]) <= unpersisted[j] + unlogged
        BY DEF Tally, LossesAreCounted
      <3>2. CASE j # k
        <4>1. Cardinality(refused[j]) \in Nat
          BY <3>1, FS_CardinalityType
        <4> QED
          BY <2>1, <2>2, <3>1, <3>2, <4>1
      <3>3. CASE j = k
        <4>1. /\ IsFiniteSet(refused[j] \cup {e}) /\ Cardinality(refused[j]) \in Nat
              /\ Cardinality(refused[j] \cup {e}) \in Nat /\ Cardinality(refused[j] \cup {e}) <= Cardinality(refused[j]) + 1
          BY <3>1, AddOne
        <4>2. refused'[j] = refused[j] \cup {e}
          BY <2>2, <3>3
        <4>3. unpersisted[j] + unlogged + 1 = unpersisted'[j] + unlogged'
          BY <2>1, <3>3
        <4>4. IsFiniteSet(refused'[j])
          BY <4>1, <4>2
        <4>5. unpersisted'[j] + unlogged' \in Nat /\ unpersisted[j] + unlogged \in Nat
          BY <2>1
        <4>6. Cardinality(refused[j] \cup {e}) <= unpersisted'[j] + unlogged'
          BY <3>1, <4>1, <4>3, <4>5
        <4> QED
          BY <4>2, <4>4, <4>6
      <3> QED
        BY <3>2, <3>3
    <2> QED
      BY <2>1, <2>2, <2>3 DEF Tally, LossesAreCounted
  <1> QED
    BY <1>1, <1>2 DEF Counted

(* What has to be moved is still there, in one mailbox or the other. *)
LEMMA UnhandledKept ==
    ASSUME BookInv, PlansInv, Unhandled, faults' = 0 => faults = 0,
           \A q \in journal' : q.moved \/ q \in journal,
           \A k \in Managers : unread[k] \subseteq unread'[k]
    PROVE  Unhandled'
  <1> SUFFICES ASSUME faults = 0, NEW q \in journal, ~q.moved PROVE q.unread \subseteq unread'[q.from] \cup unread'[q.to]
    BY DEF Unhandled
  <1>1. q.from \in Managers /\ q.to \in Managers
    BY PlanParties
  <1>2. q.unread \subseteq unread[q.from] \cup unread[q.to]
    BY DEF Unhandled
  <1> QED
    BY <1>1, <1>2

LEMMA LossQuiet ==
    ASSUME OwnershipInv, PlanInv, LossInv, faults' = 0 => faults = 0,
           \A q \in journal' : q.moved \/ q \in journal,
           \A k \in Managers : unread[k] \subseteq unread'[k],
           op'.missing = {} \/ op'.missing = op.missing, Tally'
    PROVE  LossInv'
  BY UnhandledKept DEF LossInv, HandledIsNotLost, OwnershipInv, PlanInv

LEMMA TallySame ==
    ASSUME BoxTypes, Tally, UNCHANGED <<refused, unlogged, unpersisted>>
    PROVE  Tally'
  BY DEF Tally, LossesAreCounted

(* Nothing that has to be moved is handled: what serves is settled, and    *)
(* the one that moves has the index flock.                                 *)
LEMMA LossAck ==
    ASSUME OwnershipInv, PlanInv, FlockInv, PlaceInv, LossInv, NEW k \in Managers, NEW e \in unread[k], Serving, Ack(k, e), Else
    PROVE  LossInv'
  <1> USE DEF status, locks
  <1>1. index = None /\ UNCHANGED <<faults, refused, unlogged, unpersisted, journal, op>>
    BY DEF Ack, Else
  <1>2. Tally'
    BY <1>1, TallySame DEF LossInv, PlanInv
  <1>3. HandledIsNotLost'
    BY <1>1 DEF LossInv, HandledIsNotLost
  <1>4. ASSUME faults = 0, NEW p \in journal PROVE p.moved
    <2>1. op.at \notin {"claim", "owners", "moves", "checkpoint"}
      BY <1>1, HolderIsNoWriter DEF FlockInv, OpLocks, Finishing
    <2> QED
      BY <1>4, <2>1 DEF PlaceInv, Settled, Serving
  <1>5. Unhandled'
    BY <1>1, <1>4 DEF Unhandled
  <1> QED
    BY <1>2, <1>3, <1>5 DEF LossInv

(* The frozen list is what is there; a moved file is there still. *)
LEMMA LossFreeze ==
    ASSUME OwnershipInv, PlanInv, LossInv, NEW w \in Writes, Freeze(w)
    PROVE  LossInv'
  <1>0. BookInv /\ BoxTypes /\ PlansInv /\ OperationInv
    BY DEF OwnershipInv, BookInv, PlanInv
  <1>1. op.at = "freeze" /\ NoFiles /\ Attempt(w)
    BY <1>0, FreezeEffects
  <1>2. journal' = IF w # "lost" THEN journal \cup {FrozenPlan(op.ask)} ELSE journal
    BY <1>0, FreezeEffects
  <1>3. Throws \/ \E p, f, t : Goes("claim", p, f, t, op.missing)
    BY <1>0, FreezeEffects
  <1>4. op'.missing = {} \/ op'.missing = op.missing
    BY <1>3, ThrowsEnds DEF Goes
  <1>5. UNCHANGED <<unread, refused, unlogged, unpersisted>>
    BY <1>1 DEF NoFiles
  <1>6. Tally'
    BY <1>0, <1>5, TallySame DEF LossInv
  <1>7. faults' = 0 => faults = 0
    BY <1>0, <1>1, FaultsGrow
  <1>8. HandledIsNotLost'
    BY <1>4, <1>7 DEF LossInv, HandledIsNotLost
  <1>9. Unhandled'
    <2>1. FrozenPlan(op.ask).unread = unread[FrozenPlan(op.ask).from]
      BY DEF FrozenPlan
    <2>2. \A p \in journal' : p \in journal \/ p.unread = unread[p.from]
      BY <1>2, <2>1
    <2> QED
      BY <1>5, <1>7, <2>2 DEF LossInv, Unhandled
  <1> QED
    BY <1>6, <1>8, <1>9 DEF LossInv

LEMMA LossMove ==
    ASSUME OwnershipInv, PlanInv, LossInv, NEW w \in Writes, MoveFile(w)
    PROVE  LossInv'
  <1>0. BookInv /\ BoxTypes /\ PlansInv /\ OperationInv /\ InHand /\ minted \in Nat
    BY DEF OwnershipInv, BookInv, PlanInv, PlansInv, BoxInv, MailboxShape
  <1>1. PICK p : p = op.plan
    OBVIOUS
  <1>2. PICK e : e = Least(op.todo)
    OBVIOUS
  <1>3. op.at = "moves" /\ op.todo # {} /\ Attempt(w) /\ UNCHANGED <<refused, unlogged, unpersisted, journal>>
    BY <1>0, MoveEffects
  <1>4. /\ journal = {p} /\ p.from \in Managers /\ p.to \in Managers /\ p.from # p.to /\ ~p.moved
        /\ op.todo \subseteq p.unread /\ Frozen(p)
    BY <1>0, <1>1, <1>3, PlanAtHand DEF Finishing, InHand
  <1>5. \/ unread' = unread
        \/ e \in unread[p.from] /\ unread' = [unread EXCEPT ![p.from] = @ \ {e}, ![p.to] = @ \cup {e}]
    BY <1>0, <1>1, <1>2, MoveEffects
  <1>6. unread \in [Managers -> SUBSET Minted]
    BY <1>0 DEF BoxTypes
  <1>7. unread[p.from] \cup unread[p.to] \subseteq unread'[p.from] \cup unread'[p.to]
    BY <1>4, <1>5, <1>6
  <1>8. faults' = 0 => faults = 0
    BY <1>0, <1>3, FaultsGrow
  <1>9. Unhandled'
    BY <1>3, <1>4, <1>7, <1>8 DEF LossInv, Unhandled
  <1>10. Tally'
    BY <1>0, <1>3, TallySame DEF LossInv
  <1>11. HandledIsNotLost'
    <2> SUFFICES ASSUME faults' = 0 PROVE op'.missing = {}
      BY DEF HandledIsNotLost
    <2>1. op.missing = {} /\ p.unread \subseteq unread[p.from] \cup unread[p.to]
      BY <1>4, <1>8 DEF LossInv, HandledIsNotLost, Unhandled
    <2>2. op.todo \in SUBSET Nat
      BY <1>0, <1>4 DEF Frozen, Minted
    <2>3. e \in unread[p.from] \cup unread[p.to]
      BY <1>2, <1>3, <1>4, <2>1, <2>2, LeastOfNumbers
    <2>4. Throws \/ Goes("moves", p, op.fresh, op.todo \ {e},
                          IF e \in unread[p.from] \cup unread[p.to] THEN op.missing ELSE op.missing \cup {e})
      BY <1>0, <1>1, <1>2, MoveEffects
    <2>5. Throws \/ op'.missing = op.missing
      BY <2>3, <2>4 DEF Goes
    <2> QED
      BY <2>1, <2>5, ThrowsEnds
  <1> QED
    BY <1>9, <1>10, <1>11 DEF LossInv

(* The steps of the operation; only the end of the moves counts a loss. *)
LEMMA LossOp ==
    ASSUME OwnershipInv, PlanInv, LossInv, OpStep \/ LockTimesOut
    PROVE  LossInv'
  <1>0. BookInv /\ BoxTypes /\ PlansInv /\ OperationInv /\ InHand /\ Tally /\ minted \in Nat
    BY DEF OwnershipInv, BookInv, PlanInv, PlansInv, LossInv, BoxInv, MailboxShape
  <1>1. CASE LockTimesOut \/ ReplayDone \/ LockRun \/ Verify \/ VerifyRefuses \/ LockMailboxes \/ OwnersWritten
             \/ \E p \in journal : ReplayNext(p)
    <2>1. /\ OnlyOp
          /\ Throws \/ op' = NoOp \/ \E a, q, f, t : Goes(a, q, f, t, op.missing)
      BY <1>0, <1>1, DecidingEffects, LockingEffects
    <2>2. op'.missing = {} \/ op'.missing = op.missing
      BY <2>1, ThrowsEnds DEF Goes, NoOp
    <2>3. UNCHANGED <<unread, refused, unlogged, unpersisted, journal, faults>>
      BY <2>1 DEF OnlyOp
    <2> QED
      BY <1>0, <2>2, <2>3, TallySame, LossQuiet
  <1>2. ASSUME NEW w \in Writes, ConsumeClaim(w) \/ WriteOwners(w) \/ Checkpoint(w) \/ MarkDone(w) PROVE LossInv'
    <2>1. NoFiles /\ Attempt(w)
      BY <1>0, <1>2, ClaimEffects, OwnersEffects, CheckpointEffects, MarkDoneEffects
    <2>2. Throws \/ op' = NoOp \/ \E a, q, f, t : Goes(a, q, f, t, op.missing)
      BY <1>0, <1>2, ClaimEffects, OwnersEffects, CheckpointEffects, MarkDoneEffects
    <2>3. op'.missing = {} \/ op'.missing = op.missing
      BY <2>2, ThrowsEnds DEF Goes, NoOp
    <2>4. \A q \in journal' : q.moved \/ q \in journal
      <3>1. ConsumeClaim(w) \/ WriteOwners(w) => journal' = journal
        BY <1>0, ClaimEffects, OwnersEffects
      <3>2. MarkDone(w) => journal' \subseteq journal
        BY <1>0, MarkDoneEffects
      <3>3. Checkpoint(w) => op.at = "checkpoint" /\ journal' \subseteq journal \cup {op.plan}
        BY <1>0, CheckpointEffects
      <3>4. op.at = "checkpoint" => op.plan.moved
        BY <1>0 DEF InHand, OperationInv, Finishing
      <3> QED
        BY <1>2, <3>1, <3>2, <3>3, <3>4
    <2>5. faults' = 0 => faults = 0
      BY <1>0, <2>1, FaultsGrow
    <2>6. UNCHANGED <<unread, refused, unlogged, unpersisted>>
      BY <2>1 DEF NoFiles
    <2> QED
      BY <1>0, <2>3, <2>4, <2>5, <2>6, TallySame, LossQuiet
  <1>3. CASE MovesDone
    <2>1. /\ op.at = "moves" /\ UNCHANGED <<unread, faults, refused, unlogged, journal>>
          /\ unpersisted' = [unpersisted EXCEPT ![op.plan.from] = @ + Cardinality(op.missing)]
          /\ \E q, f, t : Goes("checkpoint", q, f, t, {})
      BY <1>0, <1>3, MovesDoneEffects
    <2>2. op'.missing = {}
      BY <2>1 DEF Goes
    <2>3. Cardinality(op.missing) \in Nat
      BY <1>0, MintedIsFinite DEF InHand
    <2>4. \A k \in Managers : unpersisted'[k] \in Nat /\ unpersisted[k] <= unpersisted'[k]
      <3>1. unpersisted \in [Managers -> Nat]
        BY <1>0 DEF BoxTypes
      <3> QED
        BY <2>1, <2>3, <3>1
    <2>5. Tally'
      BY <1>0, <2>1, <2>4, TallyKept
    <2> QED
      BY <2>1, <2>2, <2>5, LossQuiet
  <1>4. ASSUME NEW w \in Writes, NoticeFrom(w) \/ NoticeTo(w) PROVE LossInv'
    <2>1. op.at \in {"notice from", "notice to"}
      BY <1>0, <1>4, NoticeEffects
    <2>2. op.plan.from \in Managers /\ op.plan.to \in Managers
      BY <1>0, <2>1, PlanAtHand DEF Finishing
    <2>3. ASSUME NEW k \in Managers, NEW e, NEW next, NoticeStep(k, e, next, w) PROVE LossInv'
      <3>1. Attempt(w) /\ journal' = journal
        BY <2>3 DEF NoticeStep
      <3>2. UNCHANGED <<unread, unpersisted, refused, unlogged>> \/ PersistRun(k, e, ~AtCap(k), w)
        BY <2>3 DEF NoticeStep
      <3>3. Counted(k, e) /\ (unread' = unread \/ unread' = [unread EXCEPT ![k] = @ \cup {e}])
        BY <3>2, PersistRunEffects DEF Counted
      <3>4. Tally'
        BY <1>0, <3>3, TallyCounts
      <3>5. unread \in [Managers -> SUBSET Minted]
        BY <1>0 DEF BoxTypes
      <3>6. \A j \in Managers : unread[j] \subseteq unread'[j]
        BY <3>3, <3>5
      <3>7. Throws \/ Goes(next, op.plan, op.fresh, op.todo, op.missing)
        BY <2>3 DEF NoticeStep
      <3>8. op'.missing = {} \/ op'.missing = op.missing
        BY <3>7, ThrowsEnds DEF Goes
      <3>9. faults' = 0 => faults = 0
        BY <1>0, <3>1, FaultsGrow
      <3> QED
        BY <3>1, <3>4, <3>6, <3>8, <3>9, LossQuiet
    <2>4. NoticeStep(op.plan.from, op.plan.notice[1], "notice to", w) \/ NoticeStep(op.plan.to, op.plan.notice[2], "retarget", w)
      BY <1>0, <1>4, NoticeEffects
    <2> QED
      BY <2>2, <2>3, <2>4
  <1> QED
    BY <1>1, <1>2, <1>3, <1>4, LossFreeze, LossMove DEF OpStep

LEMMA LossStep ==
    ASSUME OwnershipInv, PlanInv, FlockInv, IdInv, PlaceInv, LossInv, [Next]_vars
    PROVE  LossInv'
  <1> USE DEF files, status, past, box, book
  <1>0. BoxTypes /\ MailboxShape /\ WriterLocks /\ GapIds /\ Tally /\ unread \in [Managers -> SUBSET Minted]
    BY DEF OwnershipInv, BoxInv, PlanInv, FlockInv, IdInv, LossInv, BoxTypes
  <1>1. ASSUME Else, Tally', \A k \in Managers : unread[k] \subseteq unread'[k], faults' = faults \/ \E w \in Writes : Attempt(w)
        PROVE  LossInv'
    <2>1. faults' = 0 => faults = 0
      BY <1>0, <1>1, FaultsGrow
    <2>2. UNCHANGED <<journal, op>>
      BY <1>1 DEF Else
    <2> QED
      BY <1>1, <2>1, <2>2, LossQuiet
  <1>2. ASSUME UNCHANGED <<unread, refused, unlogged, unpersisted>>, Else, faults' = faults \/ \E w \in Writes : Attempt(w)
        PROVE  LossInv'
    BY <1>0, <1>1, <1>2, TallySame
  <1>3. ASSUME NEW p \in Writers, NEW r \in Runs, BeginWrite(p, r), Else PROVE LossInv'
    BY <1>2, <1>3 DEF BeginWrite
  <1>4. ASSUME NEW p \in Writers, Writing(p), Else PROVE LossInv'
    <2>1. CASE AdmitWrite(p) \/ WriteTimesOut(p)
      BY <1>2, <1>4, <2>1 DEF AdmitWrite, WriteTimesOut
    <2>2. ASSUME NEW w \in Writes, LandWrite(p, w) PROVE LossInv'
      <3>1. Attempt(w) /\ PersistRun(write[p].key, write[p].id, write[p].room, w) /\ write[p].at = "scanned"
        BY <2>2 DEF LandWrite
      <3>2. write[p].key \in Managers /\ write[p].room \in BOOLEAN
        BY <1>0, <3>1 DEF MailboxShape, WriteShape
      <3>3. Counted(write[p].key, write[p].id)
        BY <3>1, <3>2, PersistRunEffects
      <3>4. Tally'
        BY <1>0, <3>2, <3>3, TallyCounts
      <3>5. \A k \in Managers : unread[k] \subseteq unread'[k]
        BY <1>0, <2>2, LandBrings DEF Ending, Brings
      <3> QED
        BY <1>1, <1>4, <3>1, <3>4, <3>5
    <2> QED
      BY <1>4, <2>1, <2>2 DEF Writing
  <1>5. ASSUME NEW k \in Managers, NEW e, NEW w \in Writes, PersistGap(k, e, ~AtCap(k), w), Attempt(w), Else
        PROVE  LossInv'
    <2>1. GapPlaced(k, e, ~AtCap(k)) /\ Counted(k, e)
      BY <1>0, <1>5, PersistGapEffects
    <2>2. unread' = unread \/ unread' = [unread EXCEPT ![k] = @ \cup {e}]
      BY <2>1 DEF GapPlaced
    <2>3. \A j \in Managers : unread[j] \subseteq unread'[j]
      BY <1>0, <2>2
    <2>4. Tally'
      BY <1>0, <2>1, TallyCounts
    <2> QED
      BY <1>1, <1>5, <2>3, <2>4
  <1>6. ASSUME Retrying, Else PROVE LossInv'
    <2>1. CASE BeginRetry \/ EndRetry \/ (\E g \in retry.todo : RetryOnDisk(g)) \/ (\E w \in Writes : ClearGap(w))
      <3>1. UNCHANGED <<unread, refused, unlogged, unpersisted>>
        BY <1>0, <2>1, RetryGoesOn
      <3>2. faults' = faults \/ \E w \in Writes : Attempt(w)
        BY <2>1 DEF BeginRetry, EndRetry, RetryOnDisk, ClearGap
      <3> QED
        BY <1>2, <1>6, <3>1, <3>2
    <2>2. ASSUME NEW g \in retry.todo, NEW w \in Writes, RetryWrite(g, w) PROVE LossInv'
      <3>1. g[1] \in Managers
        BY <1>0 DEF BoxTypes
      <3>2. PersistGap(g[1], g[2], ~AtCap(g[1]), w) /\ Attempt(w)
        BY <2>2 DEF RetryWrite
      <3> QED
        BY <1>5, <1>6, <3>1, <3>2
    <2> QED
      BY <1>6, <2>1, <2>2 DEF Retrying
  <1>7. ASSUME NEW k \in Managers, NEW w \in Writes, WriteGap(k, w), Else PROVE LossInv'
    <2>1. PICK e : e = minted'
      OBVIOUS
    <2>2. PersistGap(k, e, ~AtCap(k), w) /\ Attempt(w)
      BY <1>7, <2>1 DEF WriteGap
    <2> QED
      BY <1>5, <1>7, <2>2
  <1>8. ASSUME UNCHANGED <<refused, unlogged, unpersisted, journal, faults>>, op'.missing = {} \/ op'.missing = op.missing,
               \A k \in Managers : unread[k] \subseteq unread'[k]
        PROVE  LossInv'
    BY <1>0, <1>8, TallySame, LossQuiet
  <1>9. CASE Asking
    <2>1. UNCHANGED <<unread, refused, unlogged, unpersisted, journal, faults>> /\ op'.missing = {}
      BY <1>9 DEF Asking, AskChange, AskPending, NoOp
    <2> QED
      BY <1>8, <2>1
  <1>10. CASE Idle
    BY <1>8, <1>10 DEF Idle
  <1>11. CASE Crash
    <2>1. op' = NoOp /\ UNCHANGED <<faults, journal>> /\ (unread' = unread \/ \E p \in Writers : Ending(p))
      BY <1>0, <1>11, CrashBrings
    <2>2. UNCHANGED <<refused, unlogged, unpersisted>>
      BY <1>11 DEF Crash
    <2>3. \A k \in Managers : unread[k] \subseteq unread'[k]
      BY <2>1 DEF Ending, Brings
    <2> QED
      BY <1>8, <2>1, <2>2, <2>3 DEF NoOp
  <1> QED
    BY <1>3, <1>4, <1>6, <1>7, <1>9, <1>10, <1>11, LossAck, LossOp, NextCases

LEMMA LossInit == Init => LossInv
  <1> SUFFICES ASSUME Init PROVE LossInv
    OBVIOUS
  <1>1. \A k \in Managers : refused[k] = {} /\ unpersisted[k] = 0
    BY DEF Init
  <1>2. IsFiniteSet({}) /\ Cardinality({}) = 0
    BY FS_EmptySet
  <1> QED
    BY <1>1, <1>2 DEF Init, LossInv, Unhandled, HandledIsNotLost, Tally, LossesAreCounted, NoOp

LEMMA EventsFollow ==
    ASSUME HistoryInv, IdInv, PlaceInv, LossInv
    PROVE  EventsAreAccountedFor
  <1>1. NoEventLeftBehind
    BY DEF PlaceInv, Placed, NoEventLeftBehind
  <1> QED
    BY <1>1 DEF HistoryInv, IdInv, LossInv, Tally, EventsAreAccountedFor

(* Every event of every run is accounted for, whatever managers, runs and  *)
(* writers there are, wherever the daemon crashes and whichever writes     *)
(* fail: it is with the run's owner, in the pending transfer of the run,   *)
(* carried along by another or written after the freeze of an interrupted  *)
(* transfer; it is in one mailbox; a transfer changes the owner of each of *)
(* its runs once; no move finds a file missing unless a write failed; and  *)
(* what was refused is counted.                                            *)
THEOREM EventsAccounted == Spec => []EventsAreAccountedFor
  <1>1. OwnershipInv /\ PlanInv /\ OwnersInv /\ FlockInv /\ IdInv /\ PlaceInv /\ [Next]_vars => PlaceInv'
    BY PlaceStep
  <1>2. OwnershipInv /\ PlanInv /\ FlockInv /\ IdInv /\ PlaceInv /\ LossInv /\ [Next]_vars => LossInv'
    BY LossStep
  <1>3. OwnersInv /\ IdInv /\ PlaceInv /\ LossInv => EventsAreAccountedFor
    BY EventsFollow DEF OwnersInv
  <1> QED
    BY <1>1, <1>2, <1>3, OwnershipIsInvariant, OwnersIsInvariant, RoomIsInvariant, IdInit, IdStep, PlaceInit, LossInit, PTL DEF Spec
=============================================================================
