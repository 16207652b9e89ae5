-------------------------- MODULE OwnershipProofs --------------------------
(***************************************************************************)
(* What holds of the mailboxes and the ownership transfers for every set   *)
(* of managers, runs, writers and instructions, and for every bound on     *)
(* events, transfers, crashes and failed writes.                           *)
(***************************************************************************)
EXTENDS Ownership, TLAPS, FiniteSetTheorems, SequenceTheorems, NaturalsInduction, WellFoundedInduction

-----------------------------------------------------------------------------
(* The mailboxes. *)

(* A file is in some mailbox, unread or handled. *)
LEMMA InSomeBox ==
    ASSUME NEW u, NEW a, NEW e
    PROVE  e \in UNION {u[k] \cup a[k] : k \in Managers} <=> \E k \in Managers : e \in u[k] \/ e \in a[k]
  BY Zenon

(* An accepted event stays somewhere when no file disappears and what is   *)
(* newly accepted is on disk.                                              *)
LEMMA NothingDisappears ==
    ASSUME EventsSurvive,
           \A k \in Managers : unread[k] \subseteq unread'[k] /\ acked[k] \subseteq acked'[k],
           pruned \subseteq pruned',
           \A e \in accepted' \ accepted : \E k \in Managers : e \in unread'[k]
    PROVE  EventsSurvive'
  <1> SUFFICES ASSUME NEW e \in accepted' PROVE e \in Everywhere'
    BY DEF EventsSurvive
  <1>1. CASE e \in accepted
    <2>1. e \in pruned \/ \E k \in Managers : e \in unread[k] \/ e \in acked[k]
      BY <1>1, InSomeBox DEF EventsSurvive, Everywhere
    <2>2. e \in pruned' \/ \E k \in Managers : e \in unread'[k] \/ e \in acked'[k]
      BY <2>1
    <2>3. QED
      BY <2>2, InSomeBox DEF Everywhere
  <1>2. CASE e \notin accepted
    <2>1. \E k \in Managers : e \in unread'[k] \/ e \in acked'[k]
      BY <1>2
    <2>2. QED
      BY <2>1, InSomeBox DEF Everywhere
  <1>3. QED
    BY <1>1, <1>2

(* persistEvent only adds files, and reports persisted what it added. *)
LEMMA PersistRunAdds ==
    ASSUME MailboxShape, NEW k \in Managers, NEW e \in Nat, NEW room, NEW w, PersistRun(k, e, room, w)
    PROVE  /\ unread' \in [Managers -> SUBSET Nat]
           /\ \A j \in Managers : unread[j] \subseteq unread'[j]
           /\ \A x \in accepted' \ accepted : x \in unread'[k]
           /\ pendingGap' = pendingGap
  <1>1. CASE Land(k, e)
    BY <1>1 DEF Land, MailboxShape
  <1>2. CASE \E a \in BOOLEAN : Refuse(k, e, a) /\ unread' \in {unread, [unread EXCEPT ![k] = @ \cup {e}]}
    BY <1>2 DEF Refuse, MailboxShape
  <1>3. QED
    BY <1>1, <1>2 DEF PersistRun

(* A gap is written like a run event, or held. *)
LEMMA PersistGapAdds ==
    ASSUME MailboxShape, NEW k \in Managers, NEW e \in Nat, NEW room, NEW w, PersistGap(k, e, room, w)
    PROVE  /\ unread' \in [Managers -> SUBSET Nat]
           /\ \A j \in Managers : unread[j] \subseteq unread'[j]
           /\ \A x \in accepted' \ accepted : x \in unread'[k]
           /\ pendingGap' \in [Managers -> Nat]
  <1>1. CASE PersistRun(k, e, room, w)
    BY <1>1, PersistRunAdds DEF MailboxShape
  <1>2. CASE /\ unread' = unread /\ accepted' = accepted
             /\ pendingGap' \in {pendingGap, [pendingGap EXCEPT ![k] = e]}
    BY <1>2 DEF MailboxShape
  <1>3. QED
    BY <1>1, <1>2 DEF PersistGap

(* The owner of a run is a manager. *)
LEMMA OwnerIsManager ==
    ASSUME MailboxShape, NEW r \in Runs
    PROVE  OwnerOf(r) \in Managers
  <1>1. owners[r] \in Seq(Entry) /\ owners[r] # <<>>
    BY DEF MailboxShape, OwnerHistory
  <1>2. Len(owners[r]) \in 1..Len(owners[r])
    BY <1>1
  <1>3. owners[r][Len(owners[r])] \in Entry
    BY <1>1, <1>2
  <1>4. QED
    BY <1>3 DEF OwnerOf, Entry

(* A step that leaves the files and the reports alone loses nothing. *)
LEMMA FilesUntouched ==
    ASSUME EventsSurvive, UNCHANGED <<unread, acked, accepted, pruned>>
    PROVE  EventsSurvive'
  BY DEF EventsSurvive, Everywhere

(* Giving a writer a well-shaped place keeps the writers well shaped. *)
LEMMA WriterMoves ==
    ASSUME MailboxShape, NEW p \in Writers, NEW x \in WriteShape, x.at # "idle" => x.key \in Managers,
           write' = [write EXCEPT ![p] = x]
    PROVE  /\ write' \in [Writers -> WriteShape]
           /\ \A q \in Writers : write'[q].at # "idle" => write'[q].key \in Managers
  BY DEF MailboxShape

(* A writer's steps keep the mailboxes. *)
LEMMA WriterKeepsBox ==
    ASSUME BoxInv, NEW p \in Writers,
           \/ \E r \in Runs : BeginWrite(p, r)
           \/ AdmitWrite(p) \/ WriteTimesOut(p)
           \/ \E w \in Writes : LandWrite(p, w)
    PROVE  BoxInv'
  <1> USE DEF files, status, locks, past
  <1>1. ASSUME NEW r \in Runs, BeginWrite(p, r)
        PROVE  BoxInv'
    <2>1. OwnerOf(r) \in Managers
      BY OwnerIsManager DEF BoxInv
    <2>2. MailboxShape'
      <3>1. minted' \in Nat
        BY <1>1 DEF BeginWrite, BoxInv, MailboxShape
      <3> DEFINE begun == [at |-> "resolved", run |-> r, key |-> OwnerOf(r), id |-> minted', room |-> FALSE]
      <3>2. begun \in WriteShape /\ begun.key \in Managers
        BY <2>1, <3>1 DEF WriteShape
      <3>3. write' = [write EXCEPT ![p] = begun]
        BY <1>1 DEF BeginWrite
      <3> HIDE DEF begun
      <3>4. QED
        BY <1>1, <3>1, <3>2, <3>3, WriterMoves DEF BeginWrite, BoxInv, MailboxShape
    <2>3. EventsSurvive'
      BY <1>1, FilesUntouched DEF BeginWrite, BoxInv
    <2>4. QED
      BY <2>2, <2>3 DEF BoxInv
  <1>2. CASE AdmitWrite(p)
    <2>1. MailboxShape'
      <3> DEFINE admitted == [write[p] EXCEPT !.at = "scanned", !.room = ~AtCap(write[p].key)]
      <3>1. write[p] \in WriteShape /\ write[p].key \in Managers
        BY <1>2 DEF AdmitWrite, BoxInv, MailboxShape
      <3>2. admitted \in WriteShape /\ admitted.key \in Managers
        BY <3>1 DEF WriteShape
      <3>3. write' = [write EXCEPT ![p] = admitted]
        BY <1>2 DEF AdmitWrite
      <3> HIDE DEF admitted
      <3>4. QED
        BY <1>2, <3>2, <3>3, WriterMoves DEF AdmitWrite, BoxInv, MailboxShape
    <2>2. EventsSurvive'
      BY <1>2, FilesUntouched DEF AdmitWrite, BoxInv
    <2>3. QED
      BY <2>1, <2>2 DEF BoxInv
  <1>3. CASE WriteTimesOut(p)
    <2>1. MailboxShape'
      <3>1. NoWrite \in WriteShape /\ NoWrite.at = "idle"
        BY DEF NoWrite, WriteShape
      <3>2. QED
        BY <1>3, <3>1, WriterMoves DEF WriteTimesOut, BoxInv, MailboxShape
    <2>2. EventsSurvive'
      BY <1>3, FilesUntouched DEF WriteTimesOut, BoxInv
    <2>3. QED
      BY <2>1, <2>2 DEF BoxInv
  <1>4. ASSUME NEW w \in Writes, LandWrite(p, w)
        PROVE  BoxInv'
    <2>1. write[p].key \in Managers /\ write[p].id \in Nat
      BY <1>4 DEF LandWrite, BoxInv, MailboxShape, WriteShape
    <2>2. PersistRun(write[p].key, write[p].id, write[p].room, w)
      BY <1>4 DEF LandWrite
    <2>3. /\ unread' \in [Managers -> SUBSET Nat]
          /\ \A j \in Managers : unread[j] \subseteq unread'[j]
          /\ \A x \in accepted' \ accepted : x \in unread'[write[p].key]
          /\ pendingGap' = pendingGap
      BY <2>1, <2>2, PersistRunAdds DEF BoxInv
    <2>4. MailboxShape'
      <3>1. NoWrite \in WriteShape /\ NoWrite.at = "idle"
        BY DEF NoWrite, WriteShape
      <3>2. QED
        BY <1>4, <2>3, <3>1, WriterMoves DEF LandWrite, BoxInv, MailboxShape
    <2>5. EventsSurvive'
      BY <1>4, <2>1, <2>3, NothingDisappears DEF LandWrite, BoxInv
    <2>6. QED
      BY <2>4, <2>5 DEF BoxInv
  <1>5. QED
    BY <1>1, <1>2, <1>3, <1>4

(* ack moves a file to acked/, and the retention moves it to history. *)
LEMMA AckKeepsBox ==
    ASSUME BoxInv, NEW k \in Managers, NEW e \in unread[k], Ack(k, e)
    PROVE  BoxInv'
  <1> USE DEF files, status, locks, past
  <1> DEFINE handled == acked[k] \cup {e}
  <1>1. /\ unread' = [unread EXCEPT ![k] = @ \ {e}]
        /\ acked' = [acked EXCEPT ![k] = Newest(handled)]
        /\ pruned' = pruned \cup (handled \ Newest(handled))
        /\ UNCHANGED <<minted, pendingGap, owners, write, retry, accepted>>
    BY DEF Ack
  <1>2. Newest(handled) \subseteq handled
    BY DEF Newest
  <1>3. MailboxShape
    BY DEF BoxInv
  <1>4. handled \in SUBSET Nat
    BY <1>3 DEF MailboxShape
  <1> HIDE DEF handled
  <1>5. MailboxShape'
    BY <1>1, <1>2, <1>3, <1>4 DEF MailboxShape
  <1>6. EventsSurvive'
    <2> SUFFICES ASSUME NEW x \in accepted PROVE x \in Everywhere'
      BY <1>1 DEF EventsSurvive
    <2>1. x \in pruned \/ \E j \in Managers : x \in unread[j] \/ x \in acked[j]
      BY InSomeBox DEF BoxInv, EventsSurvive, Everywhere
    <2>2. x \in pruned' \/ \E j \in Managers : x \in unread'[j] \/ x \in acked'[j]
      <3>1. CASE x \in pruned
        BY <1>1, <3>1
      <3>2. CASE x \in handled
        BY <1>1, <1>3, <3>2 DEF MailboxShape
      <3>3. CASE x \notin handled /\ \E j \in Managers : x \in unread[j] \/ x \in acked[j]
        <4>1. PICK j \in Managers : x \in unread[j] \/ x \in acked[j]
          BY <3>3
        <4>2. x # e /\ x \notin acked[k]
          BY <3>3 DEF handled
        <4>3. x \in unread'[j] \/ x \in acked'[j]
          BY <1>1, <1>3, <4>1, <4>2 DEF MailboxShape
        <4>4. QED
          BY <4>3
      <3>4. QED
        BY <2>1, <3>1, <3>2, <3>3
    <2>3. QED
      BY <2>2, InSomeBox DEF Everywhere
  <1>7. QED
    BY <1>5, <1>6 DEF BoxInv

(* The downtime gap of a start is written, held or counted. *)
LEMMA GapKeepsBox ==
    ASSUME BoxInv, NEW k \in Managers, NEW w \in Writes, WriteGap(k, w)
    PROVE  BoxInv'
  <1> USE DEF files, status, locks, past
  <1>1. minted \in Nat /\ MailboxShape /\ EventsSurvive
    BY DEF BoxInv, MailboxShape
  <1>2. minted' \in Nat
    BY <1>1 DEF WriteGap
  <1>3. PersistGap(k, minted', ~AtCap(k), w)
    BY DEF WriteGap
  <1>4. /\ unread' \in [Managers -> SUBSET Nat]
        /\ \A j \in Managers : unread[j] \subseteq unread'[j]
        /\ \A x \in accepted' \ accepted : x \in unread'[k]
        /\ pendingGap' \in [Managers -> Nat]
    BY <1>1, <1>2, <1>3, PersistGapAdds
  <1>5. MailboxShape'
    BY <1>1, <1>2, <1>4 DEF WriteGap, MailboxShape
  <1>6. EventsSurvive'
    BY <1>1, <1>4, NothingDisappears DEF WriteGap
  <1>7. QED
    BY <1>5, <1>6 DEF BoxInv

(* The heartbeat's retry rewrites held gaps under their own names. *)
LEMMA RetryKeepsBox ==
    ASSUME BoxInv,
           \/ BeginRetry \/ EndRetry
           \/ \E g \in retry.todo : RetryOnDisk(g)
           \/ \E g \in retry.todo, w \in Writes : RetryWrite(g, w)
           \/ \E w \in Writes : ClearGap(w)
    PROVE  BoxInv'
  <1> USE DEF files, status, locks, past
  <1>0. MailboxShape /\ EventsSurvive /\ retry \in RetryShape
    BY DEF BoxInv, MailboxShape
  <1>1. CASE BeginRetry
    <2> DEFINE held == {<<k, pendingGap[k]>> : k \in {x \in Managers : pendingGap[x] # 0}}
    <2>1. held \in SUBSET (Managers \X Nat)
      BY <1>0 DEF MailboxShape
    <2>2. retry' = [NoRetry EXCEPT !.at = "next", !.todo = held]
      BY <1>1 DEF BeginRetry
    <2> HIDE DEF held
    <2>3. retry' \in RetryShape
      BY <2>1, <2>2 DEF NoRetry, RetryShape
    <2>4. MailboxShape'
      BY <1>0, <1>1, <2>3 DEF BeginRetry, MailboxShape
    <2>5. QED
      BY <1>0, <1>1, <2>4, FilesUntouched DEF BeginRetry, BoxInv
  <1>2. CASE EndRetry
    <2>1. retry' \in RetryShape
      BY <1>2 DEF EndRetry, NoRetry, RetryShape
    <2>2. MailboxShape'
      BY <1>0, <1>2, <2>1 DEF EndRetry, MailboxShape
    <2>3. QED
      BY <1>0, <1>2, <2>2, FilesUntouched DEF EndRetry, BoxInv
  <1>3. ASSUME NEW g \in retry.todo, RetryOnDisk(g)
        PROVE  BoxInv'
    <2>1. retry' \in RetryShape
      BY <1>0, <1>3 DEF RetryOnDisk, RetryShape
    <2>2. MailboxShape'
      BY <1>0, <1>3, <2>1 DEF RetryOnDisk, MailboxShape
    <2>3. QED
      BY <1>0, <1>3, <2>2, FilesUntouched DEF RetryOnDisk, BoxInv
  <1>4. ASSUME NEW g \in retry.todo, NEW w \in Writes, RetryWrite(g, w)
        PROVE  BoxInv'
    <2>1. g[1] \in Managers /\ g[2] \in Nat
      BY <1>0 DEF RetryShape
    <2>2. PersistGap(g[1], g[2], ~AtCap(g[1]), w)
      BY <1>4 DEF RetryWrite
    <2>3. /\ unread' \in [Managers -> SUBSET Nat]
          /\ \A j \in Managers : unread[j] \subseteq unread'[j]
          /\ \A x \in accepted' \ accepted : x \in unread'[g[1]]
          /\ pendingGap' \in [Managers -> Nat]
      BY <1>0, <2>1, <2>2, PersistGapAdds
    <2>4. retry' \in RetryShape
      BY <1>0, <1>4, <2>1 DEF RetryWrite, RetryShape
    <2>5. MailboxShape'
      BY <1>0, <1>4, <2>3, <2>4 DEF RetryWrite, MailboxShape
    <2>6. EventsSurvive'
      BY <1>0, <1>4, <2>1, <2>3, NothingDisappears DEF RetryWrite
    <2>7. QED
      BY <2>5, <2>6 DEF BoxInv
  <1>5. ASSUME NEW w \in Writes, ClearGap(w)
        PROVE  BoxInv'
    <2>1. retry' \in RetryShape
      BY <1>0, <1>5 DEF ClearGap, RetryShape
    <2>2. pendingGap' \in [Managers -> Nat]
      BY <1>0, <1>5 DEF ClearGap, MailboxShape
    <2>3. MailboxShape'
      BY <1>0, <1>5, <2>1, <2>2 DEF ClearGap, MailboxShape
    <2>4. QED
      BY <1>0, <1>5, <2>3, FilesUntouched DEF ClearGap, BoxInv
  <1>6. QED
    BY <1>1, <1>2, <1>3, <1>4, <1>5

(* A step that touches neither the mailboxes nor their users. *)
LEMMA BoxUntouched ==
    ASSUME BoxInv,
           UNCHANGED <<minted, unread, acked, pendingGap, owners, write, retry, accepted, pruned>>
    PROVE  BoxInv'
  BY FilesUntouched DEF BoxInv, MailboxShape

(* A set of numbers that is not empty has a first one. *)
LEMMA LeastOfNumbers ==
    ASSUME NEW S \in SUBSET Nat, S # {}
    PROVE  Least(S) \in S
  <1>1. S \subseteq Nat
    OBVIOUS
  <1> DEFINE R == OpToRel(<, Nat)
  <1>2. \A x, y \in Nat : y < x => <<y, x>> \in R
    BY DEF OpToRel
  <1>3. IsWellFoundedOn(R, Nat)
    BY NatLessThanWellFounded
  <1> HIDE DEF R
  <1>4. PICK x \in S : \A y \in S : ~(<<y, x>> \in R)
    BY <1>1, <1>3, WFMin
  <1>5. ASSUME NEW y \in S PROVE x <= y
    <2>1. x \in Nat /\ y \in Nat
      BY <1>1
    <2>2. ~(y < x)
      BY <1>2, <1>4, <2>1, Zenon
    <2>3. QED
      BY <2>1, <2>2
  <1>6. QED
    BY <1>5 DEF Least

(* And so has a set of runs, in flock order. *)
LEMMA LeastIsMember ==
    ASSUME NEW S \in SUBSET Runs, S # {}
    PROVE  Least(S) \in S
  BY MailboxAssumption, LeastOfNumbers

(* The frozen provenance is a well-formed history. *)
LEMMA WriteOwnersKeepsBox ==
    ASSUME BoxInv, BookInv, NEW w \in Writes, WriteOwners(w)
    PROVE  /\ BoxInv'
           /\ Least(op.todo) \in op.plan.runs
           /\ op.plan # NoPlan /\ WellFrozen(op.plan)
  <1> USE DEF files, status, locks, past
  <1>1. op.at = "owners" /\ op.todo # {} /\ op.plan # NoPlan /\ op.todo \subseteq op.plan.runs
    BY DEF WriteOwners, BookInv, OperationInv, Finishing
  <1>2. WellFrozen(op.plan)
    BY <1>1 DEF BookInv, OperationInv, PlanInHand, Finishing
  <1>3. Least(op.todo) \in op.plan.runs
    BY <1>1, <1>2, LeastIsMember DEF WellFrozen
  <1>4. op.plan.owners[Least(op.todo)] \in OwnerHistory /\ Least(op.todo) \in Runs
    BY <1>2, <1>3 DEF WellFrozen
  <1>5. owners' \in [Runs -> OwnerHistory]
    BY <1>4 DEF WriteOwners, BoxInv, MailboxShape
  <1>6. MailboxShape'
    BY <1>5 DEF WriteOwners, BoxInv, MailboxShape
  <1>7. EventsSurvive'
    BY FilesUntouched DEF WriteOwners, BoxInv
  <1>8. QED
    BY <1>1, <1>2, <1>3, <1>6, <1>7 DEF BoxInv

(* A rename keeps the file, at the source or at the destination. *)
LEMMA MoveFileKeepsBox ==
    ASSUME BoxInv, BookInv, NEW w \in Writes, MoveFile(w)
    PROVE  BoxInv'
  <1> USE DEF files, status, locks, past
  <1> DEFINE e == Least(op.todo)
  <1>1. op.at = "moves" /\ op.plan # NoPlan
    BY DEF MoveFile, BookInv, OperationInv, Finishing
  <1>2. op.plan.from \in Managers /\ op.plan.to \in Managers
    BY <1>1 DEF BookInv, OperationInv, PlanInHand, Finishing, WellFrozen
  <1>3. UNCHANGED <<minted, acked, pendingGap, owners, write, retry, accepted, pruned>>
    BY DEF MoveFile
  <1>4. \/ UNCHANGED unread
        \/ /\ e \in unread[op.plan.from]
           /\ unread' = [unread EXCEPT ![op.plan.from] = @ \ {e}, ![op.plan.to] = @ \cup {e}]
    BY DEF MoveFile
  <1> HIDE DEF e
  <1>5. CASE UNCHANGED unread
    BY <1>3, <1>5, BoxUntouched
  <1>6. CASE /\ e \in unread[op.plan.from]
             /\ unread' = [unread EXCEPT ![op.plan.from] = @ \ {e}, ![op.plan.to] = @ \cup {e}]
    <2>0. MailboxShape
      BY DEF BoxInv
    <2>1. e \in Nat /\ unread \in [Managers -> SUBSET Nat]
      BY <1>2, <1>6, <2>0 DEF MailboxShape
    <2>2. unread' \in [Managers -> SUBSET Nat]
      BY <1>2, <1>6, <2>1
    <2>3. \A j \in Managers : \A x \in unread[j] : \E k \in Managers : x \in unread'[k]
      <3> SUFFICES ASSUME NEW j \in Managers, NEW x \in unread[j]
                   PROVE  \E k \in Managers : x \in unread'[k]
        OBVIOUS
      <3>1. CASE x = e
        <4>1. x \in unread'[op.plan.to]
          BY <1>2, <1>6, <2>1, <3>1
        <4>2. QED
          BY <1>2, <4>1
      <3>2. CASE x # e
        <4>1. x \in unread'[j]
          BY <1>2, <1>6, <2>1, <3>2
        <4>2. QED
          BY <4>1
      <3>3. QED
        BY <3>1, <3>2
    <2>4. MailboxShape'
      BY <1>3, <2>0, <2>2 DEF MailboxShape
    <2>5. EventsSurvive'
      <3> SUFFICES ASSUME NEW x \in accepted PROVE x \in Everywhere'
        BY <1>3 DEF EventsSurvive
      <3>1. x \in pruned \/ \E j \in Managers : x \in unread[j] \/ x \in acked[j]
        BY InSomeBox DEF BoxInv, EventsSurvive, Everywhere
      <3>2. x \in pruned' \/ \E j \in Managers : x \in unread'[j] \/ x \in acked'[j]
        BY <1>3, <2>3, <3>1
      <3>3. QED
        BY <3>2, InSomeBox DEF Everywhere
    <2>6. QED
      BY <2>4, <2>5 DEF BoxInv
  <1>7. QED
    BY <1>4, <1>5, <1>6

(* A notice is an event like any other. *)
LEMMA NoticeKeepsBox ==
    ASSUME BoxInv, BookInv, NEW w \in Writes, NoticeFrom(w) \/ NoticeTo(w)
    PROVE  BoxInv'
  <1> USE DEF files, status, locks, past
  <1>1. op.plan # NoPlan /\ op.at \in Finishing
    BY DEF NoticeFrom, NoticeTo, BookInv, OperationInv, Finishing
  <1>2. op.plan.from \in Managers /\ op.plan.to \in Managers /\ op.plan.notice \in Nat \X Nat
    BY <1>1 DEF BookInv, OperationInv, PlanInHand, WellFrozen
  <1>3. ASSUME NEW from, NEW next, NEW key \in Managers, NEW id \in Nat, Notice(from, key, id, next, w)
        PROVE  BoxInv'
    <2>1. CASE UNCHANGED <<unread, status, accepted>>
      BY <1>3, <2>1, BoxUntouched DEF Notice
    <2>2. CASE PersistRun(key, id, ~AtCap(key), w)
      <3>1. /\ unread' \in [Managers -> SUBSET Nat]
            /\ \A j \in Managers : unread[j] \subseteq unread'[j]
            /\ \A x \in accepted' \ accepted : x \in unread'[key]
            /\ pendingGap' = pendingGap
        BY <2>2, PersistRunAdds DEF BoxInv
      <3>2. MailboxShape'
        BY <1>3, <3>1 DEF Notice, BoxInv, MailboxShape
      <3>3. EventsSurvive'
        BY <1>3, <3>1, NothingDisappears DEF Notice, BoxInv
      <3>4. QED
        BY <3>2, <3>3 DEF BoxInv
    <2>3. QED
      BY <1>3, <2>1, <2>2 DEF Notice
  <1>4. QED
    BY <1>2, <1>3 DEF NoticeFrom, NoticeTo

(* A crash forgets the writers and the retry; what they linked stays. *)
LEMMA CrashKeepsBox ==
    ASSUME BoxInv, Crash
    PROVE  BoxInv'
  <1> USE DEF files, status, locks, past
  <1>0. MailboxShape
    BY DEF BoxInv
  <1>1. PICK linked \in SUBSET {p \in Writers : write[p].at = "scanned" /\ write[p].room} :
            unread' = [k \in Managers |-> unread[k] \cup {write[p].id : p \in {q \in linked : write[q].key = k}}]
    BY DEF Crash
  <1>2. \A p \in Writers : write[p].id \in Nat
    BY <1>0 DEF MailboxShape, WriteShape
  <1>3. /\ unread' \in [Managers -> SUBSET Nat]
        /\ \A j \in Managers : unread[j] \subseteq unread'[j]
    BY <1>0, <1>1, <1>2 DEF MailboxShape
  <1>4. NoWrite \in WriteShape /\ NoWrite.at = "idle" /\ NoRetry \in RetryShape
    BY DEF NoWrite, WriteShape, NoRetry, RetryShape
  <1>5. MailboxShape'
    BY <1>0, <1>3, <1>4 DEF Crash, MailboxShape
  <1>6. EventsSurvive'
    BY <1>0, <1>3, NothingDisappears DEF Crash, BoxInv
  <1>7. QED
    BY <1>5, <1>6 DEF BoxInv

-----------------------------------------------------------------------------
(* The journal and the operation. *)

(* A step that leaves the durable book alone. *)
LEMMA DurableUntouched ==
    ASSUME DurableInv, UNCHANGED <<claims, journal, done, owners>>
    PROVE  DurableInv'
  BY DEF DurableInv, WellFrozen, Follows, Spends

(* An operation that ended, however it ended, relies on nothing. *)
LEMMA Resting ==
    ASSUME op' = NoOp
    PROVE  OperationInv'
  BY DEF OperationInv, NoOp, NoAsk, NoPlan, Deciding, Finishing

(* A frozen plan is a plan. *)
LEMMA FrozenIsPlan ==
    ASSUME NEW p, WellFrozen(p)
    PROVE  p # NoPlan
  BY DEF WellFrozen, NoPlan

(* movesComplete changes nothing else of the plan. *)
LEMMA MovedIsPlan ==
    ASSUME NEW p, WellFrozen(p)
    PROVE  LET q == [p EXCEPT !.moved = TRUE]
           IN  SamePlan(q, p) /\ WellFrozen(q) /\ q # NoPlan
  <1> DEFINE q == [p EXCEPT !.moved = TRUE]
  <1>1. p = [id |-> p.id, from |-> p.from, to |-> p.to, runs |-> p.runs, incident |-> p.incident, owners |-> p.owners,
             unread |-> p.unread, notice |-> p.notice, moved |-> p.moved]
    BY DEF WellFrozen
  <1> DEFINE Fields == {"id", "from", "to", "runs", "incident", "owners", "unread", "notice", "moved"}
  <1>2. DOMAIN q = Fields /\ q = [x \in Fields |-> q[x]] /\ q.moved = TRUE /\ \A x \in Fields \ {"moved"} : q[x] = p[x]
    <2>1. DOMAIN p = Fields
      BY <1>1
    <2>2. QED
      BY <2>1
  <1> HIDE DEF q
  <1>3. q = [id |-> p.id, from |-> p.from, to |-> p.to, runs |-> p.runs, incident |-> p.incident, owners |-> p.owners,
             unread |-> p.unread, notice |-> p.notice, moved |-> TRUE]
    BY <1>2
  <1>4. SamePlan(q, p) /\ WellFrozen(q)
    BY <1>3 DEF SamePlan, WellFrozen
  <1>5. QED
    BY <1>4, FrozenIsPlan DEF q

(* The plan in hand stays the pending one. *)
LEMMA PlanKept ==
    ASSUME PlanInHand, op'.plan = op.plan, UNCHANGED <<journal, done, owners>>
    PROVE  PlanInHand'
  BY DEF PlanInHand, WellFrozen, Follows, Spends, SamePlan

(* The whole book is left alone. *)
LEMMA BookUntouched ==
    ASSUME BookInv, UNCHANGED <<claims, journal, done, owners, op>>
    PROVE  BookInv'
  <1>1. DurableInv'
    BY DurableUntouched DEF BookInv
  <1>2. PlanInHand => PlanInHand'
    BY PlanKept
  <1>3. OperationInv'
    BY <1>2 DEF BookInv, OperationInv, WellAsked
  <1>4. QED
    BY <1>1, <1>3 DEF BookInv

(* An operation that ends without touching the book. *)
LEMMA BookRests ==
    ASSUME BookInv, op' = NoOp, UNCHANGED <<claims, journal, done, owners>>
    PROVE  BookInv'
  BY Resting, DurableUntouched DEF BookInv

(* A step of finish after the first, with the plan and the book unchanged. *)
LEMMA FinishGoesOn ==
    ASSUME BookInv, UNCHANGED <<claims, journal, done, owners>>,
           op.at \in Finishing \ {"claim"}, op'.at \in Finishing \ {"claim"},
           op' = [at |-> op'.at, ask |-> op.ask, plan |-> op.plan, fresh |-> op'.fresh, todo |-> op'.todo,
                  missing |-> op'.missing],
           op'.at = "owners" => op'.todo \subseteq op.plan.runs
    PROVE  BookInv'
  <1>1. DurableInv'
    BY DurableUntouched DEF BookInv
  <1>2. op.plan # NoPlan /\ PlanInHand
    BY DEF BookInv, OperationInv, Finishing
  <1>3. op'.plan = op.plan /\ op'.ask = op.ask
    OBVIOUS
  <1>4. PlanInHand'
    BY <1>2, <1>3, PlanKept
  <1>5. OperationInv'
    BY <1>2, <1>3, <1>4 DEF BookInv, OperationInv, WellAsked, Finishing, Deciding
  <1>6. QED
    BY <1>1, <1>5 DEF BookInv

(* Requests: a new instruction is one nobody has used; what is asked is    *)
(* well formed.                                                            *)
LEMMA AsksKeepBook ==
    ASSUME BookInv,
           \/ \E i \in Incidents, from, to \in Managers, S \in SUBSET Runs : Instruct(i, from, to, S)
           \/ \E from, to \in Managers, S \in SUBSET Runs, i \in Incidents \cup {None} : AskChange(from, to, S, i)
           \/ AskPending
    PROVE  BookInv'
  <1> USE DEF book, box
  <1>1. ASSUME NEW i \in Incidents, NEW from \in Managers, NEW to \in Managers, NEW S \in SUBSET Runs,
               Instruct(i, from, to, S)
        PROVE  BookInv'
    <2> DEFINE c == [state |-> "open", from |-> from, to |-> to, runs |-> S]
    <2>1. /\ claims[i] = NoClaim
          /\ claims' = [claims EXCEPT ![i] = c]
          /\ UNCHANGED <<journal, done, owners, op>>
      BY <1>1 DEF Instruct
    <2>2. c \in ClaimShape /\ c.state = "open"
      BY DEF ClaimShape
    <2>3. claims \in [Incidents -> ClaimShape]
      BY DEF BookInv, DurableInv
    <2> HIDE DEF c
    <2>4. claims' \in [Incidents -> ClaimShape]
      BY <2>1, <2>2, <2>3
    <2>5. claims[i].state = "absent"
      BY <2>1 DEF NoClaim
    <2>6. \A j \in Incidents : claims[j].state \in {"open", "used"} => claims'[j] = claims[j]
      BY <2>1, <2>3, <2>5
    <2>7. DurableInv'
      BY <2>1, <2>4, <2>6 DEF BookInv, DurableInv, WellFrozen, Follows, Spends
    <2>8. PlanInHand => PlanInHand'
      BY <2>1, PlanKept
    <2>9. /\ op.at \in {"verified", "freeze"} => op.ask.incident \in Incidents \cup {None}
          /\ op.at \in Finishing => op.plan.incident \in Incidents \cup {None}
      BY DEF BookInv, OperationInv, PlanInHand, WellAsked, WellFrozen, Deciding
    <2>10. OperationInv'
      BY <2>1, <2>6, <2>8, <2>9 DEF BookInv, OperationInv, WellAsked
    <2>11. QED
      BY <2>7, <2>10 DEF BookInv
  <1>2. ASSUME NEW from \in Managers, NEW to \in Managers, NEW S \in SUBSET Runs, NEW i \in Incidents \cup {None},
               AskChange(from, to, S, i)
        PROVE  BookInv'
    <2> DEFINE a == [from |-> from, to |-> to, runs |-> S, incident |-> i]
    <2>1. op' = [NoOp EXCEPT !.at = "replay", !.ask = a] /\ UNCHANGED <<claims, journal, done, owners>>
      BY <1>2 DEF AskChange
    <2>2. WellAsked(a)
      BY DEF WellAsked
    <2> HIDE DEF a
    <2>3. op' = [at |-> "replay", ask |-> a, plan |-> NoPlan, fresh |-> FALSE, todo |-> {}, missing |-> {}]
      BY <2>1 DEF NoOp
    <2>4. OperationInv'
      BY <2>2, <2>3 DEF OperationInv, Deciding, Finishing, WellAsked
    <2>5. QED
      BY <2>1, <2>4, DurableUntouched DEF BookInv
  <1>3. CASE AskPending
    <2>1. op' = [at |-> "replay", ask |-> NoAsk, plan |-> NoPlan, fresh |-> FALSE, todo |-> {}, missing |-> {}]
      BY <1>3 DEF AskPending, NoOp
    <2>2. OperationInv'
      BY <2>1 DEF OperationInv, Deciding, Finishing
    <2>3. QED
      BY <1>3, <2>2, DurableUntouched DEF AskPending, BookInv
  <1>4. QED
    BY <1>1, <1>2, <1>3

(* The replay loop and the decision, up to the index flock. *)
LEMMA DecidingKeepsBook ==
    ASSUME BookInv,
           \/ \E p \in journal : ReplayNext(p)
           \/ ReplayDone \/ LockRun \/ LockTimesOut \/ Verify \/ VerifyRefuses \/ LockMailboxes
    PROVE  BookInv'
  <1> USE DEF book, box, Continue, Abort
  <1>0. op = [at |-> op.at, ask |-> op.ask, plan |-> op.plan, fresh |-> op.fresh, todo |-> op.todo, missing |-> op.missing]
    BY DEF BookInv, OperationInv
  <1>1. ASSUME NEW p \in journal, ReplayNext(p)
        PROVE  BookInv'
    <2>1. op' = [at |-> "lock", ask |-> op.ask, plan |-> p, fresh |-> op.fresh, todo |-> p.runs, missing |-> op.missing]
      BY <1>0, <1>1 DEF ReplayNext
    <2>2. UNCHANGED <<claims, journal, done, owners>>
      BY <1>1 DEF ReplayNext
    <2>3. DurableInv'
      BY <2>2, DurableUntouched DEF BookInv
    <2>4. p # NoPlan
      BY FrozenIsPlan DEF BookInv, DurableInv
    <2>5. PlanInHand'
      BY <2>1, <2>2, <2>3 DEF DurableInv, PlanInHand, SamePlan
    <2>6. OperationInv'
      BY <2>1, <2>4, <2>5 DEF BookInv, OperationInv, Deciding, Finishing, WellAsked
    <2>7. QED
      BY <2>3, <2>6 DEF BookInv
  <1>2. CASE ReplayDone
    <2>1. UNCHANGED <<claims, journal, done, owners>> /\ journal = {}
      BY <1>2 DEF ReplayDone
    <2>2. CASE op.ask = NoAsk
      BY <1>2, <2>1, <2>2, BookRests DEF ReplayDone
    <2>3. CASE op.ask # NoAsk
      <3>1. op' = [at |-> "lock", ask |-> op.ask, plan |-> op.plan, fresh |-> op.fresh, todo |-> op.ask.runs,
                   missing |-> op.missing]
        BY <1>0, <1>2, <2>3 DEF ReplayDone
      <3>2. op.plan = NoPlan
        BY <1>2 DEF ReplayDone, BookInv, OperationInv
      <3>3. OperationInv'
        BY <2>1, <2>3, <3>1, <3>2 DEF BookInv, OperationInv, Deciding, Finishing, WellAsked
      <3>4. QED
        BY <2>1, <3>3, DurableUntouched DEF BookInv
    <2>4. QED
      BY <2>2, <2>3
  <1>3. CASE LockRun
    <2>1. \E t : op' = [op EXCEPT !.todo = t]
      BY <1>3 DEF LockRun
    <2>2. PICK t : op' = [at |-> op.at, ask |-> op.ask, plan |-> op.plan, fresh |-> op.fresh, todo |-> t, missing |-> op.missing]
      BY <1>0, <2>1
    <2>3. UNCHANGED <<claims, journal, done, owners>> /\ op.at = "lock"
      BY <1>3 DEF LockRun
    <2>4. PlanInHand => PlanInHand'
      BY <2>2, <2>3, PlanKept
    <2>5. OperationInv'
      BY <2>2, <2>3, <2>4 DEF BookInv, OperationInv, Deciding, Finishing, WellAsked
    <2>6. QED
      BY <2>3, <2>5, DurableUntouched DEF BookInv
  <1>4. CASE LockTimesOut
    BY <1>4, BookRests DEF LockTimesOut
  <1>5. CASE Verify
    <2>1. op' = [at |-> "verified", ask |-> op.ask, plan |-> op.plan, fresh |-> op.fresh, todo |-> op.todo,
                 missing |-> op.missing]
      BY <1>0, <1>5 DEF Verify
    <2>2. UNCHANGED <<claims, journal, done, owners>> /\ op.at = "lock" /\ op.plan = NoPlan
      BY <1>5 DEF Verify
    <2>3. op.ask.incident # None => claims[op.ask.incident].state = "open"
      BY <1>5 DEF Verify, Authorized
    <2>4. OperationInv'
      BY <2>1, <2>2, <2>3 DEF BookInv, OperationInv, Deciding, Finishing, WellAsked
    <2>5. QED
      BY <2>2, <2>4, DurableUntouched DEF BookInv
  <1>6. CASE VerifyRefuses
    BY <1>6, BookRests DEF VerifyRefuses
  <1>7. CASE LockMailboxes
    <2>1. op' = [at |-> IF op.plan # NoPlan THEN "claim" ELSE "freeze", ask |-> op.ask, plan |-> op.plan,
                 fresh |-> op.fresh, todo |-> op.todo, missing |-> op.missing]
      BY <1>0, <1>7 DEF LockMailboxes
    <2>2. UNCHANGED <<claims, journal, done, owners>>
      BY <1>7 DEF LockMailboxes
    <2>3. (op.at = "lock" /\ op.plan # NoPlan) \/ (op.at = "verified" /\ op.plan = NoPlan)
      <3>1. (op.at = "lock" /\ op.plan # NoPlan) \/ op.at = "verified"
        BY <1>7 DEF LockMailboxes
      <3>2. op.at = "verified" => op.plan = NoPlan
        BY DEF BookInv, OperationInv
      <3>3. QED
        BY <3>1, <3>2
    <2>4. PlanInHand => PlanInHand'
      BY <2>1, <2>2, PlanKept
    <2>5. OperationInv'
      BY <2>1, <2>2, <2>3, <2>4 DEF BookInv, OperationInv, Deciding, Finishing, WellAsked
    <2>6. QED
      BY <2>2, <2>5, DurableUntouched DEF BookInv
  <1>8. QED
    BY <1>1, <1>2, <1>3, <1>4, <1>5, <1>6, <1>7

(* The steps of finish that leave the book alone. *)
LEMMA MovesKeepBook ==
    ASSUME BookInv,
           \/ OwnersWritten \/ MovesDone
           \/ \E w \in Writes : MoveFile(w) \/ NoticeFrom(w) \/ NoticeTo(w)
    PROVE  BookInv'
  <1> USE DEF book, box, Continue, Abort
  <1>0. op = [at |-> op.at, ask |-> op.ask, plan |-> op.plan, fresh |-> op.fresh, todo |-> op.todo, missing |-> op.missing]
    BY DEF BookInv, OperationInv
  <1>1. CASE OwnersWritten
    <2>1. UNCHANGED <<claims, journal, done, owners>> /\ op.at = "owners"
      BY <1>1 DEF OwnersWritten
    <2>2. CASE op.plan.moved
      <3>1. op' = [op EXCEPT !.at = "notice from"]
        BY <1>1, <2>2 DEF OwnersWritten
      <3>2. op' = [at |-> "notice from", ask |-> op.ask, plan |-> op.plan, fresh |-> op.fresh, todo |-> op.todo, missing |-> op.missing]
        BY <1>0, <3>1
      <3>3. QED
        BY <2>1, <3>2, FinishGoesOn DEF Finishing
    <2>3. CASE ~op.plan.moved
      <3>1. op' = [op EXCEPT !.at = "moves", !.todo = op.plan.unread]
        BY <1>1, <2>3 DEF OwnersWritten
      <3>2. op' = [at |-> "moves", ask |-> op.ask, plan |-> op.plan, fresh |-> op.fresh, todo |-> op.plan.unread, missing |-> op.missing]
        BY <1>0, <3>1
      <3>3. QED
        BY <2>1, <3>2, FinishGoesOn DEF Finishing
    <2>4. QED
      BY <2>2, <2>3
  <1>2. ASSUME NEW w \in Writes, MoveFile(w)
        PROVE  BookInv'
    <2>1. UNCHANGED <<claims, journal, done, owners>> /\ op.at = "moves"
      BY <1>2 DEF MoveFile
    <2>2. CASE w = "ok"
      <3>1. \E t, m : op' = [op EXCEPT !.todo = t, !.missing = m]
        BY <1>2, <2>2 DEF MoveFile
      <3>2. PICK t, m : op' = [at |-> op.at, ask |-> op.ask, plan |-> op.plan, fresh |-> op.fresh, todo |-> t, missing |-> m]
        BY <1>0, <3>1
      <3>3. QED
        BY <2>1, <3>2, FinishGoesOn DEF Finishing
    <2>3. CASE w # "ok"
      BY <1>2, <2>1, <2>3, BookRests DEF MoveFile
    <2>4. QED
      BY <2>2, <2>3
  <1>3. CASE MovesDone
    <2> DEFINE q == [op.plan EXCEPT !.moved = TRUE]
    <2>1. UNCHANGED <<claims, journal, done, owners>> /\ op.at = "moves"
      BY <1>3 DEF MovesDone
    <2>2. op.plan # NoPlan /\ PlanInHand
      BY <2>1 DEF BookInv, OperationInv, Finishing
    <2>3. WellFrozen(op.plan)
      BY <2>2 DEF PlanInHand
    <2>5. op' = [at |-> "checkpoint", ask |-> op.ask, plan |-> q, fresh |-> op.fresh, todo |-> op.todo, missing |-> {}]
      BY <1>0, <1>3 DEF MovesDone
    <2> HIDE DEF q
    <2>6. SamePlan(q, op.plan) /\ WellFrozen(q) /\ q # NoPlan
      BY <2>3, MovedIsPlan DEF q
    <2>7. PlanInHand'
      BY <2>1, <2>2, <2>5, <2>6 DEF PlanInHand, SamePlan, WellFrozen, Follows, Spends
    <2>8. OperationInv'
      BY <2>1, <2>5, <2>6, <2>7 DEF BookInv, OperationInv, Deciding, Finishing, WellAsked, SamePlan
    <2>9. QED
      BY <2>1, <2>8, DurableUntouched DEF BookInv
  <1>4. ASSUME NEW w \in Writes, NoticeFrom(w) \/ NoticeTo(w)
        PROVE  BookInv'
    <2>1. UNCHANGED <<claims, journal, done, owners>> /\ op.at \in {"notice from", "notice to"}
      BY <1>4 DEF NoticeFrom, NoticeTo, Notice
    <2>2. op' = NoOp \/ \E a \in {"notice to", "retarget"} : op' = [op EXCEPT !.at = a]
      BY <1>4 DEF NoticeFrom, NoticeTo, Notice
    <2>3. CASE op' = NoOp
      BY <2>1, <2>3, BookRests
    <2>4. ASSUME NEW a \in {"notice to", "retarget"}, op' = [op EXCEPT !.at = a]
          PROVE  BookInv'
      <3>1. op' = [at |-> a, ask |-> op.ask, plan |-> op.plan, fresh |-> op.fresh, todo |-> op.todo, missing |-> op.missing]
        BY <1>0, <2>4
      <3>2. QED
        BY <2>1, <3>1, FinishGoesOn DEF Finishing
    <2>5. QED
      BY <2>2, <2>3, <2>4
  <1>5. QED
    BY <1>1, <1>2, <1>3, <1>4

(* Appending an owner entry keeps a history and what came before. *)
LEMMA AppendOwner ==
    ASSUME NEW h \in OwnerHistory, NEW e \in Entry
    PROVE  /\ Append(h, e) \in OwnerHistory
           /\ Append(h, e) = Append(h, Append(h, e)[Len(Append(h, e))])
  <1>1. h \in Seq(Entry)
    BY DEF OwnerHistory
  <1>2. /\ Append(h, e) \in Seq(Entry) /\ Append(h, e) # <<>>
        /\ Len(Append(h, e)) = Len(h) + 1 /\ Append(h, e)[Len(h) + 1] = e
    BY <1>1, AppendProperties
  <1>3. QED
    BY <1>2 DEF OwnerHistory

(* The plan a request freezes, on the empty journal it decided on. *)
LEMMA FrozenPlanIsWell ==
    ASSUME BoxInv, BookInv, op.at = "freeze"
    PROVE  /\ WellFrozen(FrozenPlan(op.ask)) /\ Follows(FrozenPlan(op.ask)) /\ Spends(FrozenPlan(op.ask))
           /\ journal = {} /\ op.plan = NoPlan
           /\ FrozenPlan(op.ask).incident = op.ask.incident
  <1> DEFINE a == op.ask
             id == Transfers + 1
             entry == [session |-> a.to, by |-> id]
             p == FrozenPlan(op.ask)
  <1>1. journal = {} /\ op.plan = NoPlan /\ WellAsked(a)
    BY DEF BookInv, OperationInv, Deciding
  <1>2. id \in Nat \ {0}
    <2>1. Cardinality(done) \in Nat
      BY FS_CardinalityType DEF BookInv, DurableInv
    <2>2. Cardinality(journal) = 0
      BY <1>1, FS_EmptySet
    <2>3. QED
      BY <2>1, <2>2 DEF Transfers
  <1>3. entry \in Entry
    BY <1>1, <1>2 DEF WellAsked, Entry
  <1>4. p = [id |-> id, from |-> a.from, to |-> a.to, runs |-> a.runs, incident |-> a.incident,
             owners |-> [r \in a.runs |-> Append(owners[r], entry)],
             unread |-> unread[a.from], notice |-> <<minted + 1, minted + 2>>, moved |-> FALSE]
    BY DEF FrozenPlan
  <1> HIDE DEF entry, id, p
  <1>5. \A r \in a.runs : owners[r] \in OwnerHistory
    BY <1>1 DEF BoxInv, MailboxShape, WellAsked
  <1>6. \A r \in a.runs : /\ Append(owners[r], entry) \in OwnerHistory
                         /\ LET h == Append(owners[r], entry) IN h = Append(owners[r], h[Len(h)])
    BY <1>3, <1>5, AppendOwner
  <1>7. minted \in Nat
    BY DEF BoxInv, MailboxShape
  <1>8. p.owners = [r \in a.runs |-> Append(owners[r], entry)] /\ p.runs = a.runs /\ p.incident = a.incident
    BY <1>4
  <1>9. WellFrozen(p)
    <2>1. p.owners \in [p.runs -> OwnerHistory]
      BY <1>6, <1>8
    <2>2. p.notice \in Nat \X Nat
      BY <1>4, <1>7
    <2>3. /\ p.id \in Nat \ {0} /\ p.from \in Managers /\ p.to \in Managers
          /\ p.runs \in SUBSET Runs /\ p.incident \in Incidents \cup {None}
      BY <1>1, <1>2, <1>4 DEF WellAsked
    <2>4. p = [id |-> p.id, from |-> p.from, to |-> p.to, runs |-> p.runs, incident |-> p.incident, owners |-> p.owners,
               unread |-> p.unread, notice |-> p.notice, moved |-> p.moved]
      BY <1>4
    <2>5. QED
      BY <2>1, <2>2, <2>3, <2>4 DEF WellFrozen
  <1>10. Follows(p)
    BY <1>6, <1>8 DEF Follows
  <1>11. Spends(p)
    BY <1>1, <1>8 DEF Spends, BookInv, OperationInv, DurableInv, WellAsked
  <1>12. QED
    BY <1>1, <1>8, <1>9, <1>10, <1>11 DEF p

(* The freeze journals the plan; it may land and be reported failed. *)
LEMMA FreezeKeepsInv ==
    ASSUME BoxInv, BookInv, NEW w \in Writes, Freeze(w)
    PROVE  BoxInv' /\ BookInv'
  <1> USE DEF files, status, locks, past, Continue, Abort
  <1>0. PICK p : p = FrozenPlan(op.ask)
    OBVIOUS
  <1>1. /\ WellFrozen(p) /\ Follows(p) /\ Spends(p) /\ journal = {} /\ op.plan = NoPlan
        /\ p.incident = op.ask.incident
    BY <1>0, FrozenPlanIsWell DEF Freeze
  <1>2. UNCHANGED <<unread, acked, pendingGap, owners, write, retry, accepted, pruned, claims, done>>
    BY DEF Freeze
  <1>3. minted' \in {minted, minted + 2}
    BY DEF Freeze
  <1>4. journal' = (IF Lands(w) THEN journal \cup {p} ELSE journal)
    BY <1>0 DEF Freeze
  <1>5. \/ op' = NoOp
        \/ w = "ok" /\ op' = [op EXCEPT !.at = "claim", !.plan = p, !.fresh = TRUE]
    BY <1>0 DEF Freeze
  <1>6. BoxInv'
    <2>1. minted' \in Nat
      BY <1>3 DEF BoxInv, MailboxShape
    <2>2. MailboxShape'
      BY <1>2, <2>1 DEF BoxInv, MailboxShape
    <2>3. QED
      BY <1>2, <2>2, FilesUntouched DEF BoxInv
  <1>7. DurableInv'
    <2>1. journal' \subseteq {p}
      BY <1>1, <1>4
    <2>2. WellFrozen(p)' /\ Follows(p)' /\ Spends(p)'
      BY <1>1, <1>2 DEF WellFrozen, Follows, Spends
    <2>3. QED
      BY <1>2, <2>1, <2>2 DEF BookInv, DurableInv
  <1>8. CASE op' = NoOp
    BY <1>6, <1>7, <1>8, Resting DEF BookInv
  <1>9. CASE w = "ok" /\ op' = [op EXCEPT !.at = "claim", !.plan = p, !.fresh = TRUE]
    <2>1. op' = [at |-> "claim", ask |-> op.ask, plan |-> p, fresh |-> TRUE, todo |-> op.todo, missing |-> op.missing]
      BY <1>9 DEF BookInv, OperationInv
    <2>2. journal' = {p}
      BY <1>1, <1>4, <1>9 DEF Lands
    <2>3. PlanInHand'
      BY <1>1, <1>2, <2>1, <2>2 DEF PlanInHand, SamePlan, WellFrozen, Follows, Spends
    <2>4. p # NoPlan
      BY <1>1, FrozenIsPlan
    <2>5. OperationInv'
      BY <2>1, <2>3, <2>4 DEF BookInv, OperationInv, Deciding, Finishing, WellAsked
    <2>6. QED
      BY <1>6, <1>7, <2>5 DEF BookInv
  <1>10. QED
    BY <1>5, <1>8, <1>9

(* The instruction is used before any other step of finish. *)
LEMMA ConsumeClaimKeepsBook ==
    ASSUME BookInv, NEW w \in Writes, ConsumeClaim(w)
    PROVE  BookInv'
  <1> USE DEF files, status, locks, past, Continue, Abort
  <1>1. UNCHANGED <<journal, done, owners>> /\ op.at = "claim"
    BY DEF ConsumeClaim
  <1>2. op.plan # NoPlan /\ PlanInHand
    BY <1>1 DEF BookInv, OperationInv, Finishing
  <1>3. PICK i \in Incidents \cup {None} : i = op.plan.incident
    BY <1>2 DEF PlanInHand, WellFrozen
  <1>4. claims' = IF i # None /\ Lands(w) THEN [claims EXCEPT ![i].state = "used"] ELSE claims
    BY <1>3 DEF ConsumeClaim
  <1>5. claims \in [Incidents -> ClaimShape]
    BY DEF BookInv, DurableInv
  <1>6. /\ claims' \in [Incidents -> ClaimShape]
        /\ \A j \in Incidents : claims[j].state = "used" => claims'[j].state = "used"
        /\ i # None /\ Lands(w) => claims'[i].state = "used"
    <2>1. CASE i # None /\ Lands(w)
      <3>1. i \in Incidents /\ claims[i] \in ClaimShape
        BY <1>5, <2>1
      <3> DEFINE c == [claims[i] EXCEPT !.state = "used"]
      <3>2. c \in ClaimShape /\ c.state = "used"
        BY <3>1 DEF ClaimShape
      <3>3. claims' = [claims EXCEPT ![i] = c]
        BY <1>4, <2>1
      <3> HIDE DEF c
      <3>4. QED
        BY <1>5, <3>1, <3>2, <3>3
    <2>2. CASE ~(i # None /\ Lands(w))
      BY <1>4, <1>5, <2>2
    <2>3. QED
      BY <2>1, <2>2
  <1>7. DurableInv'
    BY <1>1, <1>6 DEF BookInv, DurableInv, WellFrozen, Follows, Spends
  <1>8. CASE w # "ok"
    BY <1>7, <1>8, Resting DEF ConsumeClaim, BookInv
  <1>9. CASE w = "ok"
    <2>1. op' = [at |-> "owners", ask |-> op.ask, plan |-> op.plan, fresh |-> op.fresh, todo |-> op.plan.runs,
                 missing |-> op.missing]
      BY <1>9 DEF ConsumeClaim, BookInv, OperationInv
    <2>2. PlanInHand'
      BY <1>1, <1>2, <2>1, PlanKept
    <2>3. i # None => claims'[i].state = "used"
      BY <1>6, <1>9 DEF Lands
    <2>4. OperationInv'
      BY <1>2, <1>3, <2>1, <2>2, <2>3 DEF BookInv, OperationInv, Deciding, Finishing, WellAsked
    <2>5. QED
      BY <1>7, <2>4 DEF BookInv
  <1>10. QED
    BY <1>8, <1>9

(* Writing a run's frozen entries leaves the plan one that follows.        *)
LEMMA WriteOwnersKeepsBook ==
    ASSUME BoxInv, BookInv, NEW w \in Writes, WriteOwners(w)
    PROVE  BookInv'
  <1> USE DEF files, status, locks, past, book, Continue, Abort
  <1>1. UNCHANGED <<journal, done, claims>> /\ op.at = "owners"
    BY DEF WriteOwners
  <1>2. op.plan # NoPlan /\ PlanInHand /\ op.todo \subseteq op.plan.runs
    BY <1>1 DEF BookInv, OperationInv, Finishing
  <1>3. PICK r \in op.plan.runs : r = Least(op.todo)
    BY WriteOwnersKeepsBox
  <1>4. \/ UNCHANGED owners
        \/ owners' = [owners EXCEPT ![r] = op.plan.owners[r]]
    BY <1>3 DEF WriteOwners
  <1>5. op.plan.runs \subseteq Runs /\ owners \in [Runs -> OwnerHistory]
    BY <1>2 DEF PlanInHand, WellFrozen, BoxInv, MailboxShape
  <1>6. \A x \in op.plan.runs : owners'[x] = owners[x] \/ owners'[x] = op.plan.owners[x]
    BY <1>3, <1>4, <1>5
  <1>7. ASSUME NEW p, SamePlan(p, op.plan)
        PROVE  Follows(p)'
    BY <1>2, <1>6, <1>7 DEF PlanInHand, SamePlan, Follows
  <1>8. DurableInv'
    BY <1>1, <1>2, <1>7 DEF BookInv, DurableInv, PlanInHand, WellFrozen, Spends
  <1>9. CASE w # "ok"
    BY <1>8, <1>9, Resting DEF WriteOwners, BookInv
  <1>10. CASE w = "ok"
    <2>1. op' = [at |-> "owners", ask |-> op.ask, plan |-> op.plan, fresh |-> op.fresh, todo |-> op.todo \ {r},
                 missing |-> op.missing]
      BY <1>3, <1>10 DEF WriteOwners, BookInv, OperationInv
    <2>2. PlanInHand'
      BY <1>1, <1>2, <1>7, <2>1 DEF PlanInHand, WellFrozen, SamePlan, Follows, Spends
    <2>3. OperationInv'
      BY <1>1, <1>2, <2>1, <2>2 DEF BookInv, OperationInv, Deciding, Finishing, WellAsked
    <2>4. QED
      BY <1>8, <2>3 DEF BookInv
  <1>11. QED
    BY <1>9, <1>10

(* The checkpoint replaces the pending plan by the one in hand. *)
LEMMA CheckpointKeepsBook ==
    ASSUME BookInv, NEW w \in Writes, Checkpoint(w)
    PROVE  BookInv'
  <1> USE DEF files, status, locks, past, Continue, Abort
  <1>1. UNCHANGED <<claims, done, owners>> /\ op.at = "checkpoint"
    BY DEF Checkpoint
  <1>2. op.plan # NoPlan /\ PlanInHand
    BY <1>1 DEF BookInv, OperationInv, Finishing
  <1>3. PICK p : p = op.plan
    OBVIOUS
  <1>4. journal' = journal \/ journal' = {p}
    BY <1>2, <1>3 DEF Checkpoint, PlanInHand, SamePlan
  <1>5. WellFrozen(p)' /\ Follows(p)' /\ Spends(p)'
    BY <1>1, <1>2, <1>3 DEF PlanInHand, WellFrozen, Follows, Spends
  <1>6. \A q \in journal : SamePlan(q, p)
    BY <1>2, <1>3 DEF PlanInHand
  <1>7. DurableInv'
    <2>1. CASE journal' = journal
      BY <1>1, <2>1, DurableUntouched DEF BookInv
    <2>2. CASE journal' = {p}
      BY <1>1, <1>5, <2>2 DEF BookInv, DurableInv
    <2>3. QED
      BY <1>4, <2>1, <2>2
  <1>8. CASE w # "ok"
    BY <1>7, <1>8, Resting DEF Checkpoint, BookInv
  <1>9. CASE w = "ok"
    <2>1. op' = [at |-> "notice from", ask |-> op.ask, plan |-> p, fresh |-> op.fresh, todo |-> op.todo,
                 missing |-> op.missing]
      BY <1>3, <1>9 DEF Checkpoint, BookInv, OperationInv
    <2>2. \A q \in journal' : SamePlan(q, p)
      BY <1>4, <1>6 DEF SamePlan
    <2>3. PlanInHand'
      BY <1>5, <2>1, <2>2 DEF PlanInHand, WellFrozen, Follows, Spends, SamePlan
    <2>4. OperationInv'
      BY <1>1, <1>2, <1>3, <2>1, <2>3 DEF BookInv, OperationInv, Deciding, Finishing, WellAsked
    <2>5. QED
      BY <1>7, <2>4 DEF BookInv
  <1>10. QED
    BY <1>8, <1>9

(* A plan marked done leaves the journal empty and its instruction used. *)
LEMMA MarkDoneKeepsBook ==
    ASSUME BookInv, NEW w \in Writes, MarkDone(w)
    PROVE  BookInv'
  <1> USE DEF files, status, locks, past, Abort
  <1>1. UNCHANGED <<claims, owners>> /\ op.at = "retarget"
    BY DEF MarkDone
  <1>2. op.plan # NoPlan /\ PlanInHand /\ (op.plan.incident # None => claims[op.plan.incident].state = "used")
    BY <1>1 DEF BookInv, OperationInv, Finishing
  <1>3. PICK d : d = op.plan
    OBVIOUS
  <1>4. \/ UNCHANGED <<journal, done>>
        \/ journal' = {} /\ done' = done \cup {d}
    BY <1>2, <1>3 DEF MarkDone, PlanInHand, SamePlan
  <1>5. d.incident # None => claims[d.incident].state = "used" /\ \A e \in done : e.incident # d.incident
    BY <1>2, <1>3 DEF PlanInHand, Spends
  <1>6. DurableInv'
    <2>1. CASE UNCHANGED <<journal, done>>
      BY <1>1, <2>1, DurableUntouched DEF BookInv
    <2>2. CASE journal' = {} /\ done' = done \cup {d}
      <3>1. IsFiniteSet(done')
        BY <2>2, FS_AddElement DEF BookInv, DurableInv
      <3>2. None \notin Incidents
        BY OwnershipAssumption
      <3>3. /\ \A e \in done' : e.incident \in Incidents => claims[e.incident].state = "used"
            /\ \A e, f \in done' : e.incident \in Incidents /\ e.incident = f.incident => e.id = f.id
        BY <1>5, <2>2, <3>2 DEF BookInv, DurableInv
      <3>4. QED
        BY <1>1, <2>2, <3>1, <3>3 DEF BookInv, DurableInv
    <2>3. QED
      BY <1>4, <2>1, <2>2
  <1>7. op' = NoOp \/ op' = [op EXCEPT !.at = "replay", !.plan = NoPlan]
    BY DEF MarkDone
  <1>8. CASE op' = NoOp
    BY <1>6, <1>8, Resting DEF BookInv
  <1>9. CASE op' = [op EXCEPT !.at = "replay", !.plan = NoPlan]
    <2>1. op' = [at |-> "replay", ask |-> op.ask, plan |-> NoPlan, fresh |-> op.fresh, todo |-> op.todo,
                 missing |-> op.missing]
      BY <1>9 DEF BookInv, OperationInv
    <2>2. OperationInv'
      BY <2>1 DEF BookInv, OperationInv, Deciding, Finishing, WellAsked
    <2>3. QED
      BY <1>6, <2>2 DEF BookInv
  <1>10. QED
    BY <1>7, <1>8, <1>9

-----------------------------------------------------------------------------
(* The invariant of the composition. *)

(* The first start, on empty mailboxes and an empty journal. *)
LEMMA OwnershipInit == Init => OwnershipInv
  <1> SUFFICES ASSUME Init PROVE OwnershipInv
    OBVIOUS
  <1>1. \A r \in Runs : owners[r] \in OwnerHistory
    <2>1. [session |-> Launcher, by |-> 0] \in Entry
      BY OwnershipAssumption DEF Entry
    <2>2. <<[session |-> Launcher, by |-> 0]>> \in OwnerHistory
      BY <2>1 DEF OwnerHistory
    <2>3. QED
      BY <2>2 DEF Init
  <1>2. NoWrite \in WriteShape /\ NoWrite.at = "idle" /\ NoRetry \in RetryShape /\ NoClaim \in ClaimShape
    BY DEF NoWrite, WriteShape, NoRetry, RetryShape, NoClaim, ClaimShape
  <1>3. MailboxShape
    BY <1>1, <1>2 DEF Init, MailboxShape
  <1>4. EventsSurvive
    BY DEF Init, EventsSurvive
  <1>5. DurableInv
    BY <1>2, FS_EmptySet DEF Init, DurableInv
  <1>6. OperationInv
    BY DEF Init, OperationInv, NoOp, NoAsk, NoPlan, Deciding, Finishing
  <1>7. QED
    BY <1>3, <1>4, <1>5, <1>6 DEF OwnershipInv, BoxInv, BookInv

(* A step of the operation in progress. *)
LEMMA OpStepKeepsInv ==
    ASSUME OwnershipInv, OpStep
    PROVE  OwnershipInv'
  <1> USE DEF files, status, locks, past, book, box, Continue, Abort
  <1>0. BoxInv /\ BookInv
    BY DEF OwnershipInv
  <1>1. CASE ReplayDone \/ LockRun \/ Verify \/ VerifyRefuses \/ LockMailboxes \/ \E p \in journal : ReplayNext(p)
    <2>1. BookInv'
      BY <1>0, <1>1, DecidingKeepsBook
    <2>2. BoxInv'
      BY <1>0, <1>1, BoxUntouched DEF ReplayDone, LockRun, Verify, VerifyRefuses, LockMailboxes, ReplayNext
    <2>3. QED
      BY <2>1, <2>2 DEF OwnershipInv
  <1>2. CASE OwnersWritten \/ MovesDone
    <2>1. BookInv'
      BY <1>0, <1>2, MovesKeepBook
    <2>2. BoxInv'
      BY <1>0, <1>2, BoxUntouched DEF OwnersWritten, MovesDone
    <2>3. QED
      BY <2>1, <2>2 DEF OwnershipInv
  <1>3. ASSUME NEW w \in Writes, Freeze(w) PROVE OwnershipInv'
    BY <1>0, <1>3, FreezeKeepsInv DEF OwnershipInv
  <1>4. ASSUME NEW w \in Writes, ConsumeClaim(w) PROVE OwnershipInv'
    <2>1. BoxInv'
      BY <1>0, <1>4, BoxUntouched DEF ConsumeClaim
    <2>2. QED
      BY <1>0, <1>4, <2>1, ConsumeClaimKeepsBook DEF OwnershipInv
  <1>5. ASSUME NEW w \in Writes, WriteOwners(w) PROVE OwnershipInv'
    BY <1>0, <1>5, WriteOwnersKeepsBox, WriteOwnersKeepsBook DEF OwnershipInv
  <1>6. ASSUME NEW w \in Writes, MoveFile(w) PROVE OwnershipInv'
    BY <1>0, <1>6, MoveFileKeepsBox, MovesKeepBook DEF OwnershipInv
  <1>7. ASSUME NEW w \in Writes, Checkpoint(w) PROVE OwnershipInv'
    <2>1. BoxInv'
      BY <1>0, <1>7, BoxUntouched DEF Checkpoint
    <2>2. QED
      BY <1>0, <1>7, <2>1, CheckpointKeepsBook DEF OwnershipInv
  <1>8. ASSUME NEW w \in Writes, NoticeFrom(w) \/ NoticeTo(w) PROVE OwnershipInv'
    BY <1>0, <1>8, NoticeKeepsBox, MovesKeepBook DEF OwnershipInv
  <1>9. ASSUME NEW w \in Writes, MarkDone(w) PROVE OwnershipInv'
    <2>1. BoxInv'
      BY <1>0, <1>9, BoxUntouched DEF MarkDone
    <2>2. QED
      BY <1>0, <1>9, <2>1, MarkDoneKeepsBook DEF OwnershipInv
  <1>10. QED
    BY <1>1, <1>2, <1>3, <1>4, <1>5, <1>6, <1>7, <1>8, <1>9 DEF OpStep

(* Every step keeps the invariant. *)
LEMMA OwnershipStep == OwnershipInv /\ [Next]_vars => OwnershipInv'
  <1> SUFFICES ASSUME OwnershipInv, [Next]_vars PROVE OwnershipInv'
    OBVIOUS
  <1> USE DEF files, status, locks, past, daemon, book, box
  <1>0. BoxInv /\ BookInv
    BY DEF OwnershipInv
  <1>1. ASSUME BoxInv', UNCHANGED <<claims, journal, done, owners, op>> PROVE OwnershipInv'
    BY <1>0, <1>1, BookUntouched DEF OwnershipInv
  <1>2. ASSUME NEW p \in Writers, NEW r \in Runs, BeginWrite(p, r), UNCHANGED <<daemon, book, op>> PROVE OwnershipInv'
    BY <1>0, <1>1, <1>2, WriterKeepsBox DEF BeginWrite
  <1>3. ASSUME NEW p \in Writers, WriterStep(p) PROVE OwnershipInv'
    <2>1. BoxInv'
      BY <1>0, <1>3, WriterKeepsBox DEF WriterStep
    <2>2. QED
      BY <1>1, <1>3, <2>1 DEF WriterStep, AdmitWrite, LandWrite
  <1>4. ASSUME NEW p \in Writers, WriteTimesOut(p), UNCHANGED <<daemon, book, op>> PROVE OwnershipInv'
    BY <1>0, <1>1, <1>4, WriterKeepsBox DEF WriteTimesOut
  <1>5. ASSUME NEW k \in Managers, NEW e \in unread[k], Ack(k, e), UNCHANGED <<daemon, book, op>> PROVE OwnershipInv'
    BY <1>0, <1>1, <1>5, AckKeepsBox DEF Ack
  <1>6. CASE BeginRetry /\ UNCHANGED <<daemon, book, op>>
    BY <1>0, <1>1, <1>6, RetryKeepsBox DEF BeginRetry
  <1>7. CASE RetryStep
    <2>1. BoxInv'
      BY <1>0, <1>7, RetryKeepsBox DEF RetryStep
    <2>2. QED
      BY <1>1, <1>7, <2>1 DEF RetryStep, EndRetry, RetryOnDisk, RetryWrite, ClearGap
  <1>8. CASE \/ \E i \in Incidents, from, to \in Managers, S \in SUBSET Runs : Instruct(i, from, to, S)
             \/ \E from, to \in Managers, S \in SUBSET Runs, i \in Incidents \cup {None} : AskChange(from, to, S, i)
             \/ AskPending
    <2>1. BookInv'
      BY <1>0, <1>8, AsksKeepBook
    <2>2. BoxInv'
      BY <1>0, <1>8, BoxUntouched DEF Instruct, AskChange, AskPending
    <2>3. QED
      BY <2>1, <2>2 DEF OwnershipInv
  <1>9. CASE OpStep
    BY <1>9, OpStepKeepsInv
  <1>10. CASE LockTimesOut
    <2>1. BookInv'
      BY <1>0, <1>10, DecidingKeepsBook
    <2>2. BoxInv'
      BY <1>0, <1>10, BoxUntouched DEF LockTimesOut
    <2>3. QED
      BY <2>1, <2>2 DEF OwnershipInv
  <1>11. CASE Crash
    <2>1. BookInv'
      BY <1>0, <1>11, BookRests DEF Crash
    <2>2. QED
      BY <1>0, <1>11, <2>1, CrashKeepsBox DEF OwnershipInv
  <1>12. CASE StartDaemon \/ StartReplayed \/ Serve \/ UNCHANGED vars
    <2>1. BoxInv'
      BY <1>0, <1>12, BoxUntouched DEF StartDaemon, StartReplayed, Serve, vars
    <2>2. QED
      BY <1>1, <1>12, <2>1 DEF StartDaemon, StartReplayed, Serve, vars
  <1>13. ASSUME NEW k \in Managers, NEW w \in Writes, DiscloseGap(k, w) PROVE OwnershipInv'
    BY <1>0, <1>1, <1>13, GapKeepsBox DEF DiscloseGap, WriteGap
  <1>14. QED
    BY <1>2, <1>3, <1>4, <1>5, <1>6, <1>7, <1>8, <1>9, <1>10, <1>11, <1>12, <1>13 DEF Next

(* The invariant of the mailboxes, the journal and the operation holds in  *)
(* every reachable state.                                                  *)
THEOREM OwnershipIsInvariant == Spec => []OwnershipInv
  BY OwnershipInit, OwnershipStep, PTL DEF Spec

(* An event the daemon reported persisted is on disk until it was handled  *)
(* and dropped by the retention, whatever moves, replays, fails or crashes. *)
THEOREM AcceptedEventsSurvive == Spec => []EventsSurvive
  <1>1. OwnershipInv => EventsSurvive
    BY DEF OwnershipInv, BoxInv
  <1>2. QED
    BY <1>1, OwnershipIsInvariant, PTL

(* completePending comes first: the journal never holds two transfers. *)
THEOREM TransfersAreSerialized == Spec => []OneTransferPending
  <1>1. OwnershipInv => OneTransferPending
    <2> SUFFICES ASSUME OwnershipInv PROVE Cardinality(journal) <= 1
      BY DEF OneTransferPending
    <2>1. \A p, q \in journal : p = q
      BY DEF OwnershipInv, BookInv, DurableInv
    <2>2. CASE journal = {}
      BY <2>2, FS_EmptySet
    <2>3. CASE journal # {}
      <3>1. PICK p : journal = {p}
        BY <2>1, <2>3
      <3>2. Cardinality(journal) = 1
        BY <3>1, FS_Singleton
      <3>3. QED
        BY <3>2
    <2>4. QED
      BY <2>2, <2>3
  <1>2. QED
    BY <1>1, OwnershipIsInvariant, PTL

(* A claims/<id>.json instruction authorizes one transfer, although a      *)
(* crash may come between the journal write and its consumption.           *)
THEOREM InstructionsAreSpentOnce == Spec => []ClaimAuthorizesOnce
  <1>1. OwnershipInv => ClaimAuthorizesOnce
    <2> SUFFICES ASSUME OwnershipInv, NEW i \in Incidents
                 PROVE  Cardinality({p.id : p \in {q \in journal : q.incident = i}}
                                        \cup {d.id : d \in {q \in done : q.incident = i}}) <= 1
      BY DEF ClaimAuthorizesOnce
    <2> DEFINE ids == {p.id : p \in {q \in journal : q.incident = i}}
                          \cup {d.id : d \in {q \in done : q.incident = i}}
    <2>1. i # None
      BY OwnershipAssumption
    <2>2. DurableInv
      BY DEF OwnershipInv, BookInv
    <2>3. \A x, y \in ids : x = y
      BY <2>1, <2>2 DEF DurableInv, Spends
    <2> HIDE DEF ids
    <2>4. CASE ids = {}
      BY <2>4, FS_EmptySet DEF ids
    <2>5. CASE ids # {}
      <3>1. PICK x : ids = {x}
        BY <2>3, <2>5
      <3>2. Cardinality(ids) = 1
        BY <3>1, FS_Singleton
      <3>3. QED
        BY <3>2 DEF ids
    <2>6. QED
      BY <2>4, <2>5
  <1>2. QED
    BY <1>1, OwnershipIsInvariant, PTL

(* A history is a prefix of itself and of itself with one entry more. *)
LEMMA PrefixKept ==
    ASSUME NEW h \in OwnerHistory, NEW g \in OwnerHistory, g = h \/ g = Append(h, g[Len(g)])
    PROVE  Len(h) <= Len(g) /\ SubSeq(g, 1, Len(h)) = h
  <1>1. h \in Seq(Entry) /\ g \in Seq(Entry) /\ Len(h) \in Nat /\ Len(g) \in Nat /\ g # <<>>
    BY DEF OwnerHistory
  <1>2. SubSeq(h, 1, Len(h)) = h
    BY <1>1, SubSeqFull
  <1>3. CASE g = h
    BY <1>1, <1>2, <1>3
  <1>4. CASE g = Append(h, g[Len(g)])
    <2>1. g[Len(g)] \in Entry
      BY <1>1
    <2>2. Len(g) = Len(h) + 1 /\ \A n \in 1..Len(h) : g[n] = h[n]
      BY <1>1, <1>4, <2>1, AppendProperties
    <2>3. \A n \in 1..Len(h) : g[n] \in Entry
      BY <1>1, <2>2
    <2>4. /\ SubSeq(g, 1, Len(h)) \in Seq(Entry)
          /\ Len(SubSeq(g, 1, Len(h))) = Len(h)
          /\ \A n \in 1..Len(h) : SubSeq(g, 1, Len(h))[n] = g[n]
      BY <1>1, <2>3, SubSeqProperties
    <2>5. SubSeq(g, 1, Len(h)) = h
      BY <1>1, <2>2, <2>4, SeqEqual
    <2>6. QED
      BY <1>1, <2>2, <2>5
  <1>5. QED
    BY <1>3, <1>4

(* No step, replayed or not, drops or rewrites an owner entry. *)
LEMMA StepGrows ==
    ASSUME OwnershipInv, [Next]_vars, NEW r \in Runs
    PROVE  Len(owners[r]) <= Len(owners'[r]) /\ SubSeq(owners'[r], 1, Len(owners[r])) = owners[r]
  <1> USE DEF files, status, locks, past, daemon, book, box, Continue, Abort
  <1>1. owners[r] \in OwnerHistory
    BY DEF OwnershipInv, BoxInv, MailboxShape
  <1>2. CASE UNCHANGED owners
    BY <1>1, <1>2, PrefixKept
  <1>3. ASSUME NEW w \in Writes, WriteOwners(w)
        PROVE  Len(owners[r]) <= Len(owners'[r]) /\ SubSeq(owners'[r], 1, Len(owners[r])) = owners[r]
    <2>1. PICK x \in op.plan.runs : x = Least(op.todo)
      BY <1>3, WriteOwnersKeepsBox DEF OwnershipInv
    <2>2. WellFrozen(op.plan) /\ Follows(op.plan)
      BY <1>3 DEF WriteOwners, OwnershipInv, BookInv, OperationInv, PlanInHand, Finishing
    <2>3. op.plan.runs \subseteq Runs /\ owners \in [Runs -> OwnerHistory] /\ op.plan.owners \in [op.plan.runs -> OwnerHistory]
      BY <2>2 DEF WellFrozen, OwnershipInv, BoxInv, MailboxShape
    <2>4. UNCHANGED owners \/ owners' = [owners EXCEPT ![x] = op.plan.owners[x]]
      BY <1>3, <2>1 DEF WriteOwners
    <2>5. CASE x # r
      BY <1>1, <2>3, <2>4, <2>5, PrefixKept
    <2>6. CASE x = r
      <3>1. op.plan.owners[r] \in OwnerHistory
        BY <2>1, <2>3, <2>6
      <3>2. op.plan.owners[r] = owners[r] \/ op.plan.owners[r] = Append(owners[r], op.plan.owners[r][Len(op.plan.owners[r])])
        BY <2>1, <2>2, <2>6 DEF Follows
      <3>3. owners'[r] = owners[r] \/ owners'[r] = op.plan.owners[r]
        BY <2>3, <2>4, <2>6
      <3>4. QED
        BY <1>1, <3>1, <3>2, <3>3, PrefixKept
    <2>7. QED
      BY <2>5, <2>6
  <1>4. CASE OpStep
    BY <1>2, <1>3, <1>4 DEF OpStep, ReplayDone, LockRun, Verify, VerifyRefuses, LockMailboxes, OwnersWritten, MovesDone,
       ReplayNext, Freeze, ConsumeClaim, MoveFile, Checkpoint, NoticeFrom, NoticeTo, Notice, MarkDone
  <1>5. CASE Next /\ ~OpStep
    BY <1>2, <1>5 DEF Next, BeginWrite, WriterStep, AdmitWrite, LandWrite, WriteTimesOut, Ack, BeginRetry, RetryStep,
       EndRetry, RetryOnDisk, RetryWrite, ClearGap, Instruct, AskChange, AskPending, LockTimesOut, Crash, StartDaemon,
       StartReplayed, Serve, DiscloseGap, WriteGap
  <1>6. CASE UNCHANGED vars
    BY <1>2, <1>6 DEF vars
  <1>7. QED
    BY <1>4, <1>5, <1>6

(* The owner history of every run only grows: a replayed plan never erases *)
(* the entries of a later transfer.                                        *)
THEOREM HistoriesOnlyGrow == Spec => OwnersOnlyGrow
  <1>1. OwnershipInv /\ [Next]_vars
            => [\A r \in Runs : /\ Len(owners[r]) <= Len(owners'[r])
                                /\ SubSeq(owners'[r], 1, Len(owners[r])) = owners[r]]_vars
    BY StepGrows
  <1>2. QED
    BY <1>1, OwnershipIsInvariant, PTL DEF Spec, OwnersOnlyGrow
=============================================================================
