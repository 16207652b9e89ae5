------------------------ MODULE LaunchIntentsProofs ------------------------
(***************************************************************************)
(* What holds of the launch-intent ledger for every set of bindings, tasks *)
(* and requests and every bound on crashes and faulty writes.              *)
(***************************************************************************)
EXTENDS LaunchIntents, TLAPS

-----------------------------------------------------------------------------
(* Type correctness is inductive as it stands. *)

(* The first start of a daemon on an empty intents directory is well typed. *)
LEMMA TypeInit == Init => TypeOK
  BY BoundAssumption DEF Init, TypeOK, NoChildren, NoDispositions, Runs, Names, States, Dispositions,
     AgentStates, Places

(* Merged children and the values a settle writes stay in their types. *)
LEMMA MergeRunsType ==
    ASSUME TypeOK, NEW b \in Bindings, NEW r \in Requests, NEW S \in SUBSET Names
    PROVE  MergeRuns(b, S, r) \in [Names -> Requests \cup {None}]
  BY DEF TypeOK, MergeRuns

(* mergeChildren gives every child name a disposition.                     *)
LEMMA MergeDispType ==
    ASSUME TypeOK, NEW b \in Bindings, NEW d \in [Names -> Dispositions]
    PROVE  MergeDisp(b, d) \in [Names -> Dispositions]
  BY DEF TypeOK, MergeDisp

(* executeDaemonLaunch settles to a final or an unresolved record.         *)
LEMMA SettleTypes ==
    ASSUME TypeOK, NEW r \in Requests
    PROVE  /\ SettleDisp(r) \in [Names -> Dispositions]
           /\ SettleState(r) \in {"completed", "failed", "unresolved"}
  BY DEF TypeOK, SettleDisp, SettleState, Names, Dispositions

(* A faulty store write stays within the bound.                            *)
LEMMA AttemptType ==
    ASSUME TypeOK, NEW w, Attempt(w)
    PROVE  faults' \in 0..MaxFaults
  BY BoundAssumption DEF TypeOK, Attempt

(* reconcile writes a well-typed record, whether it closes it or not.      *)
LEMMA ReconcileType ==
    ASSUME TypeOK, NEW b \in Bindings, NEW d \in [Names -> Dispositions], Reconcile(b, d)
    PROVE  /\ state' \in [Bindings -> States]
           /\ task' \in [Bindings -> Tasks \cup {None}]
           /\ child' \in [Bindings -> [Names -> Requests \cup {None}]]
           /\ disp' \in [Bindings -> [Names -> Dispositions]]
           /\ resolution' \in [Bindings -> {"none", "interrupted", "effect_uncertain"}]
           /\ reconciled' \subseteq Bindings
  <1>1. MergeDisp(b, d) \in [Names -> Dispositions]
    BY MergeDispType
  <1>2. state' \in [Bindings -> States] /\ reconciled' \subseteq Bindings
    <2>1. CASE AllAccounted(Kids(b), MergeDisp(b, d))
      <3>1. state' = [state EXCEPT ![b] = "completed"] /\ reconciled' = reconciled \cup {b}
        BY <2>1 DEF Reconcile
      <3>2. state' \in [Bindings -> States]
        BY <3>1 DEF TypeOK, States
      <3>3. reconciled' \subseteq Bindings
        BY <3>1 DEF TypeOK
      <3>4. QED
        BY <3>2, <3>3
    <2>2. CASE ~AllAccounted(Kids(b), MergeDisp(b, d))
      BY <2>2 DEF TypeOK, Reconcile
    <2>3. QED
      BY <2>1, <2>2
  <1>3. QED
    BY <1>1, <1>2 DEF TypeOK, Reconcile

(* A step of a request keeps the types.                                    *)
LEMMA TypeRequest ==
    ASSUME TypeOK, NEW r \in Requests, Step(r)
    PROVE  TypeOK'
  <1> USE DEF TypeOK, proc, record, calls, world, history, Places, Executing
  <1>1. CASE Peek(r)
    BY <1>1 DEF Peek
  <1>2. CASE Enter(r)
    BY <1>2 DEF Enter
  <1>3. CASE AwaitPrior(r)
    BY <1>3 DEF AwaitPrior
  <1>4. CASE Wake(r)
    BY <1>4 DEF Wake
  <1>5. ASSUME NEW w \in Writes, BeginNew(r, w)
        PROVE  TypeOK'
    BY <1>5, AttemptType DEF BeginNew, States
  <1>6. ASSUME NEW w \in Writes, BeginExisting(r, w)
        PROVE  TypeOK'
    BY <1>6, AttemptType DEF BeginExisting
  <1>7. ASSUME NEW v \in {"threw_absent", "threw_unknown"}, PipelineThrows(r, v)
        PROVE  TypeOK'
    BY <1>7 DEF PipelineThrows, End
  <1>8. ASSUME NEW v \in {"failed", "launched"}, EndsBeforeRun(r, v)
        PROVE  TypeOK'
    BY <1>8 DEF EndsBeforeRun, End
  <1>9. ASSUME NEW v \in {"failed", "launched"}, PipelineEnds(r, v)
        PROVE  TypeOK'
    BY <1>9 DEF PipelineEnds, End
  <1>10. ASSUME NEW w \in Writes, MarkEffecting(r, w)
         PROVE  TypeOK'
    <2>1. /\ state' \in [Bindings -> States]
          /\ marker' \in [Bindings -> Requests \cup {None}]
      <3>1. CASE state[bind[r]] \in MarkExpect /\ Lands(w)
        BY <1>10, <3>1 DEF MarkEffecting, States
      <3>2. CASE ~(state[bind[r]] \in MarkExpect /\ Lands(w))
        BY <1>10, <3>2 DEF MarkEffecting
      <3>3. QED
        BY <3>1, <3>2
    <2>2. /\ pc' \in [Requests -> Places]
          /\ \A q \in Requests : pc'[q] = "idle" <=> pc[q] = "idle"
          /\ verdict' \in [Requests -> {"none", "threw_absent", "threw_unknown", "failed", "launched"}]
          /\ crossed' \subseteq Requests
      <3>1. CASE state[bind[r]] \in MarkExpect /\ w = "ok"
        BY <1>10, <3>1 DEF MarkEffecting
      <3>2. CASE ~(state[bind[r]] \in MarkExpect /\ w = "ok")
        BY <1>10, <3>2 DEF MarkEffecting, End
      <3>3. QED
        BY <3>1, <3>2
    <2>3. QED
      BY <1>10, <2>1, <2>2, AttemptType DEF MarkEffecting
  <1>11. ASSUME NEW w \in Writes, RecordChildren(r, w)
         PROVE  TypeOK'
    <2>1. MergeRuns(bind[r], {"child"}, r) \in [Names -> Requests \cup {None}]
      BY <1>11 DEF RecordChildren, MergeRuns
    <2>2. QED
      BY <1>11, <2>1, AttemptType DEF RecordChildren, End
  <1>12. ASSUME NEW w \in Writes, Settle(r, w)
         PROVE  TypeOK'
    <2>1. bind[r] \in Bindings
      BY <1>12 DEF Settle
    <2>2. /\ MergeRuns(bind[r], observed[r], r) \in [Names -> Requests \cup {None}]
          /\ MergeDisp(bind[r], SettleDisp(r)) \in [Names -> Dispositions]
      BY <2>1, MergeRunsType, MergeDispType, SettleTypes
    <2>3. SettleState(r) \in States
      BY SettleTypes DEF States
    <2>4. QED
      BY <1>12, <2>1, <2>2, <2>3, AttemptType DEF Settle
  <1>13. CASE Persist(r)
    BY <1>13 DEF Persist, Runs, Names
  <1>14. CASE StartAgent(r)
    BY <1>14 DEF StartAgent, AgentStates
  <1>15. CASE BindAndPrompt(r)
    BY <1>15 DEF BindAndPrompt, AgentStates
  <1>16. CASE Finish(r)
    BY <1>16 DEF Finish
  <1>17. ASSUME NEW w \in Writes, ReconcileWrite(r, w)
         PROVE  TypeOK'
    <2>1. bind[r] \in Bindings /\ found[r] \in [Names -> Dispositions]
      BY <1>17 DEF ReconcileWrite
    <2>2. CASE Reconcile(bind[r], found[r])
      BY <1>17, <2>1, <2>2, AttemptType, ReconcileType DEF ReconcileWrite
    <2>3. CASE UNCHANGED record
      BY <1>17, <2>1, <2>3, AttemptType DEF ReconcileWrite
    <2>4. QED
      BY <1>17, <2>2, <2>3 DEF ReconcileWrite
  <1>18. QED
    BY <1>1, <1>2, <1>3, <1>4, <1>5, <1>6, <1>7, <1>8, <1>9, <1>10, <1>11, <1>12, <1>13, <1>14,
       <1>15, <1>16, <1>17 DEF Step

(* A step of the restart sweep keeps the types.                            *)
LEMMA TypeRestart ==
    ASSUME TypeOK, Restart
    PROVE  TypeOK'
  <1> USE DEF TypeOK, proc, record, calls, world, history
  <1>1. CASE StartDaemon
    BY <1>1 DEF StartDaemon
  <1>2. CASE RecoveryDone
    BY <1>2 DEF RecoveryDone
  <1>3. CASE Serve
    BY <1>3 DEF Serve
  <1>4. ASSUME NEW b \in Bindings, NEW w \in Writes, RecoverInterrupted(b, w)
        PROVE  TypeOK'
    <2>1. /\ state' \in [Bindings -> States]
          /\ resolution' \in [Bindings -> {"none", "interrupted", "effect_uncertain"}]
      <3>1. CASE Lands(w)
        BY <1>4, <3>1 DEF RecoverInterrupted, States
      <3>2. CASE ~Lands(w)
        BY <1>4, <3>2 DEF RecoverInterrupted
      <3>3. QED
        BY <3>1, <3>2
    <2>2. QED
      BY <1>4, <2>1, AttemptType DEF RecoverInterrupted
  <1>5. ASSUME NEW b \in Bindings, SweepSkips(b)
        PROVE  TypeOK'
    BY <1>5 DEF SweepSkips
  <1>6. ASSUME NEW b \in Bindings, NEW w \in Writes, NEW d \in [Names -> Dispositions], SweepIntent(b, w, d)
        PROVE  TypeOK'
    <2>1. CASE Reconcile(b, d)
      BY <1>6, <2>1, AttemptType, ReconcileType DEF SweepIntent
    <2>2. CASE UNCHANGED record
      BY <1>6, <2>2, AttemptType DEF SweepIntent
    <2>3. QED
      BY <1>6, <2>1, <2>2 DEF SweepIntent
  <1>7. QED
    BY <1>1, <1>2, <1>3, <1>4, <1>5, <1>6 DEF Restart

(* Every step keeps the types.                                             *)
LEMMA TypeStep == TypeOK /\ [Next]_vars => TypeOK'
  <1> SUFFICES ASSUME TypeOK, [Next]_vars PROVE TypeOK'
    OBVIOUS
  <1>1. ASSUME NEW r \in Requests, NEW b \in Bindings, NEW t \in Tasks, Arrive(r, b, t)
        PROVE  TypeOK'
    BY <1>1 DEF Arrive, TypeOK, proc, record, world, history, Places
  <1>2. ASSUME NEW r \in Requests, NEW b \in Bindings, NEW d \in [Names -> Dispositions], ReconcileRead(r, b, d)
        PROVE  TypeOK'
    BY <1>2 DEF ReconcileRead, TypeOK, proc, record, world, history, Places
  <1>3. ASSUME NEW r \in Requests, Step(r)
        PROVE  TypeOK'
    BY <1>3, TypeRequest
  <1>4. ASSUME NEW r \in Requests, RelaunchPersist(r)
        PROVE  TypeOK'
    BY <1>4 DEF RelaunchPersist, TypeOK, proc, record, history, Runs, Names, AgentStates
  <1>5. ASSUME NEW r \in Requests, NEW w \in Writes, RelaunchRecord(r, w)
        PROVE  TypeOK'
    <2>1. MergeRuns(bind[r], {"relaunch"}, r) \in [Names -> Requests \cup {None}]
      BY <1>5 DEF RelaunchRecord, MergeRuns, TypeOK
    <2>2. child' \in [Bindings -> [Names -> Requests \cup {None}]]
      BY <1>5, <2>1 DEF RelaunchRecord, TypeOK
    <2>3. /\ relaunch' \in [Requests -> {"no", "armed", "persisted", "recorded", "refused"}]
          /\ \A q \in Requests : relaunch'[q] = "no" <=> relaunch[q] = "no"
          /\ agent' \in [Runs -> AgentStates]
      <3>1. CASE state[bind[r]] \in ChildrenExpect /\ w = "ok"
        <4>1. PICK a \in {"none", "live"} : agent' = [agent EXCEPT ![<<r, "relaunch">>] = a]
          BY <1>5, <3>1 DEF RelaunchRecord
        <4>2. QED
          BY <1>5, <3>1, <4>1 DEF RelaunchRecord, TypeOK, AgentStates
      <3>2. CASE ~(state[bind[r]] \in ChildrenExpect /\ w = "ok")
        BY <1>5, <3>2 DEF RelaunchRecord, TypeOK
      <3>3. QED
        BY <3>1, <3>2
    <2>4. QED
      BY <1>5, <2>2, <2>3, AttemptType DEF RelaunchRecord, TypeOK, proc
  <1>6. ASSUME NEW x \in Runs, AgentExits(x)
        PROVE  TypeOK'
    BY <1>6 DEF AgentExits, TypeOK, proc, record, calls, history, AgentStates
  <1>7. CASE Crash
    BY <1>7, BoundAssumption DEF Crash, TypeOK, record, world, Places, NoDispositions, Dispositions
  <1>8. CASE Restart
    BY <1>8, TypeRestart
  <1>9. CASE UNCHANGED vars
    BY <1>9 DEF vars, proc, record, calls, world, history, TypeOK
  <1>10. QED
    BY <1>1, <1>2, <1>3, <1>4, <1>5, <1>6, <1>7, <1>8, <1>9 DEF Next

(* Every reachable state is well typed: the records the handlers write are *)
(* ones isIntentRecord accepts.                                            *)
THEOREM TypeCorrect == Spec => []TypeOK
  BY TypeInit, TypeStep, PTL DEF Spec

-----------------------------------------------------------------------------
(* The lifecycle moves onward in every step, and a record keeps its task. *)

Moves ==
    \A b \in Bindings : /\ state'[b] \in Onward(state[b])
                        /\ state[b] # "absent" => task'[b] = task[b]

(* A step that leaves the states alone moves no record backwards.          *)
LEMMA StillMoves ==
    ASSUME TypeOK, UNCHANGED <<state, task>>
    PROVE  Moves
  BY DEF Moves, Onward, TypeOK, States

(* reconcile takes an unresolved record to completed or leaves it.         *)
LEMMA ReconcileMoves ==
    ASSUME TypeOK, NEW b \in Bindings, NEW d, state[b] = "unresolved", Reconcile(b, d)
    PROVE  Moves
  <1>1. task' = task
    BY DEF Reconcile
  <1>2. CASE state' = [state EXCEPT ![b] = "completed"]
    BY <1>1, <1>2 DEF Moves, Onward, TypeOK, States
  <1>3. CASE state' = state
    BY <1>1, <1>3 DEF Moves, Onward, TypeOK, States
  <1>4. QED
    BY <1>2, <1>3 DEF Reconcile

(* The expected states of each store operation keep records moving onward. *)
LEMMA StepMoves ==
    ASSUME TypeOK, NEW r \in Requests, Step(r)
    PROVE  Moves
  <1>1. CASE UNCHANGED <<state, task>>
    BY <1>1, StillMoves
  <1>2. ASSUME NEW w \in Writes, BeginNew(r, w)
        PROVE  Moves
    <2>1. CASE Lands(w)
      BY <1>2, <2>1 DEF BeginNew, Moves, Onward, TypeOK, States
    <2>2. CASE ~Lands(w)
      BY <1>2, <2>2, StillMoves DEF BeginNew
    <2>3. QED
      BY <2>1, <2>2
  <1>3. ASSUME NEW w \in Writes, MarkEffecting(r, w)
        PROVE  Moves
    <2>1. CASE state[bind[r]] \in MarkExpect /\ Lands(w)
      BY <1>3, <2>1 DEF MarkEffecting, MarkExpect, Moves, Onward, TypeOK, States
    <2>2. CASE ~(state[bind[r]] \in MarkExpect /\ Lands(w))
      BY <1>3, <2>2, StillMoves DEF MarkEffecting
    <2>3. QED
      BY <2>1, <2>2
  <1>4. ASSUME NEW w \in Writes, Settle(r, w)
        PROVE  Moves
    <2>1. CASE state[bind[r]] \in SettleExpect(r) /\ Lands(w)
      <3>1. /\ state' = [state EXCEPT ![bind[r]] = SettleState(r)]
            /\ task' = task
        BY <1>4, <2>1 DEF Settle
      <3>2. state[bind[r]] = "effecting" \/ (state[bind[r]] = "recorded" /\ SettleState(r) # "completed")
        BY <2>1 DEF SettleExpect, CompleteExpect, FailExpect, SettleState
      <3>3. QED
        BY <3>1, <3>2, SettleTypes DEF Moves, Onward, TypeOK, States
    <2>2. CASE ~(state[bind[r]] \in SettleExpect(r) /\ Lands(w))
      BY <1>4, <2>2, StillMoves DEF Settle
    <2>3. QED
      BY <2>1, <2>2
  <1>5. ASSUME NEW w \in Writes, ReconcileWrite(r, w)
        PROVE  Moves
    <2>1. CASE state[bind[r]] = "unresolved" /\ Lands(w)
      <3>1. bind[r] \in Bindings
        BY <1>5 DEF ReconcileWrite, TypeOK
      <3>2. QED
        BY <1>5, <2>1, <3>1, ReconcileMoves DEF ReconcileWrite
    <2>2. CASE ~(state[bind[r]] = "unresolved" /\ Lands(w))
      BY <1>5, <2>2, StillMoves DEF ReconcileWrite, record
    <2>3. QED
      BY <2>1, <2>2
  <1>6. QED
    BY <1>1, <1>2, <1>3, <1>4, <1>5 DEF Step, Peek, Enter, AwaitPrior, Wake, BeginExisting, PipelineThrows,
       EndsBeforeRun, PipelineEnds, Persist, RecordChildren, StartAgent, BindAndPrompt, Finish, record

(* Every step moves every record onward or leaves it.                      *)
LEMMA NextMoves == TypeOK /\ [Next]_vars => Moves
  <1> SUFFICES ASSUME TypeOK, [Next]_vars PROVE Moves
    OBVIOUS
  <1>1. CASE UNCHANGED <<state, task>>
    BY <1>1, StillMoves
  <1>2. ASSUME NEW r \in Requests, Step(r)
        PROVE  Moves
    BY <1>2, StepMoves
  <1>3. ASSUME NEW b \in Bindings, NEW w \in Writes, RecoverInterrupted(b, w)
        PROVE  Moves
    <2>1. CASE Lands(w)
      BY <1>3, <2>1 DEF RecoverInterrupted, Interrupted, Moves, Onward, TypeOK, States
    <2>2. CASE ~Lands(w)
      BY <1>3, <2>2, StillMoves DEF RecoverInterrupted
    <2>3. QED
      BY <2>1, <2>2
  <1>4. ASSUME NEW b \in Bindings, NEW w \in Writes, NEW d \in [Names -> Dispositions], SweepIntent(b, w, d)
        PROVE  Moves
    <2>1. CASE Reconcile(b, d)
      BY <1>4, <2>1, ReconcileMoves DEF SweepIntent
    <2>2. CASE UNCHANGED record
      BY <1>4, <2>2, StillMoves DEF record
    <2>3. QED
      BY <1>4, <2>1, <2>2 DEF SweepIntent
  <1>5. QED
    BY <1>1, <1>2, <1>3, <1>4 DEF Next, Restart, Arrive, ReconcileRead, RelaunchPersist, RelaunchRecord,
       AgentExits, Crash, StartDaemon, RecoveryDone, SweepSkips, Serve, vars, record

(* A settled intent is never reopened and no step takes a record back to a *)
(* state in which begin would hand out the effect again.                   *)
THEOREM LifecycleOnward == Spec => LifecycleMovesOnward
  <1>1. TypeOK /\ [Next]_vars => [\A b \in Bindings : state'[b] \in Onward(state[b])]_vars
    BY NextMoves DEF Moves
  <1>2. QED
    BY <1>1, TypeCorrect, PTL DEF Spec, LifecycleMovesOnward

-----------------------------------------------------------------------------
(* The ledger invariant. *)

(* The ledger invariant holds of an empty ledger.                          *)
LEMMA LedgerInit == Init => LedgerInv
  <1> SUFFICES ASSUME Init PROVE LedgerInv
    OBVIOUS
  <1>1. TypeOK
    BY TypeInit
  <1>2. QED
    BY <1>1 DEF Init, LedgerInv, AtMostOnce, OnlyTheBoundTask, EffectingIsThisProcess, FlightIsTheExecutor,
       BegunIsBound, PeekStaysRight, CrossingIsRecorded, Executing

(* The part of the invariant about what a request has in hand. *)
RequestInv == FlightIsTheExecutor /\ BegunIsBound /\ PeekStaysRight

(* The part about what has been done under a binding. *)
EffectInv == AtMostOnce /\ OnlyTheBoundTask /\ CrossingIsRecorded

(* A step in which nobody crosses the boundary. *)
LEMMA NoCrossing ==
    ASSUME LedgerInv, TypeOK', Moves, crossed' = crossed,
           \A r \in Requests : pc[r] # "idle" => pc'[r] # "idle" /\ bind'[r] = bind[r] /\ ask'[r] = ask[r]
    PROVE  EffectInv'
  <1>1. \A r \in crossed : /\ r \in Requests /\ pc[r] # "idle" /\ bind[r] \in Bindings
                           /\ bind'[r] = bind[r] /\ ask'[r] = ask[r] /\ pc'[r] # "idle"
    BY DEF LedgerInv, CrossingIsRecorded, TypeOK
  <1>2. AtMostOnce'
    BY <1>1 DEF LedgerInv, AtMostOnce
  <1>3. \A r \in crossed : state[bind[r]] \notin {"absent", "recorded"}
    BY DEF LedgerInv, CrossingIsRecorded
  <1>4. \A r \in crossed : /\ state'[bind[r]] \in Onward(state[bind[r]])
                           /\ task'[bind[r]] = task[bind[r]]
    BY <1>1, <1>3 DEF Moves
  <1>5. \A r \in crossed : state[bind[r]] \in States
    BY <1>1 DEF LedgerInv, TypeOK
  <1>6. CrossingIsRecorded'
    BY <1>1, <1>3, <1>4, <1>5 DEF CrossingIsRecorded, Onward, States
  <1>7. OnlyTheBoundTask'
    BY <1>1, <1>4 DEF LedgerInv, OnlyTheBoundTask
  <1>8. QED
    BY <1>2, <1>6, <1>7 DEF EffectInv

(* A step in which no record becomes effecting and no request dies. *)
LEMMA SameEffecting ==
    ASSUME LedgerInv, TypeOK', marker' = marker,
           \A b \in Bindings : state'[b] = "effecting" => state[b] = "effecting",
           phase' \in {"sweeping", "serving"} => phase \in {"sweeping", "serving"},
           \A r \in Requests : pc'[r] = "lost" => pc[r] = "lost"
    PROVE  EffectingIsThisProcess'
  BY DEF LedgerInv, EffectingIsThisProcess, TypeOK

(* A step in which no request gets past begin or the inflight check. *)
LEMMA NobodyEnters ==
    ASSUME LedgerInv, TypeOK', Moves, UNCHANGED <<bind, ask, admitted, inflight>>,
           \A q \in Requests :
               /\ pc'[q] \in Executing => pc[q] \in Executing
               /\ pc'[q] \in {"begun", "waiting"} => pc[q] \in {"begun", "waiting"} \cup Executing
               /\ pc'[q] = "begin" => pc[q] = "begin" \/ (q \in admitted /\ pc[q] # "idle")
    PROVE  RequestInv'
  <1> USE DEF LedgerInv, TypeOK
  <1>1. FlightIsTheExecutor'
    BY DEF FlightIsTheExecutor
  <1>2. BegunIsBound'
    <2> SUFFICES ASSUME NEW q \in Requests, pc'[q] \in {"begun", "waiting"} \cup Executing
                 PROVE  q \in admitted /\ state'[bind[q]] # "absent" /\ task'[bind[q]] = ask[q]
      BY DEF BegunIsBound
    <2>1. pc[q] \in {"begun", "waiting"} \cup Executing
      BY DEF Executing
    <2>2. q \in admitted /\ state[bind[q]] # "absent" /\ task[bind[q]] = ask[q] /\ bind[q] \in Bindings
      BY <2>1 DEF BegunIsBound, Executing
    <2>3. state'[bind[q]] \in Onward(state[bind[q]]) /\ task'[bind[q]] = task[bind[q]]
      BY <2>2 DEF Moves
    <2>4. QED
      BY <2>2, <2>3 DEF Onward, States
  <1>3. PeekStaysRight'
    <2> SUFFICES ASSUME NEW q \in Requests, pc'[q] = "begin", q \notin admitted
                 PROVE  ~WouldLaunch(q)'
      BY DEF PeekStaysRight
    <2>1. ~WouldLaunch(q) /\ bind[q] \in Bindings
      BY DEF PeekStaysRight
    <2>2. /\ state[bind[q]] # "absent"
          /\ state'[bind[q]] \in Onward(state[bind[q]])
          /\ task'[bind[q]] = task[bind[q]]
      BY <2>1 DEF Moves, WouldLaunch
    <2>3. QED
      BY <2>1, <2>2 DEF WouldLaunch, Onward, States
  <1>4. QED
    BY <1>1, <1>2, <1>3 DEF RequestInv

(* The ledger invariant, from the request part and the effect part.        *)
LEMMA LedgerParts ==
    ASSUME TypeOK', RequestInv', EffectInv', EffectingIsThisProcess'
    PROVE  LedgerInv'
  BY DEF LedgerInv, RequestInv, EffectInv

(* The steps of a request other than markEffecting. *)
LEMMA LedgerRequest ==
    ASSUME LedgerInv, TypeOK', Moves, NEW r \in Requests, Step(r),
           \A w \in Writes : ~MarkEffecting(r, w)
    PROVE  LedgerInv'
  <1>0. TypeOK
    BY DEF LedgerInv
  <1> USE DEF proc, record, calls, world, history
  <1>1. /\ crossed' = crossed /\ marker' = marker /\ phase' = phase /\ UNCHANGED <<bind, ask>>
        /\ pc[r] # "idle" /\ pc' \in [Requests -> Places]
        /\ \E p \in Places \ {"idle", "lost"} : pc' = [pc EXCEPT ![r] = p]
    BY DEF Step, Peek, Enter, AwaitPrior, Wake, BeginNew, BeginExisting, PipelineThrows, EndsBeforeRun,
       PipelineEnds, RecordChildren, Settle, Persist, StartAgent, BindAndPrompt, Finish, ReconcileWrite,
       End, TypeOK, Places, Executing
  <1>2. EffectInv'
    BY <1>0, <1>1, NoCrossing DEF TypeOK
  <1>3. \A b \in Bindings : state'[b] = "effecting" => state[b] = "effecting"
    <2>1. CASE UNCHANGED state
      BY <2>1
    <2>2. ASSUME NEW w \in Writes, BeginNew(r, w)
          PROVE  \A b \in Bindings : state'[b] = "effecting" => state[b] = "effecting"
      BY <1>0, <2>2 DEF BeginNew, TypeOK
    <2>3. ASSUME NEW w \in Writes, Settle(r, w)
          PROVE  \A b \in Bindings : state'[b] = "effecting" => state[b] = "effecting"
      BY <1>0, <2>3, SettleTypes DEF Settle, TypeOK
    <2>4. ASSUME NEW w \in Writes, ReconcileWrite(r, w)
          PROVE  \A b \in Bindings : state'[b] = "effecting" => state[b] = "effecting"
      BY <1>0, <2>4 DEF ReconcileWrite, Reconcile, TypeOK
    <2>5. QED
      BY <2>1, <2>2, <2>3, <2>4 DEF Step, Peek, Enter, AwaitPrior, Wake, BeginExisting, PipelineThrows,
         EndsBeforeRun, PipelineEnds, Persist, RecordChildren, StartAgent, BindAndPrompt, Finish
  <1>4. EffectingIsThisProcess'
    BY <1>0, <1>1, <1>3, SameEffecting DEF TypeOK
  <1>5. RequestInv'
    <2>1. CASE Peek(r)
      <3>1. UNCHANGED <<bind, ask, inflight, state, task>>
        BY <2>1 DEF Peek
      <3>2. FlightIsTheExecutor'
        BY <1>0, <2>1, <3>1 DEF Peek, LedgerInv, FlightIsTheExecutor, TypeOK, Executing
      <3>3. BegunIsBound'
        BY <1>0, <2>1, <3>1 DEF Peek, LedgerInv, BegunIsBound, TypeOK, Executing
      <3>4. PeekStaysRight'
        BY <1>0, <2>1, <3>1 DEF Peek, LedgerInv, PeekStaysRight, WouldLaunch, TypeOK
      <3>5. QED
        BY <3>2, <3>3, <3>4 DEF RequestInv
    <2>2. CASE Enter(r)
      <3>1. FlightIsTheExecutor'
        BY <1>0, <2>2, NoneAssumption DEF Enter, LedgerInv, FlightIsTheExecutor, TypeOK, Executing
      <3>2. BegunIsBound'
        BY <1>0, <2>2 DEF Enter, LedgerInv, BegunIsBound, TypeOK, Executing
      <3>3. PeekStaysRight'
        BY <1>0, <2>2 DEF Enter, LedgerInv, PeekStaysRight, WouldLaunch, TypeOK
      <3>4. QED
        BY <3>1, <3>2, <3>3 DEF RequestInv
    <2>3. CASE Finish(r)
      <3>1. FlightIsTheExecutor'
        BY <1>0, <2>3 DEF Finish, LedgerInv, FlightIsTheExecutor, TypeOK, Executing
      <3>2. BegunIsBound'
        BY <1>0, <2>3 DEF Finish, LedgerInv, BegunIsBound, TypeOK, Executing
      <3>3. PeekStaysRight'
        BY <1>0, <2>3 DEF Finish, LedgerInv, PeekStaysRight, WouldLaunch, TypeOK
      <3>4. QED
        BY <3>1, <3>2, <3>3 DEF RequestInv
    <2>4. ASSUME NEW w \in Writes, BeginNew(r, w)
          PROVE  RequestInv'
      <3>1. FlightIsTheExecutor'
        BY <1>0, <2>4 DEF BeginNew, LedgerInv, FlightIsTheExecutor, TypeOK, Executing
      <3>2. r \in admitted
        BY <2>4 DEF BeginNew, LedgerInv, PeekStaysRight, WouldLaunch
      <3>3. BegunIsBound'
        <4> SUFFICES ASSUME NEW q \in Requests, pc'[q] \in {"begun", "waiting"} \cup Executing
                     PROVE  q \in admitted /\ state'[bind[q]] # "absent" /\ task'[bind[q]] = ask[q]
          BY <2>4 DEF BegunIsBound, BeginNew
        <4>1. CASE q = r
          BY <1>0, <2>4, <3>2, <4>1 DEF BeginNew, TypeOK, Lands, Executing
        <4>2. CASE q # r
          <5>1. pc[q] = pc'[q] /\ bind[q] \in Bindings
            BY <1>0, <2>4, <4>2 DEF BeginNew, TypeOK, Executing
          <5>2. q \in admitted /\ state[bind[q]] # "absent" /\ task[bind[q]] = ask[q]
            BY <5>1 DEF LedgerInv, BegunIsBound
          <5>3. QED
            BY <1>0, <5>1, <5>2 DEF Moves, Onward, TypeOK, States
        <4>3. QED
          BY <4>1, <4>2
      <3>4. PeekStaysRight'
        <4> SUFFICES ASSUME NEW q \in Requests, pc'[q] = "begin", q \notin admitted
                     PROVE  ~WouldLaunch(q)'
          BY <2>4 DEF PeekStaysRight, BeginNew
        <4>1. pc[q] = "begin" /\ bind[q] \in Bindings
          BY <1>0, <2>4 DEF BeginNew, TypeOK
        <4>2. ~WouldLaunch(q)
          BY <4>1 DEF LedgerInv, PeekStaysRight
        <4>3. QED
          BY <1>0, <1>1, <4>1, <4>2 DEF WouldLaunch, Moves, Onward, TypeOK, States
      <3>5. QED
        BY <3>1, <3>3, <3>4 DEF RequestInv
    <2>5. ASSUME NEW w \in Writes, BeginExisting(r, w)
          PROVE  RequestInv'
      <3>1. UNCHANGED <<bind, ask, inflight, admitted, state, task>>
        BY <2>5 DEF BeginExisting
      <3>2. FlightIsTheExecutor'
        BY <1>0, <2>5, <3>1 DEF BeginExisting, LedgerInv, FlightIsTheExecutor, TypeOK, Executing
      <3>3. BegunIsBound'
        BY <1>0, <2>5, <3>1 DEF BeginExisting, Resumes, LedgerInv, BegunIsBound, PeekStaysRight, WouldLaunch,
           TypeOK, Executing
      <3>4. PeekStaysRight'
        BY <1>0, <2>5, <3>1 DEF BeginExisting, LedgerInv, PeekStaysRight, WouldLaunch, TypeOK
      <3>5. QED
        BY <3>2, <3>3, <3>4 DEF RequestInv
    <2>6. CASE AwaitPrior(r)
      BY <1>0, <2>6, NobodyEnters DEF AwaitPrior, TypeOK, Executing
    <2>7. CASE Wake(r)
      <3>1. r \in admitted
        BY <2>7 DEF Wake, LedgerInv, BegunIsBound
      <3>2. QED
        BY <1>0, <2>7, <3>1, NobodyEnters DEF Wake, TypeOK, Executing
    <2>8. CASE /\ UNCHANGED <<inflight, admitted>>
               /\ \E p \in Executing \cup {"done"} : pc' = [pc EXCEPT ![r] = p]
               /\ pc[r] \in Executing \/ pc'[r] = "done"
      BY <1>0, <1>1, <2>8, NobodyEnters DEF TypeOK, Executing
    <2>9. QED
      BY <1>0, <2>1, <2>2, <2>3, <2>4, <2>5, <2>6, <2>7, <2>8 DEF Step, PipelineThrows, EndsBeforeRun,
         PipelineEnds, RecordChildren, Settle, Persist, StartAgent, BindAndPrompt, ReconcileWrite, End,
         TypeOK, Executing
  <1>6. QED
    BY <1>2, <1>4, <1>5, LedgerParts

(* markEffecting: the record was `recorded', so nobody crossed before. *)
LEMMA LedgerMark ==
    ASSUME LedgerInv, TypeOK', Moves, NEW r \in Requests, NEW w \in Writes, MarkEffecting(r, w)
    PROVE  LedgerInv'
  <1>0. TypeOK /\ pc[r] = "routing" /\ bind[r] \in Bindings
    BY DEF LedgerInv, TypeOK, MarkEffecting
  <1>1. /\ UNCHANGED <<bind, ask, admitted, inflight, task, phase>>
        /\ \E p \in {"effecting", "settling"} : pc' = [pc EXCEPT ![r] = p]
    BY DEF MarkEffecting, End, proc
  <1>2. RequestInv'
    BY <1>0, <1>1, NobodyEnters DEF TypeOK, Executing
  <1>3. EffectInv'
    <2>1. CASE crossed' = crossed
      BY <1>0, <1>1, <2>1, NoCrossing DEF TypeOK
    <2>2. CASE state[bind[r]] \in MarkExpect /\ w = "ok"
      <3>1. /\ crossed' = crossed \cup {r}
            /\ state[bind[r]] = "recorded"
            /\ state' = [state EXCEPT ![bind[r]] = "effecting"]
        BY <2>2 DEF MarkEffecting, MarkExpect, Lands
      <3>2. \A q \in crossed : bind[q] # bind[r] /\ bind[q] \in Bindings /\ q \in Requests
        BY <1>0, <3>1 DEF LedgerInv, CrossingIsRecorded, TypeOK
      <3>3. AtMostOnce'
        BY <1>1, <3>1, <3>2 DEF LedgerInv, AtMostOnce
      <3>4. OnlyTheBoundTask'
        BY <1>0, <1>1, <3>1 DEF LedgerInv, OnlyTheBoundTask, BegunIsBound, Executing
      <3>5. CrossingIsRecorded'
        BY <1>0, <1>1, <3>1, <3>2 DEF LedgerInv, CrossingIsRecorded, TypeOK
      <3>6. QED
        BY <3>3, <3>4, <3>5 DEF EffectInv
    <2>3. QED
      BY <2>1, <2>2 DEF MarkEffecting
  <1>4. EffectingIsThisProcess'
    <2>1. CASE UNCHANGED <<state, marker>>
      BY <1>0, <1>1, <2>1, SameEffecting DEF TypeOK
    <2>2. CASE /\ state' = [state EXCEPT ![bind[r]] = "effecting"]
               /\ marker' = [marker EXCEPT ![bind[r]] = r]
      <3> SUFFICES ASSUME NEW b \in Bindings, phase' \in {"sweeping", "serving"}, state'[b] = "effecting"
                   PROVE  marker'[b] # None /\ pc'[marker'[b]] # "lost"
        BY DEF EffectingIsThisProcess
      <3>1. CASE b = bind[r]
        BY <1>0, <1>1, <2>2, <3>1, NoneAssumption DEF TypeOK
      <3>2. CASE b # bind[r]
        BY <1>0, <1>1, <2>2, <3>2 DEF TypeOK, LedgerInv, EffectingIsThisProcess
      <3>3. QED
        BY <3>1, <3>2
    <2>3. QED
      BY <2>1, <2>2 DEF MarkEffecting
  <1>5. QED
    BY <1>2, <1>3, <1>4, LedgerParts

(* A restart leaves requests alone and only lowers effecting records; none *)
(* is left when the sweep begins.                                          *)
LEMMA LedgerRestart ==
    ASSUME LedgerInv, TypeOK', Moves, Restart
    PROVE  LedgerInv'
  <1>0. TypeOK
    BY DEF LedgerInv
  <1>1. UNCHANGED <<calls, inflight, marker, crossed>>
    BY DEF Restart, StartDaemon, RecoveryDone, Serve, RecoverInterrupted, SweepSkips, SweepIntent, history
  <1>2. RequestInv'
    BY <1>0, <1>1, NobodyEnters DEF calls
  <1>3. EffectInv'
    BY <1>0, <1>1, NoCrossing DEF calls
  <1>4. EffectingIsThisProcess'
    <2>1. CASE RecoveryDone
      BY <2>1 DEF RecoveryDone, Interrupted, EffectingIsThisProcess, record
    <2>2. CASE ~RecoveryDone
      <3>1. phase' \in {"sweeping", "serving"} => phase \in {"sweeping", "serving"}
        BY <2>2 DEF Restart, StartDaemon, Serve, RecoverInterrupted, SweepSkips, SweepIntent
      <3>2. \A b \in Bindings : state'[b] = "effecting" => state[b] = "effecting"
        <4>1. CASE UNCHANGED state
          BY <4>1
        <4>2. ASSUME NEW b \in Bindings, state' = [state EXCEPT ![b] = "unresolved"]
              PROVE  \A c \in Bindings : state'[c] = "effecting" => state[c] = "effecting"
          BY <1>0, <4>2 DEF TypeOK
        <4>3. ASSUME NEW b \in Bindings, state' = [state EXCEPT ![b] = "completed"]
              PROVE  \A c \in Bindings : state'[c] = "effecting" => state[c] = "effecting"
          BY <1>0, <4>3 DEF TypeOK
        <4>4. QED
          BY <2>2, <4>1, <4>2, <4>3 DEF Restart, StartDaemon, Serve, RecoverInterrupted, SweepSkips, SweepIntent,
             Reconcile, record
      <3>3. QED
        BY <1>0, <1>1, <3>1, <3>2, SameEffecting DEF calls
    <2>3. QED
      BY <2>1, <2>2
  <1>5. QED
    BY <1>2, <1>3, <1>4, LedgerParts

(* A crash empties the inflight map with the executions it kept apart. *)
LEMMA LedgerCrash ==
    ASSUME LedgerInv, TypeOK', Moves, Crash
    PROVE  LedgerInv'
  <1>0. TypeOK
    BY DEF LedgerInv
  <1>1. /\ UNCHANGED <<bind, ask, admitted, state, task, marker, crossed>>
        /\ phase' = "down"
        /\ \A r \in Requests : pc'[r] \in {"idle", "done", "lost"} /\ (pc'[r] = "idle" <=> pc[r] = "idle")
    BY DEF Crash, record
  <1>2. RequestInv'
    BY <1>1 DEF RequestInv, FlightIsTheExecutor, BegunIsBound, PeekStaysRight, Executing
  <1>3. EffectInv'
    BY <1>1, NoCrossing
  <1>4. EffectingIsThisProcess'
    BY <1>1 DEF EffectingIsThisProcess
  <1>5. QED
    BY <1>2, <1>3, <1>4, LedgerParts

(* An arrival gives an idle request a binding of its own. *)
LEMMA LedgerArrival ==
    ASSUME LedgerInv, TypeOK', Moves, NEW r \in Requests, NEW b \in Bindings, pc[r] = "idle",
           UNCHANGED <<state, task, inflight, admitted, marker, crossed, phase>>,
           bind' = [bind EXCEPT ![r] = b],
           \A q \in Requests \ {r} : ask'[q] = ask[q],
           \E p \in {"peek", "reconcile", "done"} : pc' = [pc EXCEPT ![r] = p]
    PROVE  LedgerInv'
  <1>0. TypeOK
    BY DEF LedgerInv
  <1>1. \A q \in Requests \ {r} : pc'[q] = pc[q] /\ bind'[q] = bind[q] /\ ask'[q] = ask[q]
    BY <1>0 DEF TypeOK
  <1>2. pc'[r] \in {"peek", "reconcile", "done"}
    BY <1>0 DEF TypeOK
  <1>3. RequestInv'
    <2>1. FlightIsTheExecutor'
      BY <1>1, <1>2 DEF LedgerInv, FlightIsTheExecutor, Executing
    <2>2. BegunIsBound'
      BY <1>1, <1>2 DEF LedgerInv, BegunIsBound, Executing
    <2>3. PeekStaysRight'
      BY <1>1, <1>2 DEF LedgerInv, PeekStaysRight, WouldLaunch
    <2>4. QED
      BY <2>1, <2>2, <2>3 DEF RequestInv
  <1>4. EffectInv'
    BY <1>0, <1>1, <1>2, NoCrossing
  <1>5. EffectingIsThisProcess'
    BY <1>0, <1>1, <1>2, SameEffecting
  <1>6. QED
    BY <1>3, <1>4, <1>5, LedgerParts

(* Every step keeps the ledger invariant.                                  *)
LEMMA LedgerStep == LedgerInv /\ [Next]_vars => LedgerInv'
  <1> SUFFICES ASSUME LedgerInv, [Next]_vars PROVE LedgerInv'
    OBVIOUS
  <1>0. TypeOK /\ TypeOK' /\ Moves
    BY TypeStep, NextMoves DEF LedgerInv
  <1>1. ASSUME NEW r \in Requests, NEW b \in Bindings, NEW t \in Tasks, Arrive(r, b, t)
        PROVE  LedgerInv'
    BY <1>0, <1>1, LedgerArrival DEF Arrive, TypeOK, proc, record, history
  <1>2. ASSUME NEW r \in Requests, NEW b \in Bindings, NEW d \in [Names -> Dispositions], ReconcileRead(r, b, d)
        PROVE  LedgerInv'
    BY <1>0, <1>2, LedgerArrival DEF ReconcileRead, TypeOK, proc, record, history
  <1>3. ASSUME NEW r \in Requests, Step(r)
        PROVE  LedgerInv'
    BY <1>0, <1>3, LedgerRequest, LedgerMark
  <1>4. CASE UNCHANGED <<state, task, inflight, admitted, marker, crossed, phase, bind, ask, pc>>
    <2>1. RequestInv'
      BY <1>0, <1>4, NobodyEnters
    <2>2. EffectInv'
      BY <1>0, <1>4, NoCrossing
    <2>3. EffectingIsThisProcess'
      BY <1>0, <1>4, SameEffecting
    <2>4. QED
      BY <1>0, <2>1, <2>2, <2>3, LedgerParts
  <1>5. CASE Crash
    BY <1>0, <1>5, LedgerCrash
  <1>6. CASE Restart
    BY <1>0, <1>6, LedgerRestart
  <1>7. QED
    BY <1>1, <1>2, <1>3, <1>4, <1>5, <1>6 DEF Next, RelaunchPersist, RelaunchRecord, AgentExits, vars, proc,
       record, calls, history

(* The ledger invariant holds in every reachable state. *)
THEOREM Ledger == Spec => []LedgerInv
  BY LedgerInit, LedgerStep, PTL DEF Spec

(* No two requests on one idempotency key get past beforeFirstEffect, for  *)
(* any number of requests, crashes and faulty writes.                      *)
THEOREM EffectsAtMostOnce == Spec => []AtMostOnce
  <1>1. LedgerInv => AtMostOnce
    BY DEF LedgerInv
  <1>2. QED
    BY <1>1, Ledger, PTL

(* A key never executes a task other than the one it was first bound to. *)
THEOREM EffectsOfTheBoundTask == Spec => []OnlyTheBoundTask
  <1>1. LedgerInv => OnlyTheBoundTask
    BY DEF LedgerInv
  <1>2. QED
    BY <1>1, Ledger, PTL

(* runtime.inflight admits one executor of a binding at a time. *)
THEOREM ExecutorsAreSerialized == Spec => []SingleFlight
  <1>1. LedgerInv => SingleFlight
    BY DEF LedgerInv, FlightIsTheExecutor, SingleFlight, Executes
  <1>2. QED
    BY <1>1, Ledger, PTL

(* The pipeline runs only for a request that passed capacity admission,    *)
(* although admission is decided on an unlocked read.                      *)
THEOREM EffectsAreAdmitted == Spec => []AdmittedBeforeEffect
  <1>1. LedgerInv => AdmittedBeforeEffect
    BY DEF LedgerInv, BegunIsBound, AdmittedBeforeEffect
  <1>2. QED
    BY <1>1, Ledger, PTL

(* After recoverInterrupted no record is left effecting by a dead process. *)
THEOREM RestartClearsEffecting == Spec => []EffectingIsThisProcess
  <1>1. LedgerInv => EffectingIsThisProcess
    BY DEF LedgerInv
  <1>2. QED
    BY <1>1, Ledger, PTL

-----------------------------------------------------------------------------
(* What the ledger tells of the children that exist: that a settled and a   *)
(* reconciled record account for them, and that the store, the handler and  *)
(* the restart sweep implement the contract of a key.                       *)

Acting == {"effecting", "persisted", "launching", "started", "prompted"}

(* While the daemon is not serving nothing of a request runs.              *)
DownIsQuiet ==
    phase # "serving" =>
        \A r \in Requests : pc[r] \in {"idle", "done", "lost"} /\ relaunch[r] \notin {"armed", "persisted"}

(* A request carries its task from its arrival until it has been answered; *)
(* a record has one from its first write.                                  *)
TasksAreCarried ==
    /\ \A r \in Requests :
          /\ pc[r] = "idle" => ask[r] = None
          /\ pc[r] \in {"peek", "begin", "begun", "waiting"} \cup Executing => ask[r] \in Tasks
    /\ \A b \in Bindings : IF state[b] = "absent" THEN task[b] = None ELSE task[b] \in Tasks

(* Who acts has crossed, holds the mark and finds its record effecting.    *)
ActingHasCrossed ==
    \A r \in Requests :
        /\ pc[r] \in Acting => r \in crossed
        /\ pc[r] = "settling" /\ verdict[r] = "launched" => r \in crossed
        /\ r \in crossed =>
              /\ marker[bind[r]] = r
              /\ pc[r] \in Acting \cup {"settling", "settled", "done", "lost"}
              /\ pc[r] \in Acting \cup {"settling"} => state[bind[r]] = "effecting"

(* Runs are made by requests that crossed, the child's before a relaunch's. *)
RunsAreOfCrossings ==
    /\ \A r \in Requests, n \in Names : <<r, n>> \in runs => r \in crossed /\ <<r, "child">> \in runs
    /\ \A r \in Requests, n \in Names : n \in observed[r] => <<r, n>> \in runs
    /\ \A r \in Requests :
          /\ pc[r] \in Acting \cup {"settling"} /\ <<r, "child">> \in runs => "child" \in observed[r]
          /\ pc[r] = "effecting" => <<r, "child">> \notin runs
          /\ pc[r] \in Acting \ {"effecting"} => <<r, "child">> \in runs

(* A recorded child is a run of the binding, and a relaunch is recorded    *)
(* after the child it replaces.                                            *)
ChildrenAreRuns ==
    /\ \A b \in Bindings, n \in Names :
          child[b][n] # None => bind[child[b][n]] = b /\ <<child[b][n], n>> \in runs
    /\ \A b \in Bindings : child[b]["relaunch"] # None => child[b]["child"] = child[b]["relaunch"]
    /\ \A r \in Requests :
          /\ pc[r] \in {"launching", "started", "prompted"} => child[bind[r]]["child"] = r
          /\ relaunch[r] \in {"armed", "persisted"} => child[bind[r]]["child"] = r
          /\ relaunch[r] = "persisted" => <<r, "relaunch">> \in runs
          /\ "relaunch" \in observed[r] => child[bind[r]]["child"] = r

Unrecorded(r) == <<r, "child">> \in runs /\ child[bind[r]]["child"] # r

(* It takes a faulty write to leave a child off its record, and a second   *)
(* one to leave it off after the settle.                                   *)
FaultsOfUnrecorded ==
    \A r \in Requests :
        Unrecorded(r) =>
            /\ pc[r] = "settling" => faults >= 1
            /\ pc[r] \in {"settled", "done"} /\ state[bind[r]] = "effecting" => faults >= 2

(* A good disposition, on record or on its way there, is of an agent that  *)
(* has been seen.                                                          *)
Good == {"bound", "identity_lost"}
Seen == {"live", "gone"}

DispositionsAreSeen ==
    /\ \A b \in Bindings, n \in Names :
          /\ state[b] \in {"absent", "recorded", "effecting"} => disp[b][n] = "none"
          /\ child[b][n] # None /\ disp[b][n] \in Good => agent[<<child[b][n], n>>] \in Seen
    /\ \A r \in Requests :
          /\ pc[r] = "prompted" => agent[<<r, "child">>] \in Seen
          /\ pc[r] = "settling" /\ verdict[r] = "launched" /\ "child" \in observed[r]
                => agent[<<r, "child">>] \in Seen
          /\ pc[r] = "reconcile" => state[bind[r]] \in {"unresolved", "completed"}
    /\ \A r \in Requests, n \in Names :
          pc[r] = "reconcile" /\ child[bind[r]][n] # None /\ found[r][n] \in Good
              => agent[<<child[bind[r]][n], n>>] \in Seen
    /\ \A b \in reconciled : state[b] = "completed"

AccountInv ==
    /\ LedgerInv
    /\ DownIsQuiet
    /\ TasksAreCarried
    /\ ActingHasCrossed
    /\ RunsAreOfCrossings
    /\ ChildrenAreRuns
    /\ FaultsOfUnrecorded
    /\ DispositionsAreSeen
    /\ ReconciledIsAccounted
    /\ faults <= 1 => SettledAccountsForRuns
-----------------------------------------------------------------------------
(* The parts of the invariant that speak of the runs and their records.    *)
Accounts ==
    /\ DownIsQuiet
    /\ TasksAreCarried
    /\ ActingHasCrossed
    /\ RunsAreOfCrossings
    /\ ChildrenAreRuns
    /\ FaultsOfUnrecorded
    /\ DispositionsAreSeen
    /\ ReconciledIsAccounted
    /\ faults <= 1 => SettledAccountsForRuns

(* A faulty write is counted.                                              *)
LEMMA FaultsCount ==
    ASSUME TypeOK, NEW w \in Writes, Attempt(w)
    PROVE  /\ faults' \in Nat /\ faults' >= faults
           /\ w # "ok" => faults' = faults + 1
  BY BoundAssumption DEF TypeOK, Attempt

(* A request outside the pipeline moves on, or an executor is done: no     *)
(* run, child or disposition is touched.                                   *)
QuietStep(r) ==
    /\ UNCHANGED <<phase, bind, ask, child, disp, reconciled, runs, agent, observed, found, relaunch, crossed, marker>>
    /\ faults' >= faults /\ faults' \in Nat
    /\ phase = "serving"
    /\ pc[r] \in {"peek", "begin", "begun", "waiting", "routing", "settled"}
    /\ pc'[r] \in {"begin", "begun", "waiting", "routing", "settling", "done"}
    /\ \A q \in Requests \ {r} : pc'[q] = pc[q]
    /\ pc[r] = "settled" => pc'[r] = "done"
    /\ pc'[r] = "settling" => verdict'[r] # "launched"
    /\ \A q \in Requests \ {r} : verdict'[q] = verdict[q]
    /\ \A b \in Bindings : \/ state'[b] = state[b] /\ task'[b] = task[b]
                           \/ state[b] = "absent" /\ state'[b] = "recorded" /\ task'[b] \in Tasks

(* A quiet step keeps the accounts.                                        *)
LEMMA QuietMove ==
    ASSUME AccountInv, TypeOK', NEW r \in Requests, QuietStep(r)
    PROVE  Accounts'
  <1> USE DEF QuietStep
  <1>0. TypeOK
    BY DEF AccountInv, LedgerInv
  <1>1. /\ \A q \in Requests \ {r} : pc'[q] = pc[q]
        /\ pc'[r] \in {"begin", "begun", "waiting", "routing", "settling", "done"}
    OBVIOUS
  <1>2. \A q \in crossed : q \in Requests /\ bind[q] \in Bindings /\ state'[bind[q]] = state[bind[q]]
    BY <1>0 DEF AccountInv, LedgerInv, CrossingIsRecorded, TypeOK
  <1>3. DownIsQuiet'
    BY DEF DownIsQuiet
  <1>4. TasksAreCarried'
    BY <1>0, <1>1 DEF AccountInv, TasksAreCarried, Executing
  <1>5. ActingHasCrossed'
    BY <1>0, <1>1, <1>2 DEF AccountInv, ActingHasCrossed, Acting
  <1>6. r \in crossed => pc[r] = "settled"
    BY DEF AccountInv, ActingHasCrossed, Acting
  <1>7. \A q \in Requests : <<q, "child">> \in runs => q \in crossed
    BY DEF AccountInv, RunsAreOfCrossings, Names
  <1>8. RunsAreOfCrossings'
    BY <1>1, <1>6, <1>7 DEF AccountInv, RunsAreOfCrossings, Acting
  <1>9. ChildrenAreRuns'
    BY <1>1 DEF AccountInv, ChildrenAreRuns
  <1>10. FaultsOfUnrecorded'
    BY <1>0, <1>1, <1>2, <1>6, <1>7 DEF AccountInv, FaultsOfUnrecorded, Unrecorded, TypeOK
  <1>11. DispositionsAreSeen'
    <2>1. \A q \in Requests : pc'[q] = "reconcile" => pc[q] = "reconcile" /\ q # r /\ bind[q] \in Bindings
      BY <1>0, <1>1 DEF TypeOK
    <2>2. \A q \in Requests : pc[q] = "reconcile" => state[bind[q]] \in {"unresolved", "completed"}
      BY DEF AccountInv, DispositionsAreSeen
    <2>3. \A q \in Requests : pc'[q] = "reconcile" => state'[bind[q]] \in {"unresolved", "completed"}
      BY <2>1, <2>2
    <2>4. /\ \A b \in Bindings : /\ state'[b] \in {"absent", "recorded", "effecting"}
                                      => state[b] \in {"absent", "recorded", "effecting"}
                                 /\ state[b] = "completed" => state'[b] = "completed"
          /\ reconciled \subseteq Bindings
      BY <1>0 DEF TypeOK
    <2>5. \A b \in reconciled : state'[b] = "completed"
      BY <2>4 DEF AccountInv, DispositionsAreSeen
    <2> QED
      BY <1>1, <2>1, <2>3, <2>4, <2>5 DEF AccountInv, DispositionsAreSeen
  <1>12. ReconciledIsAccounted'
    BY DEF AccountInv, ReconciledIsAccounted, Kids
  <1>13. (faults <= 1 => SettledAccountsForRuns)'
    BY <1>0, <1>2, <1>7 DEF AccountInv, SettledAccountsForRuns, TypeOK
  <1> QED
    BY <1>3, <1>4, <1>5, <1>8, <1>9, <1>10, <1>11, <1>12, <1>13 DEF Accounts

(* What every step rests on.                                               *)
LEMMA AccountFacts ==
    ASSUME AccountInv
    PROVE  /\ TypeOK
           /\ \A q \in crossed : q \in Requests /\ bind[q] \in Bindings /\ state[bind[q]] \notin {"absent", "recorded"}
           /\ \A q1, q2 \in crossed : bind[q1] = bind[q2] => q1 = q2
           /\ \A q \in Requests, n \in Names : <<q, n>> \in runs => q \in crossed /\ <<q, "child">> \in runs
           /\ \A q \in Requests : pc[q] = "reconcile" =>
                 bind[q] \in Bindings /\ state[bind[q]] \in {"unresolved", "completed"}
           /\ \A q1, q2 \in Requests :
                 pc[q1] \in Executing /\ pc[q2] \in Executing /\ bind[q1] = bind[q2] => q1 = q2
           /\ "child" \in Names /\ "relaunch" \in Names
  <1>1. TypeOK
    BY DEF AccountInv, LedgerInv
  <1>2. \A q \in crossed : q \in Requests /\ bind[q] \in Bindings /\ state[bind[q]] \notin {"absent", "recorded"}
    BY <1>1 DEF AccountInv, LedgerInv, CrossingIsRecorded, TypeOK
  <1>3. \A q1, q2 \in crossed : bind[q1] = bind[q2] => q1 = q2
    BY DEF AccountInv, LedgerInv, AtMostOnce
  <1>4. \A q \in Requests, n \in Names : <<q, n>> \in runs => q \in crossed /\ <<q, "child">> \in runs
    BY DEF AccountInv, RunsAreOfCrossings
  <1>5. \A q \in Requests : pc[q] = "reconcile" =>
           bind[q] \in Bindings /\ state[bind[q]] \in {"unresolved", "completed"}
    BY <1>1 DEF AccountInv, DispositionsAreSeen, TypeOK
  <1>6. \A q1, q2 \in Requests :
           pc[q1] \in Executing /\ pc[q2] \in Executing /\ bind[q1] = bind[q2] => q1 = q2
    BY DEF AccountInv, LedgerInv, FlightIsTheExecutor
  <1>7. "child" \in Names /\ "relaunch" \in Names
    BY DEF Names
  <1> QED
    BY <1>1, <1>2, <1>3, <1>4, <1>5, <1>6, <1>7

(* markEffecting: the boundary is crossed on a record nobody had crossed,  *)
(* or the hook throws and nothing was made.                                *)
LEMMA AccountMark ==
    ASSUME AccountInv, TypeOK', NEW r \in Requests, NEW w \in Writes, MarkEffecting(r, w)
    PROVE  Accounts'
  <1> DEFINE b == bind[r]
  <1>1. /\ UNCHANGED <<phase, bind, ask, child, disp, reconciled, runs, agent, observed, found, relaunch, task>>
        /\ phase = "serving" /\ pc[r] = "routing" /\ faults' >= faults /\ faults' \in Nat
    BY AccountFacts, FaultsCount DEF MarkEffecting, proc, world, Serving
  <1>2. b \in Bindings /\ r \notin crossed /\ TypeOK
    BY <1>1, AccountFacts DEF TypeOK, AccountInv, ActingHasCrossed, Acting
  <1>3. \/ /\ state[b] = "recorded" /\ state' = [state EXCEPT ![b] = "effecting"]
           /\ marker' = [marker EXCEPT ![b] = r]
        \/ UNCHANGED <<state, marker>>
    BY DEF MarkEffecting, MarkExpect
  <1>4. \/ /\ pc' = [pc EXCEPT ![r] = "effecting"] /\ crossed' = crossed \cup {r} /\ verdict' = verdict
           /\ state'[b] = "effecting" /\ marker'[b] = r
        \/ /\ pc' = [pc EXCEPT ![r] = "settling"] /\ crossed' = crossed
           /\ verdict' = [verdict EXCEPT ![r] = "failed"]
    BY <1>2 DEF MarkEffecting, MarkExpect, Lands, End, TypeOK
  <1>5. /\ \A q \in Requests \ {r} : pc'[q] = pc[q] /\ verdict'[q] = verdict[q]
        /\ \A q \in crossed : bind[q] # b => state'[bind[q]] = state[bind[q]] /\ marker'[bind[q]] = marker[bind[q]]
        /\ \A q \in crossed : state'[bind[q]] = state[bind[q]] /\ marker'[bind[q]] = marker[bind[q]]
        /\ \A c \in Bindings : state'[c] = state[c] \/ (state[c] = "recorded" /\ state'[c] = "effecting")
    BY <1>2, <1>3, <1>4, AccountFacts DEF TypeOK
  <1>6. /\ pc'[r] \in {"effecting", "settling"} /\ (pc'[r] = "effecting" <=> r \in crossed')
        /\ pc'[r] = "settling" => verdict'[r] = "failed"
        /\ pc'[r] = "effecting" => state'[b] = "effecting" /\ marker'[b] = r
        /\ \A q \in Requests \ {r} : q \in crossed' <=> q \in crossed
    BY <1>2, <1>4 DEF TypeOK
  <1>7. DownIsQuiet'
    BY <1>1 DEF DownIsQuiet
  <1>8. TasksAreCarried'
    BY <1>1, <1>2, <1>5, <1>6 DEF AccountInv, TasksAreCarried, Executing
  <1>9. ActingHasCrossed'
    BY <1>1, <1>5, <1>6 DEF AccountInv, ActingHasCrossed, Acting
  <1>10. \A n \in Names : <<r, n>> \notin runs
    BY <1>2, AccountFacts
  <1>11. RunsAreOfCrossings'
    BY <1>1, <1>5, <1>6, <1>10, AccountFacts DEF AccountInv, RunsAreOfCrossings, Acting
  <1>12. ChildrenAreRuns'
    BY <1>1, <1>5, <1>6 DEF AccountInv, ChildrenAreRuns
  <1>13. FaultsOfUnrecorded'
    BY <1>1, <1>2, <1>5, <1>10, AccountFacts DEF AccountInv, FaultsOfUnrecorded, Unrecorded, TypeOK
  <1>14. DispositionsAreSeen'
    <2>1. \A q \in Requests : pc'[q] = "reconcile" => pc[q] = "reconcile" /\ state'[bind[q]] = state[bind[q]]
      BY <1>5, <1>6, AccountFacts
    <2>2. \A c \in reconciled : state'[c] = "completed"
      BY <1>2, <1>5 DEF AccountInv, DispositionsAreSeen, TypeOK
    <2> QED
      BY <1>1, <1>5, <1>6, <2>1, <2>2 DEF AccountInv, DispositionsAreSeen
  <1>15. ReconciledIsAccounted'
    BY <1>1 DEF AccountInv, ReconciledIsAccounted, Kids
  <1>16. (faults <= 1 => SettledAccountsForRuns)'
    BY <1>1, <1>2, <1>5, AccountFacts DEF AccountInv, SettledAccountsForRuns, TypeOK
  <1> QED
    BY <1>7, <1>8, <1>9, <1>11, <1>12, <1>13, <1>14, <1>15, <1>16 DEF Accounts

(* The pipeline of a request that crossed ends: before its run, or with    *)
(* the child launched or failed.                                           *)
LEMMA AccountEnds ==
    ASSUME AccountInv, TypeOK', NEW r \in Requests, NEW v \in {"failed", "launched"},
           EndsBeforeRun(r, v) \/ PipelineEnds(r, v)
    PROVE  Accounts'
  <1>1. /\ UNCHANGED <<phase, bind, ask, state, task, child, disp, reconciled, runs, agent, observed, found, relaunch,
                       marker, crossed, faults>>
        /\ phase = "serving" /\ pc[r] \in {"effecting", "launching", "started", "prompted"}
        /\ v = "launched" => pc[r] \in {"effecting", "prompted"}
        /\ pc' = [pc EXCEPT ![r] = "settling"] /\ verdict' = [verdict EXCEPT ![r] = v]
    BY DEF EndsBeforeRun, PipelineEnds, End, proc, record, world, history, Serving
  <1>2. TypeOK /\ r \in crossed /\ faults \in Nat
    BY <1>1, AccountFacts, BoundAssumption DEF TypeOK, AccountInv, ActingHasCrossed, Acting
  <1>3. /\ \A q \in Requests \ {r} : pc'[q] = pc[q] /\ verdict'[q] = verdict[q]
        /\ pc'[r] = "settling" /\ verdict'[r] = v
    BY <1>1, <1>2 DEF TypeOK
  <1>4. DownIsQuiet'
    BY <1>1 DEF DownIsQuiet
  <1>5. TasksAreCarried'
    BY <1>1, <1>2, <1>3 DEF AccountInv, TasksAreCarried, Executing
  <1>6. ActingHasCrossed'
    BY <1>1, <1>2, <1>3 DEF AccountInv, ActingHasCrossed, Acting
  <1>7. RunsAreOfCrossings'
    BY <1>1, <1>3 DEF AccountInv, RunsAreOfCrossings, Acting
  <1>8. ChildrenAreRuns'
    BY <1>1, <1>3 DEF AccountInv, ChildrenAreRuns
  <1>9. ~Unrecorded(r)
    BY <1>1 DEF AccountInv, RunsAreOfCrossings, ChildrenAreRuns, Unrecorded
  <1>10. FaultsOfUnrecorded'
    BY <1>1, <1>3, <1>9 DEF AccountInv, FaultsOfUnrecorded, Unrecorded
  <1>11. DispositionsAreSeen'
    <2>1. v = "launched" /\ "child" \in observed[r] => agent[<<r, "child">>] \in Seen
      BY <1>1, AccountFacts DEF AccountInv, DispositionsAreSeen, RunsAreOfCrossings
    <2> QED
      BY <1>1, <1>3, <2>1 DEF AccountInv, DispositionsAreSeen
  <1>12. ReconciledIsAccounted'
    BY <1>1 DEF AccountInv, ReconciledIsAccounted, Kids
  <1>13. (faults <= 1 => SettledAccountsForRuns)'
    BY <1>1 DEF AccountInv, SettledAccountsForRuns
  <1> QED
    BY <1>4, <1>5, <1>6, <1>7, <1>8, <1>10, <1>11, <1>12, <1>13 DEF Accounts

(* The run is durable, then it is observed.                                *)
LEMMA AccountPersist ==
    ASSUME AccountInv, TypeOK', NEW r \in Requests, Persist(r)
    PROVE  Accounts'
  <1>1. /\ UNCHANGED <<phase, bind, ask, state, task, child, disp, reconciled, agent, found, relaunch, verdict,
                       marker, crossed, faults>>
        /\ phase = "serving" /\ pc[r] = "effecting"
        /\ pc' = [pc EXCEPT ![r] = "persisted"] /\ observed' = [observed EXCEPT ![r] = @ \cup {"child"}]
        /\ runs' = runs \cup {<<r, "child">>}
    BY DEF Persist, proc, record, history, Serving
  <1>2. TypeOK /\ r \in crossed /\ faults \in Nat /\ state[bind[r]] = "effecting" /\ bind[r] \in Bindings
    BY <1>1, AccountFacts, BoundAssumption DEF TypeOK, AccountInv, ActingHasCrossed, Acting
  <1>3. /\ \A q \in Requests \ {r} : pc'[q] = pc[q] /\ observed'[q] = observed[q]
        /\ pc'[r] = "persisted" /\ observed'[r] = observed[r] \cup {"child"}
    BY <1>1, <1>2 DEF TypeOK
  <1>4. DownIsQuiet'
    BY <1>1 DEF DownIsQuiet
  <1>5. TasksAreCarried'
    BY <1>1, <1>2, <1>3 DEF AccountInv, TasksAreCarried, Executing
  <1>6. ActingHasCrossed'
    BY <1>1, <1>2, <1>3 DEF AccountInv, ActingHasCrossed, Acting
  <1>7. \A q \in Requests, n \in Names : <<q, n>> \in runs' <=> <<q, n>> \in runs \/ (q = r /\ n = "child")
    BY <1>1
  <1>8. RunsAreOfCrossings'
    BY <1>1, <1>2, <1>3, <1>7, AccountFacts DEF AccountInv, RunsAreOfCrossings, Acting
  <1>9. ChildrenAreRuns'
    BY <1>1, <1>3 DEF AccountInv, ChildrenAreRuns
  <1>10. FaultsOfUnrecorded'
    BY <1>1, <1>3, <1>7, AccountFacts DEF AccountInv, FaultsOfUnrecorded, Unrecorded
  <1>11. DispositionsAreSeen'
    BY <1>1, <1>3 DEF AccountInv, DispositionsAreSeen
  <1>12. ReconciledIsAccounted'
    BY <1>1 DEF AccountInv, ReconciledIsAccounted, Kids
  <1>13. (faults <= 1 => SettledAccountsForRuns)'
    BY <1>1, <1>2, <1>7, AccountFacts DEF AccountInv, SettledAccountsForRuns
  <1> QED
    BY <1>4, <1>5, <1>6, <1>8, <1>9, <1>10, <1>11, <1>12, <1>13 DEF Accounts

(* A recorded child is of the one request that crossed on its binding.     *)
LEMMA ChildFacts ==
    ASSUME AccountInv, NEW b \in Bindings, NEW n \in Names, child[b][n] # None
    PROVE  /\ child[b][n] \in Requests /\ bind[child[b][n]] = b /\ <<child[b][n], n>> \in runs
           /\ child[b][n] \in crossed
           /\ child[b]["child"] = child[b][n]
           /\ \A r \in crossed : bind[r] = b => child[b][n] = r
  <1>1. child[b][n] \in Requests
    BY AccountFacts DEF TypeOK
  <1>2. bind[child[b][n]] = b /\ <<child[b][n], n>> \in runs
    BY DEF AccountInv, ChildrenAreRuns
  <1>3. child[b][n] \in crossed
    BY <1>1, <1>2, AccountFacts
  <1>4. child[b]["child"] = child[b][n]
    BY DEF AccountInv, ChildrenAreRuns, Names
  <1> QED
    BY <1>1, <1>2, <1>3, <1>4, AccountFacts

(* A binding with any child on record has the child of its crossing there. *)
LEMMA ChildIsOfTheCrossing ==
    ASSUME AccountInv
    PROVE  \A b \in Bindings, n \in Names, r \in crossed :
              child[b][n] # None /\ bind[r] = b => child[b]["child"] = r
  <1> SUFFICES ASSUME NEW b \in Bindings, NEW n \in Names, NEW r \in crossed, child[b][n] # None, bind[r] = b
               PROVE  child[b]["child"] = r
    OBVIOUS
  <1>1. child[b][n] \in crossed /\ bind[child[b][n]] = b
    BY ChildFacts
  <1>2. child[b]["child"] = child[b][n]
    BY DEF AccountInv, ChildrenAreRuns, Names
  <1> QED
    BY <1>1, <1>2, AccountFacts

(* What a merge of runs leaves on record: the request's own, under the     *)
(* names it brings.                                                        *)
LEMMA MergedChildren ==
    ASSUME TypeOK, NEW b \in Bindings, NEW r \in Requests, NEW names \in SUBSET Names,
           child' = [child EXCEPT ![b] = MergeRuns(b, names, r)]
    PROVE  /\ \A c \in Bindings \ {b} : child'[c] = child[c]
           /\ \A n \in Names : child'[b][n] = IF n \in names THEN r ELSE child[b][n]
  BY DEF TypeOK, MergeRuns

(* A record of children by the one request that crossed.                   *)
LEMMA AccountRecord ==
    ASSUME AccountInv, TypeOK', NEW r \in Requests, NEW w \in Writes, RecordChildren(r, w)
    PROVE  Accounts'
  <1> DEFINE b == bind[r]
  <1>1. /\ UNCHANGED <<phase, bind, ask, state, task, disp, reconciled, runs, agent, observed, found, relaunch, marker, crossed>>
        /\ phase = "serving" /\ pc[r] = "persisted" /\ faults' >= faults /\ faults' \in Nat
        /\ w # "ok" => faults' = faults + 1
    BY AccountFacts, FaultsCount DEF RecordChildren, proc, world, Serving
  <1>2. /\ TypeOK /\ b \in Bindings /\ r \in crossed /\ state[b] = "effecting" /\ faults \in Nat
        /\ <<r, "child">> \in runs
    BY <1>1, AccountFacts, BoundAssumption DEF TypeOK, AccountInv, ActingHasCrossed, RunsAreOfCrossings, Acting
  <1>3. \/ child' = [child EXCEPT ![b] = MergeRuns(b, {"child"}, r)]
        \/ child' = child /\ w = "lost"
    BY <1>2 DEF RecordChildren, ChildrenExpect, Lands
  <1>4. \/ w = "ok" /\ pc' = [pc EXCEPT ![r] = "launching"] /\ verdict' = verdict
        \/ w # "ok" /\ pc' = [pc EXCEPT ![r] = "settling"] /\ verdict' = [verdict EXCEPT ![r] = "failed"]
    BY <1>2 DEF RecordChildren, ChildrenExpect, End
  <1>5. /\ \A c \in Bindings \ {b} : child'[c] = child[c]
        /\ child'[b]["relaunch"] = child[b]["relaunch"]
        /\ child'[b]["child"] = r \/ (child'[b] = child[b] /\ w = "lost")
    <2>1. CASE child' = [child EXCEPT ![b] = MergeRuns(b, {"child"}, r)]
      <3>1. {"child"} \in SUBSET Names
        BY DEF Names
      <3>2. /\ \A c \in Bindings \ {b} : child'[c] = child[c]
            /\ \A n \in Names : child'[b][n] = IF n \in {"child"} THEN r ELSE child[b][n]
        <4>1. TypeOK /\ b \in Bindings
          BY <1>2
        <4> HIDE DEF b
        <4> QED
          BY <4>1, <2>1, <3>1, MergedChildren
      <3> QED
        BY <3>2, AccountFacts
    <2>2. CASE child' = child /\ w = "lost"
      BY <2>2
    <2> QED
      BY <1>3, <2>1, <2>2
  <1>6. /\ \A q \in Requests \ {r} : pc'[q] = pc[q] /\ verdict'[q] = verdict[q]
        /\ pc'[r] = "launching" \/ (pc'[r] = "settling" /\ verdict'[r] = "failed" /\ w # "ok")
        /\ pc'[r] = "launching" => w = "ok"
    BY <1>2, <1>4 DEF TypeOK
  <1>7. DownIsQuiet'
    BY <1>1 DEF DownIsQuiet
  <1>8. TasksAreCarried'
    BY <1>1, <1>2, <1>6 DEF AccountInv, TasksAreCarried, Executing
  <1>9. ActingHasCrossed'
    BY <1>1, <1>2, <1>6 DEF AccountInv, ActingHasCrossed, Acting
  <1>10. RunsAreOfCrossings'
    BY <1>1, <1>6 DEF AccountInv, RunsAreOfCrossings, Acting
  <1>11. \A q \in Requests : child[bind[q]]["child"] = q /\ bind[q] \in Bindings => child'[bind[q]]["child"] = q
    <2> SUFFICES ASSUME NEW q \in Requests, bind[q] = b, child[b]["child"] = q
                 PROVE  q = r
      BY <1>5
    <2>1. <<q, "child">> \in runs
      BY <1>2, AccountFacts, NoneAssumption DEF AccountInv, ChildrenAreRuns
    <2> QED
      BY <1>2, <2>1, AccountFacts
  <1>12. \A q \in Requests : /\ pc[q] # "idle" => bind[q] \in Bindings
                             /\ relaunch[q] # "no" => bind[q] \in Bindings
                             /\ \A n \in Names : n \in observed[q] => bind[q] \in Bindings
    BY <1>2, AccountFacts DEF TypeOK, AccountInv, RunsAreOfCrossings
  <1>13. ChildrenAreRuns'
    <2>1. ASSUME NEW c \in Bindings, NEW n \in Names, child'[c][n] # None
          PROVE  bind[child'[c][n]] = c /\ <<child'[c][n], n>> \in runs
      <3>1. CASE child'[c][n] = child[c][n]
        BY <2>1, <3>1, ChildFacts
      <3>2. CASE c = b /\ n = "child" /\ child'[b]["child"] = r
        BY <1>2, <3>2
      <3> QED
        BY <1>5, <3>1, <3>2 DEF Names
    <2>2. ASSUME NEW c \in Bindings, child'[c]["relaunch"] # None
          PROVE  child'[c]["child"] = child'[c]["relaunch"]
      <3>1. child'[c]["relaunch"] = child[c]["relaunch"]
        BY <1>5
      <3>2. child[c]["child"] = child[c]["relaunch"] /\ child[c]["relaunch"] \in crossed /\ bind[child[c]["relaunch"]] = c
        BY <2>2, <3>1, ChildFacts, AccountFacts
      <3> QED
        BY <1>2, <1>5, <3>1, <3>2, AccountFacts
    <2> QED
      BY <1>1, <1>5, <1>6, <1>11, <1>12, <2>1, <2>2 DEF AccountInv, ChildrenAreRuns, Names
  <1>14. FaultsOfUnrecorded'
    <2> SUFFICES ASSUME NEW q \in Requests, Unrecorded(q)'
                 PROVE  /\ pc'[q] = "settling" => faults' >= 1
                        /\ pc'[q] \in {"settled", "done"} /\ state'[bind'[q]] = "effecting" => faults' >= 2
      BY DEF FaultsOfUnrecorded
    <2>1. Unrecorded(q)
      BY <1>1, <1>11, AccountFacts DEF Unrecorded
    <2> QED
      BY <1>1, <1>2, <1>6, <2>1 DEF AccountInv, FaultsOfUnrecorded
  <1>15. DispositionsAreSeen'
    <2>1. \A n \in Names : disp[b][n] = "none"
      BY <1>2 DEF AccountInv, DispositionsAreSeen
    <2>2. \A q \in Requests : pc'[q] = "reconcile" => pc[q] = "reconcile" /\ bind[q] \in Bindings \ {b}
      BY <1>2, <1>6, AccountFacts
    <2>3. \A c \in Bindings, n \in Names :
             child'[c][n] # None /\ disp[c][n] \in Good => agent[<<child'[c][n], n>>] \in Seen
      BY <1>5, <2>1 DEF AccountInv, DispositionsAreSeen, Good
    <2>4. \A q \in Requests : pc'[q] = "reconcile" => child'[bind[q]] = child[bind[q]]
      BY <1>5, <2>2
    <2>5. ASSUME NEW q \in Requests, NEW n \in Names, pc'[q] = "reconcile", child'[bind[q]][n] # None, found[q][n] \in Good
          PROVE  agent[<<child'[bind[q]][n], n>>] \in Seen
      <3>1. child'[bind[q]] = child[bind[q]] /\ pc[q] = "reconcile"
        BY <2>2, <2>4, <2>5
      <3> QED
        BY <2>5, <3>1 DEF AccountInv, DispositionsAreSeen
    <2>6. ASSUME NEW q \in Requests,
                 pc'[q] = "prompted" \/ (pc'[q] = "settling" /\ verdict'[q] = "launched" /\ "child" \in observed[q])
          PROVE  agent[<<q, "child">>] \in Seen
      BY <1>6, <2>6 DEF AccountInv, DispositionsAreSeen
    <2> QED
      BY <1>1, <2>2, <2>3, <2>5, <2>6 DEF AccountInv, DispositionsAreSeen
  <1>16. ReconciledIsAccounted'
    <2>1. b \notin reconciled /\ reconciled \subseteq Bindings
      BY <1>2 DEF AccountInv, DispositionsAreSeen, TypeOK
    <2> QED
      BY <1>1, <1>5, <2>1 DEF AccountInv, ReconciledIsAccounted, Kids
  <1>17. (faults <= 1 => SettledAccountsForRuns)'
    BY <1>1, <1>2, <1>11, AccountFacts DEF AccountInv, SettledAccountsForRuns
  <1> QED
    BY <1>7, <1>8, <1>9, <1>10, <1>13, <1>14, <1>15, <1>16, <1>17 DEF Accounts

(* The agent of a child starts, and is bound and prompted, under a record  *)
(* that is still effecting.                                                *)
LEMMA AccountAgent ==
    ASSUME AccountInv, TypeOK', NEW r \in Requests, StartAgent(r) \/ BindAndPrompt(r)
    PROVE  Accounts'
  <1>1. /\ UNCHANGED <<phase, bind, ask, state, task, child, disp, reconciled, runs, observed, found, verdict,
                       marker, crossed, faults>>
        /\ phase = "serving"
        /\ \/ /\ pc[r] = "launching" /\ pc' = [pc EXCEPT ![r] = "started"]
              /\ agent' = [agent EXCEPT ![<<r, "child">>] = "unbound"] /\ relaunch' = relaunch
           \/ /\ pc[r] = "started" /\ pc' = [pc EXCEPT ![r] = "prompted"]
              /\ agent' = [agent EXCEPT ![<<r, "child">>] = "live"]
              /\ relaunch' = [relaunch EXCEPT ![r] = "armed"]
    BY DEF StartAgent, BindAndPrompt, proc, record, history, Serving
  <1>2. /\ TypeOK /\ bind[r] \in Bindings /\ r \in crossed /\ state[bind[r]] = "effecting" /\ faults \in Nat
        /\ <<r, "child">> \in Runs /\ pc[r] \in {"launching", "started"}
    BY <1>1, AccountFacts, BoundAssumption DEF TypeOK, AccountInv, ActingHasCrossed, Acting, Runs, Names
  <1>3. /\ \A q \in Requests \ {r} : pc'[q] = pc[q] /\ relaunch'[q] = relaunch[q]
        /\ pc'[r] \in {"started", "prompted"}
        /\ pc'[r] = "prompted" => agent'[<<r, "child">>] = "live"
        /\ relaunch'[r] = relaunch[r] \/ relaunch'[r] = "armed"
        /\ \A q \in Requests, n \in Names : q # r \/ n # "child" => agent'[<<q, n>>] = agent[<<q, n>>]
    BY <1>1, <1>2, AccountFacts DEF TypeOK, Runs
  <1>4. DownIsQuiet'
    BY <1>1 DEF DownIsQuiet
  <1>5. TasksAreCarried'
    BY <1>1, <1>2, <1>3 DEF AccountInv, TasksAreCarried, Executing
  <1>6. ActingHasCrossed'
    BY <1>1, <1>2, <1>3 DEF AccountInv, ActingHasCrossed, Acting
  <1>7. RunsAreOfCrossings'
    BY <1>1, <1>2, <1>3 DEF AccountInv, RunsAreOfCrossings, Acting
  <1>8. ChildrenAreRuns'
    BY <1>1, <1>2, <1>3 DEF AccountInv, ChildrenAreRuns
  <1>9. FaultsOfUnrecorded'
    BY <1>1, <1>3 DEF AccountInv, FaultsOfUnrecorded, Unrecorded
  <1>10. \A c \in Bindings, n \in Names :
            c # bind[r] /\ child[c][n] # None => agent'[<<child[c][n], n>>] = agent[<<child[c][n], n>>]
    <2> SUFFICES ASSUME NEW c \in Bindings, NEW n \in Names, c # bind[r], child[c][n] # None
                 PROVE  agent'[<<child[c][n], n>>] = agent[<<child[c][n], n>>]
      OBVIOUS
    <2>1. child[c][n] \in Requests /\ bind[child[c][n]] = c
      BY ChildFacts
    <2> QED
      BY <1>3, <2>1
  <1>11. DispositionsAreSeen'
    <2>1. \A n \in Names : disp[bind[r]][n] = "none"
      BY <1>2 DEF AccountInv, DispositionsAreSeen
    <2>2. \A c \in Bindings, n \in Names :
             child[c][n] # None /\ disp[c][n] \in Good => agent'[<<child[c][n], n>>] \in Seen
      BY <1>10, <2>1 DEF AccountInv, DispositionsAreSeen, Good
    <2>3. \A q \in Requests : pc'[q] = "reconcile" => pc[q] = "reconcile" /\ bind[q] \in Bindings \ {bind[r]}
      BY <1>2, <1>3, AccountFacts
    <2>4. ASSUME NEW q \in Requests, NEW n \in Names, pc'[q] = "reconcile", child[bind[q]][n] # None, found[q][n] \in Good
          PROVE  agent'[<<child[bind[q]][n], n>>] \in Seen
      <3>1. agent[<<child[bind[q]][n], n>>] \in Seen
        BY <2>3, <2>4 DEF AccountInv, DispositionsAreSeen
      <3> QED
        BY <1>10, <2>3, <2>4, <3>1
    <2>5. ASSUME NEW q \in Requests,
                 pc'[q] = "prompted" \/ (pc'[q] = "settling" /\ verdict[q] = "launched" /\ "child" \in observed[q])
          PROVE  agent'[<<q, "child">>] \in Seen
      <3>1. CASE q = r
        BY <1>3, <2>5, <3>1 DEF Seen
      <3>2. CASE q # r
        BY <1>3, <2>5, <3>2, AccountFacts DEF AccountInv, DispositionsAreSeen
      <3> QED
        BY <3>1, <3>2
    <2> QED
      BY <1>1, <2>2, <2>3, <2>4, <2>5 DEF AccountInv, DispositionsAreSeen
  <1>12. ReconciledIsAccounted'
    <2>1. bind[r] \notin reconciled /\ reconciled \subseteq Bindings
      BY <1>2 DEF AccountInv, DispositionsAreSeen, TypeOK
    <2> QED
      BY <1>1, <1>10, <2>1 DEF AccountInv, ReconciledIsAccounted, Kids
  <1>13. (faults <= 1 => SettledAccountsForRuns)'
    BY <1>1 DEF AccountInv, SettledAccountsForRuns
  <1> QED
    BY <1>4, <1>5, <1>6, <1>7, <1>8, <1>9, <1>11, <1>12, <1>13 DEF Accounts

(* A merge of a request's own runs keeps the children that are on record.  *)
LEMMA MergeKeepsChildren ==
    ASSUME AccountInv, NEW r \in Requests, bind[r] \in Bindings, NEW names \in SUBSET Names,
           \A n \in names : <<r, n>> \in runs,
           names # {} => "child" \in names \/ child[bind[r]]["child"] = r,
           \/ child' = [child EXCEPT ![bind[r]] = MergeRuns(bind[r], names, r)]
           \/ child' = child
    PROVE  /\ \A c \in Bindings \ {bind[r]} : child'[c] = child[c]
           /\ \A c \in Bindings, n \in Names : child[c][n] # None => child'[c][n] = child[c][n]
           /\ \A c \in Bindings, n \in Names :
                 child'[c][n] # None => bind[child'[c][n]] = c /\ <<child'[c][n], n>> \in runs
           /\ \A c \in Bindings : child'[c]["relaunch"] # None => child'[c]["child"] = child'[c]["relaunch"]
           /\ \A q \in Requests : bind[q] \in Bindings /\ child[bind[q]]["child"] = q => child'[bind[q]]["child"] = q
  <1> DEFINE b == bind[r]
  <1>1. CASE child' = child
    <2>1. \A c \in Bindings, n \in Names :
             child[c][n] # None => bind[child[c][n]] = c /\ <<child[c][n], n>> \in runs
      BY ChildFacts
    <2>2. \A c \in Bindings : child[c]["relaunch"] # None => child[c]["child"] = child[c]["relaunch"]
      BY DEF AccountInv, ChildrenAreRuns
    <2> QED
      BY <1>1, <2>1, <2>2
  <1>2. CASE child' = [child EXCEPT ![b] = MergeRuns(b, names, r)]
    <2>1. /\ \A c \in Bindings \ {b} : child'[c] = child[c]
          /\ \A n \in Names : child'[b][n] = IF n \in names THEN r ELSE child[b][n]
      BY <1>2, AccountFacts DEF TypeOK, MergeRuns
    <2>2. names # {} => r \in crossed
      BY AccountFacts
    <2>3. ASSUME NEW c \in Bindings, NEW n \in Names, child[c][n] # None
          PROVE  child'[c][n] = child[c][n]
      <3>1. \A q \in crossed : bind[q] = c => child[c][n] = q
        BY <2>3, ChildFacts
      <3> QED
        BY <2>1, <2>2, <3>1
    <2>4. ASSUME NEW c \in Bindings, NEW n \in Names, child'[c][n] # None
          PROVE  bind[child'[c][n]] = c /\ <<child'[c][n], n>> \in runs
      <3>1. CASE child'[c][n] = child[c][n]
        BY <2>4, <3>1, ChildFacts
      <3>2. CASE c = b /\ n \in names
        BY <2>1, <3>2
      <3> QED
        BY <2>1, <3>1, <3>2
    <2>5. ASSUME NEW c \in Bindings, child'[c]["relaunch"] # None
          PROVE  child'[c]["child"] = child'[c]["relaunch"]
      <3>1. CASE child[c]["relaunch"] # None
        <4>1. child[c]["child"] = child[c]["relaunch"]
          BY <3>1 DEF AccountInv, ChildrenAreRuns
        <4> QED
          BY <2>3, <3>1, <4>1, AccountFacts
      <3>2. CASE child[c]["relaunch"] = None
        <4>1. c = b /\ "relaunch" \in names /\ child'[b]["relaunch"] = r
          BY <2>1, <2>5, <3>2, AccountFacts
        <4> QED
          BY <2>1, <4>1, AccountFacts
      <3> QED
        BY <3>1, <3>2
    <2>6. \A q \in Requests : bind[q] \in Bindings /\ child[bind[q]]["child"] = q => child'[bind[q]]["child"] = q
      BY <2>3, AccountFacts, NoneAssumption
    <2> QED
      BY <2>1, <2>3, <2>4, <2>5, <2>6
  <1> QED
    BY <1>1, <1>2

(* With at most one faulty write, an execution settles `failed' only when  *)
(* no run exists under its binding: an earlier executor whose child is off *)
(* the record would have cost two, or died with a crash that recovery has  *)
(* answered for.                                                           *)
LEMMA FailedMeansNothing ==
    ASSUME AccountInv, NEW r \in Requests, phase = "serving", pc[r] = "settling", faults <= 1,
           state[bind[r]] \in SettleExpect(r), SettleState(r) = "failed",
           NEW q \in Requests, bind[q] = bind[r]
    PROVE  <<q, "child">> \notin runs
  <1> SUFFICES ASSUME <<q, "child">> \in runs
               PROVE  FALSE
    OBVIOUS
  <1>1. TypeOK /\ bind[r] \in Bindings /\ faults \in Nat
    BY AccountFacts, BoundAssumption DEF TypeOK
  <1>2. /\ verdict[r] # "launched" /\ observed[r] = {} /\ Kids(bind[r]) = {}
        /\ state[bind[r]] \in {"recorded", "effecting"}
    BY DEF SettleState, SettleExpect, FailExpect, ProvablyNothing
  <1>3. q \in crossed /\ state[bind[q]] = "effecting"
    BY <1>2, AccountFacts
  <1>4. q # r
    BY <1>2 DEF AccountInv, RunsAreOfCrossings
  <1>5. pc[q] \notin Executing
    BY <1>4, AccountFacts DEF Executing
  <1>6. pc[q] \in {"done", "lost"}
    BY <1>3, <1>5 DEF AccountInv, ActingHasCrossed, Acting, Executing
  <1>7. pc[q] # "lost"
    BY <1>1, <1>3 DEF AccountInv, ActingHasCrossed, LedgerInv, EffectingIsThisProcess
  <1>8. Unrecorded(q)
    BY <1>1, <1>2, AccountFacts, NoneAssumption DEF Unrecorded, Kids
  <1> QED
    BY <1>1, <1>3, <1>6, <1>7, <1>8 DEF AccountInv, FaultsOfUnrecorded

(* complete or fail, on a record that is still open: what lands accounts   *)
(* for the run of this request, and what does not land cost a fault.       *)
LEMMA AccountSettle ==
    ASSUME AccountInv, TypeOK', NEW r \in Requests, NEW w \in Writes, Settle(r, w)
    PROVE  Accounts'
  <1> DEFINE b == bind[r]
             landed == state[b] \in SettleExpect(r) /\ Lands(w)
  <1>1. /\ UNCHANGED <<phase, bind, ask, task, reconciled, runs, agent, observed, found, verdict, relaunch, marker, crossed>>
        /\ phase = "serving" /\ pc[r] = "settling" /\ faults' >= faults /\ faults' \in Nat
        /\ w # "ok" => faults' = faults + 1
        /\ pc' = [pc EXCEPT ![r] = "settled"]
    BY AccountFacts, FaultsCount DEF Settle, proc, world, Serving
  <1>2. TypeOK /\ b \in Bindings /\ faults \in Nat /\ observed[r] \in SUBSET Names
    BY <1>1, AccountFacts, BoundAssumption DEF TypeOK
  <1>3. /\ landed => /\ state' = [state EXCEPT ![b] = SettleState(r)]
                     /\ child' = [child EXCEPT ![b] = MergeRuns(b, observed[r], r)]
                     /\ disp' = [disp EXCEPT ![b] = MergeDisp(b, SettleDisp(r))]
        /\ ~landed => UNCHANGED <<state, child, disp>>
    BY DEF Settle
  <1>4. /\ \A q \in Requests \ {r} : pc'[q] = pc[q]
        /\ pc'[r] = "settled"
    BY <1>1, <1>2 DEF TypeOK
  <1>5. landed => state[b] \in {"recorded", "effecting"} /\ SettleState(r) \in {"completed", "failed", "unresolved"}
    BY DEF SettleExpect, CompleteExpect, FailExpect, SettleState
  <1>6. landed => state'[b] = SettleState(r)
    BY <1>2, <1>3 DEF TypeOK
  <1>7. \A c \in Bindings : c # b \/ ~landed => state'[c] = state[c] /\ disp'[c] = disp[c] /\ child'[c] = child[c]
    BY <1>2, <1>3 DEF TypeOK
  <1> HIDE DEF landed
  <1>8. /\ \A n \in observed[r] : <<r, n>> \in runs
        /\ <<r, "child">> \in runs => "child" \in observed[r] /\ r \in crossed
        /\ observed[r] # {} => "child" \in observed[r]
    <2>1. \A n \in observed[r] : <<r, n>> \in runs
      BY <1>2 DEF AccountInv, RunsAreOfCrossings
    <2>2. <<r, "child">> \in runs => "child" \in observed[r] /\ r \in crossed
      BY <1>1, AccountFacts DEF AccountInv, RunsAreOfCrossings
    <2>3. \A n \in observed[r] : <<r, "child">> \in runs
      BY <1>2, <2>1, AccountFacts
    <2> QED
      BY <2>1, <2>2, <2>3
  <1>9. /\ \A c \in Bindings, n \in Names : child[c][n] # None => child'[c][n] = child[c][n]
        /\ \A c \in Bindings, n \in Names :
              child'[c][n] # None => bind[child'[c][n]] = c /\ <<child'[c][n], n>> \in runs
        /\ \A c \in Bindings : child'[c]["relaunch"] # None => child'[c]["child"] = child'[c]["relaunch"]
        /\ \A q \in Requests : bind[q] \in Bindings /\ child[bind[q]]["child"] = q => child'[bind[q]]["child"] = q
    <2>1. \/ child' = [child EXCEPT ![b] = MergeRuns(b, observed[r], r)]
          \/ child' = child
      BY <1>3
    <2> HIDE DEF b
    <2> QED
      BY <1>2, <1>8, <2>1, MergeKeepsChildren DEF b
  <1>10. landed /\ "child" \in observed[r] => child'[b]["child"] = r
    BY <1>2, <1>3, AccountFacts DEF TypeOK, MergeRuns
  <1>11. DownIsQuiet'
    BY <1>1 DEF DownIsQuiet
  <1>12. TasksAreCarried'
    <2>1. \A c \in Bindings : state'[c] = "absent" <=> state[c] = "absent"
      BY <1>5, <1>6, <1>7
    <2> QED
      BY <1>1, <1>2, <1>4, <2>1 DEF AccountInv, TasksAreCarried, Executing
  <1>13. ActingHasCrossed'
    <2>1. \A q \in Requests : pc[q] \in Acting \cup {"settling"} /\ q # r => bind[q] # b
      BY <1>1, AccountFacts DEF Acting, Executing
    <2>2. ASSUME NEW q \in Requests
          PROVE  /\ pc'[q] \in Acting => q \in crossed
                 /\ pc'[q] = "settling" /\ verdict[q] = "launched" => q \in crossed
                 /\ q \in crossed =>
                      /\ marker[bind[q]] = q
                      /\ pc'[q] \in Acting \cup {"settling", "settled", "done", "lost"}
                      /\ pc'[q] \in Acting \cup {"settling"} => state'[bind[q]] = "effecting"
      <3>1. CASE q = r
        BY <1>4, <3>1 DEF AccountInv, ActingHasCrossed, Acting
      <3>2. CASE q # r
        BY <1>4, <1>7, <2>1, <3>2, AccountFacts DEF AccountInv, ActingHasCrossed
      <3> QED
        BY <3>1, <3>2
    <2> QED
      BY <1>1, <2>2 DEF ActingHasCrossed
  <1>14. RunsAreOfCrossings'
    BY <1>1, <1>4 DEF AccountInv, RunsAreOfCrossings, Acting
  <1>15. ChildrenAreRuns'
    <2>1. ASSUME NEW q \in Requests
          PROVE  /\ pc'[q] \in {"launching", "started", "prompted"} => child'[bind[q]]["child"] = q
                 /\ relaunch[q] \in {"armed", "persisted"} => child'[bind[q]]["child"] = q
                 /\ relaunch[q] = "persisted" => <<q, "relaunch">> \in runs
                 /\ "relaunch" \in observed[q] => child'[bind[q]]["child"] = q
      <3>1. /\ pc'[q] \in {"launching", "started", "prompted"} => pc[q] = pc'[q] /\ bind[q] \in Bindings
            /\ relaunch[q] \in {"armed", "persisted"} => bind[q] \in Bindings
            /\ "relaunch" \in observed[q] => bind[q] \in Bindings
        BY <1>2, <1>4, AccountFacts DEF TypeOK, AccountInv, RunsAreOfCrossings
      <3> QED
        BY <1>9, <3>1 DEF AccountInv, ChildrenAreRuns
    <2> QED
      BY <1>1, <1>9, <2>1 DEF ChildrenAreRuns
  <1>16. FaultsOfUnrecorded'
    <2> SUFFICES ASSUME NEW q \in Requests, Unrecorded(q)'
                 PROVE  /\ pc'[q] = "settling" => faults' >= 1
                        /\ pc'[q] \in {"settled", "done"} /\ state'[bind'[q]] = "effecting" => faults' >= 2
      BY DEF FaultsOfUnrecorded
    <2>1. Unrecorded(q) /\ q \in crossed /\ bind[q] \in Bindings /\ <<q, "child">> \in runs
      BY <1>1, <1>9, AccountFacts DEF Unrecorded
    <2>2. CASE q # r
      <3>1. state'[bind[q]] = "effecting" => state[bind[q]] = "effecting"
        BY <1>5, <1>6, <1>7, <2>1
      <3> QED
        BY <1>1, <1>2, <1>4, <2>1, <2>2, <3>1 DEF AccountInv, FaultsOfUnrecorded
    <2>3. CASE q = r
      <3>1. SUFFICES ASSUME state'[b] = "effecting"
                     PROVE  faults' >= 2
        BY <1>1, <1>4, <2>3
      <3>2. ~landed /\ state[b] = "effecting"
        BY <1>2, <1>5, <1>6, <1>7, <3>1
      <3>3. w = "lost"
        BY <3>2 DEF landed, SettleExpect, CompleteExpect, FailExpect, Lands
      <3>4. faults >= 1
        BY <1>1, <2>1, <2>3 DEF AccountInv, FaultsOfUnrecorded
      <3> QED
        BY <1>1, <1>2, <3>3, <3>4
    <2> QED
      BY <2>2, <2>3
  <1>17. DispositionsAreSeen'
    <2>1. ASSUME NEW c \in Bindings, NEW n \in Names
          PROVE  /\ state'[c] \in {"absent", "recorded", "effecting"} => disp'[c][n] = "none"
                 /\ child'[c][n] # None /\ disp'[c][n] \in Good => agent[<<child'[c][n], n>>] \in Seen
      <3>1. CASE c # b \/ ~landed
        BY <1>7, <3>1 DEF AccountInv, DispositionsAreSeen
      <3>2. CASE c = b /\ landed
        <4>1. disp[b][n] = "none"
          BY <1>2, <1>5, <3>2 DEF AccountInv, DispositionsAreSeen
        <4>2. disp'[b][n] = SettleDisp(r)[n] \/ disp'[b][n] = "none"
          BY <1>2, <1>3, <3>2, <4>1 DEF TypeOK, MergeDisp
        <4>3. disp'[b][n] \in Good => n = "child" /\ n \in observed[r] /\ verdict[r] = "launched"
          BY <4>2 DEF SettleDisp, Good
        <4>4. disp'[b][n] \in Good => agent[<<r, "child">>] \in Seen /\ child'[b][n] = r /\ n = "child"
          BY <1>1, <1>10, <3>2, <4>3 DEF AccountInv, DispositionsAreSeen
        <4> QED
          BY <1>5, <1>6, <3>2, <4>4
      <3> QED
        BY <3>1, <3>2
    <2>2. \A q \in Requests : pc'[q] = "reconcile" =>
             /\ pc[q] = "reconcile" /\ bind[q] \in Bindings
             /\ state'[bind[q]] = state[bind[q]] /\ child'[bind[q]] = child[bind[q]]
      BY <1>4, <1>5, <1>7, AccountFacts
    <2>3. ASSUME NEW q \in Requests, NEW n \in Names, pc'[q] = "reconcile", child'[bind[q]][n] # None, found[q][n] \in Good
          PROVE  agent[<<child'[bind[q]][n], n>>] \in Seen
      BY <2>2, <2>3 DEF AccountInv, DispositionsAreSeen
    <2>4. \A c \in reconciled : c \in Bindings /\ state'[c] = "completed"
      BY <1>2, <1>5, <1>7 DEF AccountInv, DispositionsAreSeen, TypeOK
    <2>5. ASSUME NEW q \in Requests
          PROVE  /\ pc'[q] = "prompted" => agent[<<q, "child">>] \in Seen
                 /\ pc'[q] = "settling" /\ verdict[q] = "launched" /\ "child" \in observed[q]
                       => agent[<<q, "child">>] \in Seen
                 /\ pc'[q] = "reconcile" => state'[bind[q]] \in {"unresolved", "completed"}
      BY <1>4, <2>2, AccountFacts DEF AccountInv, DispositionsAreSeen
    <2> QED
      BY <1>1, <2>1, <2>3, <2>4, <2>5 DEF DispositionsAreSeen
  <1>18. ReconciledIsAccounted'
    <2>1. \A c \in reconciled : c \in Bindings /\ child'[c] = child[c]
      BY <1>2, <1>5, <1>7 DEF AccountInv, DispositionsAreSeen, TypeOK
    <2> QED
      BY <1>1, <2>1 DEF AccountInv, ReconciledIsAccounted, Kids
  <1>19. (faults <= 1 => SettledAccountsForRuns)'
    <2> SUFFICES ASSUME faults' <= 1, NEW q \in Requests, <<q, "child">> \in runs,
                        state'[bind[q]] \in {"completed", "failed"}
                 PROVE  child'[bind[q]]["child"] = q
      BY <1>1 DEF SettledAccountsForRuns
    <2>1. faults <= 1 /\ q \in crossed /\ bind[q] \in Bindings
      BY <1>1, <1>2, AccountFacts
    <2>2. CASE bind[q] # b \/ ~landed
      BY <1>7, <2>1, <2>2 DEF AccountInv, SettledAccountsForRuns
    <2>3. CASE bind[q] = b /\ landed
      <3>1. SettleState(r) # "failed"
        <4>1. state[bind[r]] \in SettleExpect(r)
          BY <2>3 DEF landed
        <4> QED
          BY <1>1, <2>1, <2>3, <4>1, FailedMeansNothing
      <3>2. SettleState(r) = "completed"
        BY <1>6, <2>3, <3>1
      <3>3. r \in crossed
        BY <1>1, <3>2 DEF SettleState, AccountInv, ActingHasCrossed
      <3>4. q = r
        BY <2>1, <2>3, <3>3, AccountFacts
      <3> QED
        BY <1>8, <1>10, <2>3, <3>4
    <2> QED
      BY <2>2, <2>3
  <1> QED
    BY <1>11, <1>12, <1>13, <1>14, <1>15, <1>16, <1>17, <1>18, <1>19 DEF Accounts

(* What is known of a request whose relaunch is under way.                 *)
LEMMA RelaunchFacts ==
    ASSUME AccountInv, NEW r \in Requests, relaunch[r] \in {"armed", "persisted"}
    PROVE  /\ bind[r] \in Bindings /\ child[bind[r]]["child"] = r
           /\ <<r, "child">> \in runs /\ r \in crossed
           /\ relaunch[r] = "persisted" => <<r, "relaunch">> \in runs
  <1>1. bind[r] \in Bindings
    BY AccountFacts DEF TypeOK
  <1>2. child[bind[r]]["child"] = r
    BY DEF AccountInv, ChildrenAreRuns
  <1>3. <<r, "child">> \in runs /\ r \in crossed
    BY <1>1, <1>2, ChildFacts, AccountFacts, NoneAssumption
  <1> QED
    BY <1>1, <1>2, <1>3 DEF AccountInv, ChildrenAreRuns

(* Agents only come to be seen, and runs only appear: a relaunch persists  *)
(* its run, or an agent leaves the snapshot.                               *)
LEMMA AccountSeen ==
    ASSUME AccountInv, TypeOK',
           UNCHANGED <<phase, pc, bind, ask, state, task, child, disp, reconciled, found, verdict, marker, crossed, faults>>,
           \A x \in Runs : agent[x] \in Seen => agent'[x] \in Seen,
           \/ UNCHANGED <<runs, observed, relaunch>>
           \/ \E r \in Requests :
                 /\ phase = "serving" /\ relaunch[r] = "armed"
                 /\ runs' = runs \cup {<<r, "relaunch">>}
                 /\ observed' = IF pc[r] = "prompted" THEN [observed EXCEPT ![r] = @ \cup {"relaunch"}] ELSE observed
                 /\ relaunch' = [relaunch EXCEPT ![r] = "persisted"]
    PROVE  Accounts'
  <1>1. TypeOK /\ faults \in Nat
    BY AccountFacts, BoundAssumption DEF TypeOK
  <1>2. /\ \A q \in Requests, n \in Names : <<q, n>> \in runs => <<q, n>> \in runs'
        /\ \A q \in Requests : <<q, "child">> \in runs' <=> <<q, "child">> \in runs
    OBVIOUS
  <1>3. \A q \in Requests, n \in Names : <<q, n>> \in runs' => q \in crossed /\ <<q, "child">> \in runs
    BY AccountFacts, RelaunchFacts
  <1>4. \A q \in Requests, n \in Names : n \in observed'[q] =>
           /\ <<q, n>> \in runs'
           /\ n = "relaunch" => child[bind[q]]["child"] = q
    <2>1. CASE UNCHANGED <<runs, observed, relaunch>>
      BY <2>1 DEF AccountInv, RunsAreOfCrossings, ChildrenAreRuns
    <2>2. ASSUME NEW r \in Requests, relaunch[r] = "armed", runs' = runs \cup {<<r, "relaunch">>},
                 observed' = IF pc[r] = "prompted" THEN [observed EXCEPT ![r] = @ \cup {"relaunch"}] ELSE observed,
                 NEW q \in Requests, NEW n \in Names, n \in observed'[q]
          PROVE  <<q, n>> \in runs' /\ (n = "relaunch" => child[bind[q]]["child"] = q)
      <3>1. n \in observed[q] \/ (q = r /\ n = "relaunch")
        BY <1>1, <2>2 DEF TypeOK
      <3>2. CASE n \in observed[q]
        BY <1>2, <3>2 DEF AccountInv, RunsAreOfCrossings, ChildrenAreRuns
      <3>3. CASE q = r /\ n = "relaunch"
        BY <2>2, <3>3, RelaunchFacts
      <3> QED
        BY <3>1, <3>2, <3>3
    <2> QED
      BY <2>1, <2>2
  <1>5. \A q \in Requests : "child" \in observed[q] <=> "child" \in observed'[q]
    <2>1. ASSUME NEW r \in Requests, observed' = [observed EXCEPT ![r] = @ \cup {"relaunch"}], NEW q \in Requests
          PROVE  "child" \in observed[q] <=> "child" \in observed'[q]
      BY <1>1, <2>1 DEF TypeOK
    <2> QED
      BY <2>1
  <1>6. \A q \in Requests : relaunch'[q] \in {"armed", "persisted"} =>
           /\ relaunch[q] \in {"armed", "persisted"}
           /\ relaunch'[q] = "persisted" => <<q, "relaunch">> \in runs'
    <2>1. CASE UNCHANGED <<runs, observed, relaunch>>
      BY <2>1 DEF AccountInv, ChildrenAreRuns
    <2>2. ASSUME NEW r \in Requests, relaunch[r] = "armed", runs' = runs \cup {<<r, "relaunch">>},
                 relaunch' = [relaunch EXCEPT ![r] = "persisted"], NEW q \in Requests,
                 relaunch'[q] \in {"armed", "persisted"}
          PROVE  /\ relaunch[q] \in {"armed", "persisted"}
                 /\ relaunch'[q] = "persisted" => <<q, "relaunch">> \in runs'
      <3>1. CASE q = r
        BY <2>2, <3>1
      <3>2. CASE q # r
        BY <1>1, <2>2, <3>2 DEF AccountInv, ChildrenAreRuns, TypeOK
      <3> QED
        BY <3>1, <3>2
    <2> QED
      BY <2>1, <2>2
  <1>7. \A c \in Bindings, n \in Names : child[c][n] # None => <<child[c][n], n>> \in Runs
    BY ChildFacts DEF Runs
  <1>8. DownIsQuiet'
    BY DEF AccountInv, DownIsQuiet
  <1>9. TasksAreCarried'
    BY DEF AccountInv, TasksAreCarried
  <1>10. ActingHasCrossed'
    BY DEF AccountInv, ActingHasCrossed
  <1>11. RunsAreOfCrossings'
    BY <1>2, <1>3, <1>4, <1>5 DEF AccountInv, RunsAreOfCrossings
  <1>12. ChildrenAreRuns'
    <2>1. \A c \in Bindings, n \in Names :
             child[c][n] # None => bind[child[c][n]] = c /\ <<child[c][n], n>> \in runs'
      BY <1>2, ChildFacts
    <2> QED
      BY <1>4, <1>6, <2>1, AccountFacts DEF AccountInv, ChildrenAreRuns
  <1>13. FaultsOfUnrecorded'
    BY <1>2 DEF AccountInv, FaultsOfUnrecorded, Unrecorded
  <1>14. DispositionsAreSeen'
    <2>1. \A q \in Requests : <<q, "child">> \in Runs
      BY DEF Runs, Names
    <2>2. \A c \in Bindings, n \in Names :
             child[c][n] # None /\ agent[<<child[c][n], n>>] \in Seen => agent'[<<child[c][n], n>>] \in Seen
      BY <1>7
    <2> QED
      BY <1>5, <2>1, <2>2, AccountFacts DEF AccountInv, DispositionsAreSeen
  <1>15. ReconciledIsAccounted'
    BY <1>1, <1>7 DEF AccountInv, ReconciledIsAccounted, Kids, Seen, TypeOK
  <1>16. (faults <= 1 => SettledAccountsForRuns)'
    BY <1>2 DEF AccountInv, SettledAccountsForRuns
  <1> QED
    BY <1>8, <1>9, <1>10, <1>11, <1>12, <1>13, <1>14, <1>15, <1>16 DEF Accounts

(* The relaunch of a child records its own run while the record is still   *)
(* effecting, and is refused once it has settled.                          *)
LEMMA AccountRelaunchRecord ==
    ASSUME AccountInv, TypeOK', NEW r \in Requests, NEW w \in Writes, RelaunchRecord(r, w)
    PROVE  Accounts'
  <1> DEFINE b == bind[r]
  <1>1. /\ UNCHANGED <<phase, pc, bind, ask, state, task, disp, reconciled, runs, observed, found, verdict, marker, crossed>>
        /\ phase = "serving" /\ relaunch[r] = "persisted" /\ faults' >= faults /\ faults' \in Nat
    BY AccountFacts, FaultsCount DEF RelaunchRecord, proc, Serving
  <1>2. /\ TypeOK /\ b \in Bindings /\ r \in crossed /\ faults \in Nat
        /\ <<r, "relaunch">> \in runs /\ child[b]["child"] = r /\ <<r, "relaunch">> \in Runs
    <2>1. TypeOK /\ faults \in Nat /\ <<r, "relaunch">> \in Runs
      BY AccountFacts, BoundAssumption DEF TypeOK, Runs, Names
    <2> QED
      BY <1>1, <2>1, RelaunchFacts
  <1>3. \/ child' = [child EXCEPT ![b] = MergeRuns(b, {"relaunch"}, r)] /\ state[b] = "effecting"
        \/ child' = child
    BY DEF RelaunchRecord, ChildrenExpect
  <1>4. \/ state[b] = "effecting" /\ \E a \in {"none", "live"} : agent' = [agent EXCEPT ![<<r, "relaunch">>] = a]
        \/ agent' = agent
    BY DEF RelaunchRecord, ChildrenExpect
  <1>5. \A q \in Requests : relaunch'[q] \in {"armed", "persisted"} => relaunch'[q] = relaunch[q]
    BY <1>2 DEF RelaunchRecord, TypeOK
  <1>6. /\ \A c \in Bindings \ {b} : child'[c] = child[c]
        /\ \A c \in Bindings, n \in Names : child[c][n] # None => child'[c][n] = child[c][n]
        /\ \A c \in Bindings, n \in Names :
              child'[c][n] # None => bind[child'[c][n]] = c /\ <<child'[c][n], n>> \in runs
        /\ \A c \in Bindings : child'[c]["relaunch"] # None => child'[c]["child"] = child'[c]["relaunch"]
        /\ \A q \in Requests : bind[q] \in Bindings /\ child[bind[q]]["child"] = q => child'[bind[q]]["child"] = q
    <2>1. {"relaunch"} \in SUBSET Names /\ \A n \in {"relaunch"} : <<r, n>> \in runs
      BY <1>2 DEF Names
    <2> HIDE DEF b
    <2> QED
      BY <1>2, <1>3, <2>1, MergeKeepsChildren DEF b
  <1>7. \A c \in Bindings : state[c] # "effecting" => child'[c] = child[c]
    BY <1>3, <1>6
  <1>8. /\ \A q \in Requests, n \in Names : q # r \/ n # "relaunch" => agent'[<<q, n>>] = agent[<<q, n>>]
        /\ state[b] # "effecting" => agent' = agent
    BY <1>2, <1>4 DEF TypeOK, Runs
  <1>9. \A c \in Bindings, n \in Names :
           child[c][n] # None /\ state[c] # "effecting" => agent'[<<child[c][n], n>>] = agent[<<child[c][n], n>>]
    <2> SUFFICES ASSUME NEW c \in Bindings, NEW n \in Names, child[c][n] # None, state[c] # "effecting"
                 PROVE  agent'[<<child[c][n], n>>] = agent[<<child[c][n], n>>]
      OBVIOUS
    <2>1. child[c][n] \in Requests /\ bind[child[c][n]] = c
      BY ChildFacts
    <2> QED
      BY <1>8, <2>1
  <1>10. DownIsQuiet'
    BY <1>1 DEF DownIsQuiet
  <1>11. TasksAreCarried'
    BY <1>1 DEF AccountInv, TasksAreCarried
  <1>12. ActingHasCrossed'
    BY <1>1 DEF AccountInv, ActingHasCrossed
  <1>13. RunsAreOfCrossings'
    BY <1>1 DEF AccountInv, RunsAreOfCrossings
  <1>14. ChildrenAreRuns'
    <2>1. ASSUME NEW q \in Requests
          PROVE  /\ pc[q] \in {"launching", "started", "prompted"} => child'[bind[q]]["child"] = q
                 /\ relaunch'[q] \in {"armed", "persisted"} => child'[bind[q]]["child"] = q
                 /\ relaunch'[q] = "persisted" => <<q, "relaunch">> \in runs
                 /\ "relaunch" \in observed[q] => child'[bind[q]]["child"] = q
      <3>1. /\ pc[q] \in {"launching", "started", "prompted"} => bind[q] \in Bindings
            /\ relaunch[q] \in {"armed", "persisted"} => bind[q] \in Bindings
            /\ "relaunch" \in observed[q] => bind[q] \in Bindings
        BY <1>2, AccountFacts DEF TypeOK, AccountInv, RunsAreOfCrossings
      <3> QED
        BY <1>5, <1>6, <3>1 DEF AccountInv, ChildrenAreRuns
    <2> QED
      BY <1>1, <1>6, <2>1 DEF ChildrenAreRuns
  <1>15. FaultsOfUnrecorded'
    <2>1. \A q \in Requests : Unrecorded(q)' => Unrecorded(q)
      BY <1>1, <1>6, AccountFacts DEF Unrecorded
    <2> QED
      BY <1>1, <1>2, <2>1 DEF AccountInv, FaultsOfUnrecorded
  <1>16. DispositionsAreSeen'
    <2>1. ASSUME NEW c \in Bindings, NEW n \in Names
          PROVE  /\ state[c] \in {"absent", "recorded", "effecting"} => disp[c][n] = "none"
                 /\ child'[c][n] # None /\ disp[c][n] \in Good => agent'[<<child'[c][n], n>>] \in Seen
      <3>1. CASE state[c] = "effecting"
        BY <3>1 DEF AccountInv, DispositionsAreSeen, Good
      <3>2. CASE state[c] # "effecting"
        BY <1>7, <1>9, <3>2 DEF AccountInv, DispositionsAreSeen
      <3> QED
        BY <3>1, <3>2
    <2>2. \A q \in Requests : pc[q] = "reconcile" => bind[q] \in Bindings /\ state[bind[q]] # "effecting"
      BY AccountFacts
    <2>3. ASSUME NEW q \in Requests, NEW n \in Names, pc[q] = "reconcile", child'[bind[q]][n] # None, found[q][n] \in Good
          PROVE  agent'[<<child'[bind[q]][n], n>>] \in Seen
      <3>1. child'[bind[q]] = child[bind[q]] /\ agent[<<child[bind[q]][n], n>>] \in Seen
        BY <1>7, <2>2, <2>3 DEF AccountInv, DispositionsAreSeen
      <3> QED
        BY <1>9, <2>2, <2>3, <3>1
    <2>4. \A q \in Requests : agent'[<<q, "child">>] = agent[<<q, "child">>]
      BY <1>8, AccountFacts
    <2> QED
      BY <1>1, <2>1, <2>3, <2>4 DEF AccountInv, DispositionsAreSeen
  <1>17. ReconciledIsAccounted'
    <2>1. \A c \in reconciled : c \in Bindings /\ state[c] # "effecting"
      BY <1>2 DEF AccountInv, DispositionsAreSeen, TypeOK
    <2> QED
      BY <1>1, <1>7, <1>9, <2>1 DEF AccountInv, ReconciledIsAccounted, Kids
  <1>18. (faults <= 1 => SettledAccountsForRuns)'
    BY <1>1, <1>2, <1>6, AccountFacts DEF AccountInv, SettledAccountsForRuns
  <1> QED
    BY <1>10, <1>11, <1>12, <1>13, <1>14, <1>15, <1>16, <1>17, <1>18 DEF Accounts

(* A request arrives or reads a record to reconcile: nothing was known of  *)
(* it before.                                                              *)
LEMMA AccountArrival ==
    ASSUME AccountInv, TypeOK', NEW r \in Requests, NEW b \in Bindings, pc[r] = "idle", phase = "serving",
           UNCHANGED <<phase, verdict, observed, relaunch, state, task, child, disp, reconciled, runs, agent,
                       marker, crossed, faults>>,
           bind' = [bind EXCEPT ![r] = b],
           \/ /\ pc' = [pc EXCEPT ![r] = "peek"]
              /\ \E t \in Tasks : ask' = [ask EXCEPT ![r] = t]
              /\ found' = found
           \/ pc' = [pc EXCEPT ![r] = "done"] /\ UNCHANGED <<ask, found>>
           \/ /\ pc' = [pc EXCEPT ![r] = "reconcile"] /\ ask' = ask /\ state[b] = "unresolved"
              /\ \E d \in [Names -> Dispositions] : Classification(b, d) /\ found' = [found EXCEPT ![r] = d]
    PROVE  Accounts'
  <1>1. TypeOK /\ faults \in Nat
    BY AccountFacts, BoundAssumption DEF TypeOK
  <1>2. /\ \A q \in Requests \ {r} : pc'[q] = pc[q] /\ bind'[q] = bind[q] /\ ask'[q] = ask[q] /\ found'[q] = found[q]
        /\ pc'[r] \in {"peek", "done", "reconcile"} /\ bind'[r] = b
        /\ pc'[r] = "peek" => ask'[r] \in Tasks
        /\ pc'[r] = "reconcile" => state[b] = "unresolved" /\ Classification(b, found'[r])
    BY <1>1 DEF TypeOK
  <1>3. /\ r \notin crossed /\ relaunch[r] = "no"
        /\ \A n \in Names : <<r, n>> \notin runs /\ n \notin observed[r]
    <2>1. r \notin crossed /\ relaunch[r] = "no"
      BY <1>1 DEF AccountInv, LedgerInv, CrossingIsRecorded, TypeOK
    <2> QED
      BY <2>1, AccountFacts DEF AccountInv, RunsAreOfCrossings
  <1>4. \A c \in Bindings, n \in Names : child[c][n] # None =>
           /\ bind'[child[c][n]] = c /\ <<child[c][n], n>> \in runs
    BY <1>2, <1>3, ChildFacts
  <1>5. DownIsQuiet'
    BY DEF DownIsQuiet
  <1>6. TasksAreCarried'
    BY <1>2 DEF AccountInv, TasksAreCarried, Executing
  <1>7. ActingHasCrossed'
    BY <1>2, <1>3 DEF AccountInv, ActingHasCrossed, Acting
  <1>8. RunsAreOfCrossings'
    BY <1>2, <1>3, AccountFacts DEF AccountInv, RunsAreOfCrossings, Acting
  <1>9. ChildrenAreRuns'
    BY <1>2, <1>3, <1>4, AccountFacts DEF AccountInv, ChildrenAreRuns
  <1>10. FaultsOfUnrecorded'
    BY <1>2, <1>3, AccountFacts DEF AccountInv, FaultsOfUnrecorded, Unrecorded
  <1>11. DispositionsAreSeen'
    <2>1. ASSUME NEW q \in Requests, NEW n \in Names, pc'[q] = "reconcile", child[bind'[q]][n] # None, found'[q][n] \in Good
          PROVE  agent[<<child[bind'[q]][n], n>>] \in Seen
      <3>1. CASE q = r
        <4>1. Classification(b, found'[r]) /\ n \in Kids(b) /\ found'[r][n] \in Good
          BY <1>2, <2>1, <3>1 DEF Kids
        <4>2. found'[r][n] \in Classify(agent[<<child[b][n], n>>])
          BY <4>1 DEF Classification
        <4> QED
          BY <1>2, <3>1, <4>1, <4>2 DEF Classify, Good, Seen
      <3>2. CASE q # r
        <4>1. pc[q] = "reconcile" /\ child[bind[q]][n] # None /\ found[q][n] \in Good /\ bind'[q] = bind[q]
          BY <1>2, <2>1, <3>2
        <4> QED
          BY <4>1 DEF AccountInv, DispositionsAreSeen
      <3> QED
        BY <3>1, <3>2
    <2>2. \A q \in Requests : pc'[q] = "reconcile" => state[bind'[q]] \in {"unresolved", "completed"}
      BY <1>2, AccountFacts
    <2>3. \A q \in Requests : pc'[q] \in {"prompted", "settling"} => pc[q] = pc'[q]
      BY <1>2
    <2> QED
      BY <2>1, <2>2, <2>3 DEF AccountInv, DispositionsAreSeen
  <1>12. ReconciledIsAccounted'
    BY DEF AccountInv, ReconciledIsAccounted, Kids
  <1>13. (faults <= 1 => SettledAccountsForRuns)'
    BY <1>2, <1>3, AccountFacts DEF AccountInv, SettledAccountsForRuns
  <1> QED
    BY <1>5, <1>6, <1>7, <1>8, <1>9, <1>10, <1>11, <1>12, <1>13 DEF Accounts

(* reconcile under the flock: what it puts on record has been seen, and it *)
(* completes a binding whose one effect is on record.                      *)
LEMMA AccountReconcile ==
    ASSUME AccountInv, TypeOK', NEW b \in Bindings, NEW d \in [Names -> Dispositions],
           UNCHANGED <<phase, bind, ask, runs, agent, observed, verdict, relaunch, marker, crossed, found>>,
           faults' >= faults, faults' \in Nat,
           \A q \in Requests : pc'[q] = pc[q] \/ (pc[q] = "reconcile" /\ pc'[q] = "done"),
           \A n \in Names : child[b][n] # None /\ d[n] \in Good => agent[<<child[b][n], n>>] \in Seen,
           \/ state[b] = "unresolved" /\ Reconcile(b, d)
           \/ UNCHANGED <<state, task, child, disp, reconciled>>
    PROVE  Accounts'
  <1>1. TypeOK /\ faults \in Nat
    BY AccountFacts, BoundAssumption DEF TypeOK
  <1>2. UNCHANGED <<task, child>>
    BY DEF Reconcile
  <1>3. /\ \A c \in Bindings \ {b} : state'[c] = state[c] /\ disp'[c] = disp[c]
        /\ \/ state'[b] = state[b]
           \/ /\ state[b] = "unresolved" /\ state'[b] = "completed"
              /\ AllAccounted(Kids(b), MergeDisp(b, d))
        /\ reconciled' = reconciled \/ (reconciled' = reconciled \cup {b} /\ state'[b] = "completed"
                                          /\ AllAccounted(Kids(b), MergeDisp(b, d)))
        /\ disp'[b] = disp[b] \/ (disp'[b] = MergeDisp(b, d) /\ state[b] = "unresolved")
    BY <1>1 DEF Reconcile, TypeOK
  <1>4. \A n \in Names : child[b][n] # None /\ MergeDisp(b, d)[n] \in Good => agent[<<child[b][n], n>>] \in Seen
    BY DEF MergeDisp, AccountInv, DispositionsAreSeen
  <1>5. \A q \in Requests : q \in crossed => pc'[q] = pc[q]
    BY DEF AccountInv, ActingHasCrossed, Acting
  <1>6. \A c \in Bindings : state'[c] = "effecting" <=> state[c] = "effecting"
    BY <1>3
  <1>7. DownIsQuiet'
    BY DEF AccountInv, DownIsQuiet
  <1>8. TasksAreCarried'
    BY <1>2, <1>3 DEF AccountInv, TasksAreCarried, Executing
  <1>9. ActingHasCrossed'
    BY <1>5, <1>6, AccountFacts DEF AccountInv, ActingHasCrossed, Acting
  <1>10. RunsAreOfCrossings'
    BY DEF AccountInv, RunsAreOfCrossings, Acting
  <1>11. ChildrenAreRuns'
    BY <1>2 DEF AccountInv, ChildrenAreRuns
  <1>12. FaultsOfUnrecorded'
    BY <1>1, <1>2, <1>5, <1>6, AccountFacts DEF AccountInv, FaultsOfUnrecorded, Unrecorded
  <1>13. DispositionsAreSeen'
    <2>1. ASSUME NEW c \in Bindings, NEW n \in Names
          PROVE  /\ state'[c] \in {"absent", "recorded", "effecting"} => disp'[c][n] = "none"
                 /\ child[c][n] # None /\ disp'[c][n] \in Good => agent[<<child[c][n], n>>] \in Seen
      BY <1>3, <1>4 DEF AccountInv, DispositionsAreSeen
    <2>2. \A q \in Requests : pc'[q] = "reconcile" => pc[q] = "reconcile" /\ state'[bind[q]] \in {"unresolved", "completed"}
      BY <1>3, AccountFacts
    <2>3. \A c \in reconciled' : state'[c] = "completed"
      BY <1>1, <1>3 DEF AccountInv, DispositionsAreSeen, TypeOK
    <2>4. \A q \in Requests : pc'[q] \in {"prompted", "settling"} => pc[q] = pc'[q]
      OBVIOUS
    <2> QED
      BY <1>2, <2>1, <2>2, <2>3, <2>4 DEF AccountInv, DispositionsAreSeen
  <1>14. ReconciledIsAccounted'
    <2>1. ASSUME AllAccounted(Kids(b), MergeDisp(b, d))
          PROVE  Kids(b) # {} /\ \A n \in Kids(b) : agent[<<child[b][n], n>>] \in Seen
      BY <1>4, <2>1 DEF AllAccounted, Kids, Good
    <2> QED
      BY <1>2, <1>3, <2>1 DEF AccountInv, ReconciledIsAccounted, Kids, Seen
  <1>15. (faults <= 1 => SettledAccountsForRuns)'
    <2> SUFFICES ASSUME faults' <= 1, NEW q \in Requests, <<q, "child">> \in runs,
                        state'[bind[q]] \in {"completed", "failed"}
                 PROVE  child[bind[q]]["child"] = q
      BY <1>2 DEF SettledAccountsForRuns
    <2>1. faults <= 1 /\ q \in crossed /\ bind[q] \in Bindings
      BY <1>1, AccountFacts
    <2>2. CASE state'[bind[q]] = state[bind[q]]
      BY <2>1, <2>2 DEF AccountInv, SettledAccountsForRuns
    <2>3. CASE bind[q] = b /\ AllAccounted(Kids(b), MergeDisp(b, d))
      <3>1. PICK n \in Names : child[b][n] # None
        BY <2>3 DEF AllAccounted, Kids
      <3> QED
        BY <2>1, <2>3, <3>1, ChildIsOfTheCrossing
    <2> QED
      BY <1>3, <2>1, <2>2, <2>3
  <1> QED
    BY <1>7, <1>8, <1>9, <1>10, <1>11, <1>12, <1>13, <1>14, <1>15 DEF Accounts

(* The start-up phases, and recovery of a record whose effect died: no     *)
(* request is under way.                                                   *)
LEMMA AccountStart ==
    ASSUME AccountInv, TypeOK', phase # "serving", NEW b \in Bindings,
           UNCHANGED <<pc, bind, ask, task, child, disp, reconciled, runs, agent, observed, verdict, found,
                       relaunch, marker, crossed>>,
           faults' >= faults, faults' \in Nat,
           state' = state \/ (state[b] = "effecting" /\ state' = [state EXCEPT ![b] = "unresolved"])
    PROVE  Accounts'
  <1>1. TypeOK /\ faults \in Nat
    BY AccountFacts, BoundAssumption DEF TypeOK
  <1>2. \A c \in Bindings : state'[c] = state[c] \/ (state[c] = "effecting" /\ state'[c] = "unresolved")
    BY <1>1 DEF TypeOK
  <1>3. \A r \in Requests : pc[r] \in {"idle", "done", "lost"} /\ relaunch[r] \notin {"armed", "persisted"}
    BY DEF AccountInv, DownIsQuiet
  <1>4. DownIsQuiet'
    BY <1>3 DEF DownIsQuiet
  <1>5. TasksAreCarried'
    BY <1>2 DEF AccountInv, TasksAreCarried
  <1>6. ActingHasCrossed'
    BY <1>3 DEF AccountInv, ActingHasCrossed, Acting
  <1>7. RunsAreOfCrossings'
    BY DEF AccountInv, RunsAreOfCrossings
  <1>8. ChildrenAreRuns'
    BY DEF AccountInv, ChildrenAreRuns
  <1>9. FaultsOfUnrecorded'
    BY <1>1, <1>2, AccountFacts DEF AccountInv, FaultsOfUnrecorded, Unrecorded
  <1>10. DispositionsAreSeen'
    <2>1. \A c \in reconciled : c \in Bindings /\ state'[c] = "completed"
      BY <1>1, <1>2 DEF AccountInv, DispositionsAreSeen, TypeOK
    <2> QED
      BY <1>2, <1>3, <2>1 DEF AccountInv, DispositionsAreSeen
  <1>11. ReconciledIsAccounted'
    BY DEF AccountInv, ReconciledIsAccounted, Kids
  <1>12. (faults <= 1 => SettledAccountsForRuns)'
    BY <1>1, <1>2, AccountFacts DEF AccountInv, SettledAccountsForRuns
  <1> QED
    BY <1>4, <1>5, <1>6, <1>7, <1>8, <1>9, <1>10, <1>11, <1>12 DEF Accounts

(* A crash: every request under way is lost, the records and runs stay.    *)
LEMMA AccountCrash ==
    ASSUME AccountInv, TypeOK', Crash
    PROVE  Accounts'
  <1>1. /\ UNCHANGED <<state, task, child, disp, reconciled, bind, ask, runs, agent, marker, crossed, faults>>
        /\ phase' = "down"
        /\ \A q \in Requests : /\ pc'[q] = IF pc[q] \in {"idle", "done"} THEN pc[q] ELSE "lost"
                               /\ verdict'[q] = "none" /\ observed'[q] = {}
                               /\ relaunch'[q] \notin {"armed", "persisted"}
    BY DEF Crash, record, world
  <1>2. \A q \in Requests : pc'[q] \in {"idle", "done", "lost"} /\ (pc'[q] # "lost" => pc'[q] = pc[q])
    BY <1>1
  <1>3. DownIsQuiet'
    BY <1>1, <1>2 DEF DownIsQuiet
  <1>4. TasksAreCarried'
    BY <1>1, <1>2 DEF AccountInv, TasksAreCarried, Executing
  <1>5. ActingHasCrossed'
    BY <1>1, <1>2 DEF AccountInv, ActingHasCrossed, Acting
  <1>6. RunsAreOfCrossings'
    BY <1>1, <1>2 DEF AccountInv, RunsAreOfCrossings, Acting
  <1>7. ChildrenAreRuns'
    BY <1>1, <1>2 DEF AccountInv, ChildrenAreRuns
  <1>8. FaultsOfUnrecorded'
    BY <1>1, <1>2 DEF AccountInv, FaultsOfUnrecorded, Unrecorded
  <1>9. DispositionsAreSeen'
    BY <1>1, <1>2 DEF AccountInv, DispositionsAreSeen
  <1>10. ReconciledIsAccounted'
    BY <1>1 DEF AccountInv, ReconciledIsAccounted, Kids
  <1>11. (faults <= 1 => SettledAccountsForRuns)'
    BY <1>1 DEF AccountInv, SettledAccountsForRuns
  <1> QED
    BY <1>3, <1>4, <1>5, <1>6, <1>7, <1>8, <1>9, <1>10, <1>11 DEF Accounts

(* A request on its way to the pipeline, refused before its boundary, or   *)
(* done with its execution.                                                *)
LEMMA AccountQuiet ==
    ASSUME AccountInv, TypeOK', NEW r \in Requests,
           \/ Peek(r) \/ Enter(r) \/ AwaitPrior(r) \/ Wake(r) \/ Finish(r)
           \/ \E w \in Writes : BeginNew(r, w) \/ BeginExisting(r, w)
           \/ \E v \in {"threw_absent", "threw_unknown"} : PipelineThrows(r, v)
    PROVE  Accounts'
  <1>1. TypeOK /\ faults \in Nat
    BY AccountFacts, BoundAssumption DEF TypeOK
  <1>2. /\ UNCHANGED <<phase, bind, ask, child, disp, reconciled, runs, agent, observed, found, relaunch, crossed, marker>>
        /\ phase = "serving"
        /\ pc[r] \in {"peek", "begin", "begun", "waiting", "routing", "settled"}
    BY DEF Peek, Enter, AwaitPrior, Wake, Finish, BeginNew, BeginExisting, PipelineThrows, proc, record, world, history,
       Serving
  <1>3. \E p \in {"begin", "begun", "waiting", "routing", "settling", "done"} :
           /\ pc' = [pc EXCEPT ![r] = p]
           /\ pc[r] = "settled" => p = "done"
           /\ p = "settling" => \E v \in {"threw_absent", "threw_unknown"} : PipelineThrows(r, v)
    BY DEF Peek, Enter, AwaitPrior, Wake, Finish, BeginNew, BeginExisting, PipelineThrows, End
  <1>4. /\ pc'[r] \in {"begin", "begun", "waiting", "routing", "settling", "done"}
        /\ \A q \in Requests \ {r} : pc'[q] = pc[q]
        /\ pc[r] = "settled" => pc'[r] = "done"
        /\ pc'[r] = "settling" => \E v \in {"threw_absent", "threw_unknown"} : PipelineThrows(r, v)
    BY <1>1, <1>3 DEF TypeOK
  <1>5. /\ pc'[r] = "settling" => verdict'[r] # "launched"
        /\ \A q \in Requests \ {r} : verdict'[q] = verdict[q]
    <2>1. \/ UNCHANGED verdict
          \/ \E v \in {"threw_absent", "threw_unknown"} : verdict' = [verdict EXCEPT ![r] = v]
      BY DEF Peek, Enter, AwaitPrior, Wake, Finish, BeginNew, BeginExisting, PipelineThrows, End
    <2>2. pc'[r] = "settling" => \E v \in {"threw_absent", "threw_unknown"} : verdict' = [verdict EXCEPT ![r] = v]
      BY <1>4 DEF PipelineThrows, End
    <2> QED
      BY <1>1, <2>1, <2>2 DEF TypeOK
  <1>6. faults' >= faults /\ faults' \in Nat
    BY <1>1, FaultsCount DEF Peek, Enter, AwaitPrior, Wake, Finish, BeginNew, BeginExisting, PipelineThrows, history
  <1>7. \A b \in Bindings : \/ state'[b] = state[b] /\ task'[b] = task[b]
                            \/ state[b] = "absent" /\ state'[b] = "recorded" /\ task'[b] \in Tasks
    <2>1. CASE UNCHANGED <<state, task>>
      BY <2>1
    <2>2. ASSUME NEW w \in Writes, BeginNew(r, w)
          PROVE  \A b \in Bindings : \/ state'[b] = state[b] /\ task'[b] = task[b]
                                     \/ state[b] = "absent" /\ state'[b] = "recorded" /\ task'[b] \in Tasks
      <3>1. ask[r] \in Tasks /\ bind[r] \in Bindings
        BY <1>1, <2>2 DEF AccountInv, TasksAreCarried, TypeOK, BeginNew
      <3>2. \/ UNCHANGED <<state, task>>
            \/ /\ state[bind[r]] = "absent" /\ state' = [state EXCEPT ![bind[r]] = "recorded"]
               /\ task' = [task EXCEPT ![bind[r]] = ask[r]]
        BY <2>2 DEF BeginNew
      <3> QED
        BY <1>1, <3>1, <3>2 DEF TypeOK
    <2> QED
      BY <2>1, <2>2 DEF Peek, Enter, AwaitPrior, Wake, Finish, BeginExisting, PipelineThrows, record
  <1>8. QuietStep(r)
    BY <1>2, <1>4, <1>5, <1>6, <1>7 DEF QuietStep
  <1> QED
    BY <1>8, QuietMove

(* One step of a request.                                                  *)
LEMMA AccountRequest ==
    ASSUME AccountInv, TypeOK', NEW r \in Requests, Step(r)
    PROVE  Accounts'
  <1>1. TypeOK
    BY AccountFacts
  <1>2. ASSUME NEW v \in {"failed", "launched"}, EndsBeforeRun(r, v) \/ PipelineEnds(r, v)
        PROVE  Accounts'
    BY <1>2, AccountEnds
  <1>3. ASSUME NEW w \in Writes, MarkEffecting(r, w) \/ RecordChildren(r, w) \/ Settle(r, w)
        PROVE  Accounts'
    BY <1>3, AccountMark, AccountRecord, AccountSettle
  <1>4. CASE Persist(r)
    BY <1>4, AccountPersist
  <1>5. CASE StartAgent(r) \/ BindAndPrompt(r)
    BY <1>5, AccountAgent
  <1>6. ASSUME NEW w \in Writes, ReconcileWrite(r, w)
        PROVE  Accounts'
    <2>1. /\ UNCHANGED <<phase, bind, ask, runs, agent, observed, verdict, relaunch, marker, crossed, found>>
          /\ pc[r] = "reconcile" /\ pc' = [pc EXCEPT ![r] = "done"] /\ faults' >= faults /\ faults' \in Nat
          /\ \/ state[bind[r]] = "unresolved" /\ Reconcile(bind[r], found[r])
             \/ UNCHANGED <<state, task, child, disp, reconciled>>
      BY <1>1, <1>6, FaultsCount DEF ReconcileWrite, proc, record, world
    <2>2. bind[r] \in Bindings /\ found[r] \in [Names -> Dispositions]
      BY <1>1, <2>1 DEF TypeOK
    <2>3. \A q \in Requests : pc'[q] = pc[q] \/ (pc[q] = "reconcile" /\ pc'[q] = "done")
      BY <1>1, <2>1 DEF TypeOK
    <2>4. \A n \in Names : child[bind[r]][n] # None /\ found[r][n] \in Good => agent[<<child[bind[r]][n], n>>] \in Seen
      BY <2>1 DEF AccountInv, DispositionsAreSeen
    <2> QED
      BY <2>1, <2>2, <2>3, <2>4, AccountReconcile
  <1>7. CASE \/ Peek(r) \/ Enter(r) \/ AwaitPrior(r) \/ Wake(r) \/ Finish(r)
             \/ \E w \in Writes : BeginNew(r, w) \/ BeginExisting(r, w)
             \/ \E v \in {"threw_absent", "threw_unknown"} : PipelineThrows(r, v)
    BY <1>7, AccountQuiet
  <1> QED
    BY <1>2, <1>3, <1>4, <1>5, <1>6, <1>7 DEF Step

(* One step of a starting daemon.                                          *)
LEMMA AccountRestart ==
    ASSUME AccountInv, TypeOK', Restart
    PROVE  Accounts'
  <1>1. TypeOK /\ faults \in Nat /\ faults >= faults
    BY AccountFacts, BoundAssumption DEF TypeOK
  <1>2. CASE UNCHANGED <<record, calls, world, history>> /\ phase # "serving" /\ \E b \in Bindings : TRUE
    BY <1>1, <1>2, AccountStart DEF record, calls, world, history
  <1>3. CASE UNCHANGED <<record, calls, world, history>> /\ phase # "serving" /\ Bindings = {}
    <2>1. DownIsQuiet'
      BY <1>3 DEF AccountInv, DownIsQuiet, calls
    <2> QED
      BY <1>3, <2>1 DEF AccountInv, Accounts, TasksAreCarried, ActingHasCrossed, RunsAreOfCrossings, ChildrenAreRuns,
         FaultsOfUnrecorded, Unrecorded, DispositionsAreSeen, ReconciledIsAccounted, Kids, SettledAccountsForRuns,
         record, calls, world, history
  <1>4. CASE StartDaemon \/ RecoveryDone \/ Serve \/ \E b \in Bindings : SweepSkips(b)
    BY <1>2, <1>3, <1>4 DEF StartDaemon, RecoveryDone, Serve, SweepSkips
  <1>5. ASSUME NEW b \in Bindings, NEW w \in Writes, RecoverInterrupted(b, w)
        PROVE  Accounts'
    <2>1. faults' >= faults /\ faults' \in Nat
      BY <1>1, <1>5, FaultsCount DEF RecoverInterrupted
    <2> QED
      BY <1>5, <2>1, AccountStart DEF RecoverInterrupted, Interrupted, calls, world
  <1>6. ASSUME NEW b \in Bindings, NEW w \in Writes, NEW d \in [Names -> Dispositions], SweepIntent(b, w, d)
        PROVE  Accounts'
    <2>1. /\ UNCHANGED <<phase, pc, bind, ask, runs, agent, observed, verdict, relaunch, marker, crossed, found>>
          /\ faults' >= faults /\ faults' \in Nat
          /\ state[b] = "unresolved"
          /\ Reconcile(b, d) \/ UNCHANGED <<state, task, child, disp, reconciled>>
          /\ \A n \in Names : n \in Kids(b) => d[n] \in SweepFinds(b, n)
      BY <1>1, <1>6, FaultsCount DEF SweepIntent, calls, record, world
    <2>2. ASSUME NEW n \in Names, child[b][n] # None, d[n] \in Good
          PROVE  agent[<<child[b][n], n>>] \in Seen
      <3>1. d[n] \in SweepFinds(b, n)
        BY <2>1, <2>2 DEF Kids
      <3>2. agent[<<child[b][n], n>>] \in Seen \/ d[n] = disp[b][n]
        BY <3>1 DEF SweepFinds, Seen
      <3> QED
        BY <2>2, <3>2 DEF AccountInv, DispositionsAreSeen
    <2> QED
      BY <2>1, <2>2, AccountReconcile
  <1> QED
    BY <1>4, <1>5, <1>6 DEF Restart

(* Nothing has happened in an initial state.                               *)
LEMMA AccountInit == Init => AccountInv
  <1> SUFFICES ASSUME Init PROVE AccountInv
    OBVIOUS
  <1>1. LedgerInv
    BY LedgerInit
  <1> QED
    BY <1>1, NoneAssumption DEF Init, AccountInv, DownIsQuiet, TasksAreCarried, ActingHasCrossed, RunsAreOfCrossings,
       ChildrenAreRuns, FaultsOfUnrecorded, Unrecorded, DispositionsAreSeen, Good, ReconciledIsAccounted,
       SettledAccountsForRuns, NoChildren, NoDispositions, Acting, Executing, Names

(* Every step keeps the accounts.                                          *)
LEMMA AccountStep == AccountInv /\ [Next]_vars => AccountInv'
  <1> SUFFICES ASSUME AccountInv, [Next]_vars PROVE AccountInv'
    OBVIOUS
  <1>0. TypeOK /\ TypeOK' /\ LedgerInv'
    BY TypeStep, LedgerStep DEF AccountInv, LedgerInv
  <1> SUFFICES Accounts'
    BY <1>0 DEF Accounts, AccountInv
  <1>1. ASSUME NEW r \in Requests, NEW b \in Bindings, NEW t \in Tasks, Arrive(r, b, t)
        PROVE  Accounts'
    BY <1>0, <1>1, AccountArrival DEF Arrive, Serving, proc, record, world, history
  <1>2. ASSUME NEW r \in Requests, NEW b \in Bindings, NEW d \in [Names -> Dispositions], ReconcileRead(r, b, d)
        PROVE  Accounts'
    BY <1>0, <1>2, AccountArrival DEF ReconcileRead, Serving, proc, record, world, history
  <1>3. ASSUME NEW r \in Requests, Step(r)
        PROVE  Accounts'
    BY <1>0, <1>3, AccountRequest
  <1>4. ASSUME NEW r \in Requests, RelaunchPersist(r)
        PROVE  Accounts'
    <2>1. \A x \in Runs : agent[x] \in Seen => agent'[x] \in Seen
      BY <1>0, <1>4 DEF RelaunchPersist, Seen, TypeOK
    <2> QED
      BY <1>0, <1>4, <2>1, AccountSeen DEF RelaunchPersist, Serving, proc, record, history
  <1>5. ASSUME NEW r \in Requests, NEW w \in Writes, RelaunchRecord(r, w)
        PROVE  Accounts'
    BY <1>0, <1>5, AccountRelaunchRecord
  <1>6. ASSUME NEW x \in Runs, AgentExits(x)
        PROVE  Accounts'
    <2>1. \A y \in Runs : agent[y] \in Seen => agent'[y] \in Seen
      BY <1>0, <1>6 DEF AgentExits, Seen, TypeOK
    <2> QED
      BY <1>0, <1>6, <2>1, AccountSeen DEF AgentExits, proc, record, calls, history
  <1>7. CASE Crash
    BY <1>0, <1>7, AccountCrash
  <1>8. CASE Restart
    BY <1>0, <1>8, AccountRestart
  <1>9. CASE UNCHANGED vars
    <2>1. \A x \in Runs : agent[x] \in Seen => agent'[x] \in Seen
      BY <1>9 DEF vars, world
    <2> QED
      BY <1>0, <1>9, <2>1, AccountSeen DEF vars, proc, record, calls, world, history
  <1> QED
    BY <1>1, <1>2, <1>3, <1>4, <1>5, <1>6, <1>7, <1>8, <1>9 DEF Next

(* The accounts hold in every reachable state.                             *)
THEOREM AccountsHold == Spec => []AccountInv
  BY AccountInit, AccountStep, PTL DEF Spec

(* reconcile closes an intent only with every recorded child seen live or  *)
(* gone, for any number of requests, crashes, relaunches and faulty writes. *)
THEOREM ReconciledAreAccounted == Spec => []ReconciledIsAccounted
  <1>1. AccountInv => ReconciledIsAccounted
    BY DEF AccountInv
  <1> QED
    BY <1>1, AccountsHold, PTL

(* With at most one faulty write, whatever the number of requests, crashes *)
(* and relaunches, the ledger's verdicts account for every child: a record *)
(* settles failed only when nothing exists, completed only with its child. *)
THEOREM VerdictsAccount == Spec => [](faults <= 1 => VerdictsAreAccounted)
  <1>1. AccountInv => (faults <= 1 => VerdictsAreAccounted)
    BY DEF AccountInv, VerdictsAreAccounted
  <1> QED
    BY <1>1, AccountsHold, PTL

-----------------------------------------------------------------------------
(* The refinement of the contract of a key.                                *)

(* The effector of a binding is the one request that crossed on it.        *)
LEMMA EffectorIs ==
    AtMostOnce => \A b \in Bindings : /\ \A r \in crossed : bind[r] = b => EffectorOf(b) = r
                                      /\ (\A r \in crossed : bind[r] # b) => EffectorOf(b) = None
  <1> SUFFICES ASSUME AtMostOnce, NEW b \in Bindings
               PROVE  /\ \A r \in crossed : bind[r] = b => EffectorOf(b) = r
                      /\ (\A r \in crossed : bind[r] # b) => EffectorOf(b) = None
    OBVIOUS
  <1>1. ASSUME NEW r \in crossed, bind[r] = b
        PROVE  EffectorOf(b) = r
    <2>1. {q \in crossed : bind[q] = b} = {r}
      BY <1>1 DEF AtMostOnce
    <2>2. (CHOOSE q \in {r} : TRUE) = r
      OBVIOUS
    <2> QED
      BY <2>1, <2>2 DEF EffectorOf
  <1>2. ASSUME \A r \in crossed : bind[r] # b
        PROVE  EffectorOf(b) = None
    <2>1. {q \in crossed : bind[q] = b} = {}
      BY <1>2
    <2> QED
      BY <2>1 DEF EffectorOf
  <1> QED
    BY <1>1, <1>2

(* So it is after a step.                                                  *)
LEMMA EffectorIsNext ==
    AtMostOnce' => (\A b \in Bindings : /\ \A r \in crossed : bind[r] = b => EffectorOf(b) = r
                                        /\ (\A r \in crossed : bind[r] # b) => EffectorOf(b) = None)'
  BY EffectorIs, PTL

(* A key is made when a launch has persisted a run for it.                 *)
LEMMA MadeIs ==
    TypeOK => \A b \in Bindings : b \in MadeFor <=> \E r \in Requests : <<r, "child">> \in runs /\ bind[r] = b
  <1> SUFFICES ASSUME TypeOK, NEW b \in Bindings
               PROVE  b \in MadeFor <=> \E r \in Requests : <<r, "child">> \in runs /\ bind[r] = b
    OBVIOUS
  <1>1. ASSUME b \in MadeFor
        PROVE  \E r \in Requests : <<r, "child">> \in runs /\ bind[r] = b
    <2>1. PICK x \in runs : x[2] = "child" /\ bind[x[1]] = b
      BY <1>1 DEF MadeFor
    <2>2. x[1] \in Requests /\ x = <<x[1], x[2]>>
      BY <2>1 DEF TypeOK, Runs
    <2> QED
      BY <2>1, <2>2
  <1>2. ASSUME NEW r \in Requests, <<r, "child">> \in runs, bind[r] = b
        PROVE  b \in MadeFor
    BY <1>2 DEF MadeFor
  <1> QED
    BY <1>1, <1>2

(* The caller's view of the crossings is kept by a step that crosses       *)
(* nothing and leaves the requests that crossed alone.                     *)
LEMMA SameEffectors ==
    ASSUME AtMostOnce, crossed' = crossed, \A r \in crossed : bind'[r] = bind[r]
    PROVE  [b \in Bindings |-> EffectorOf(b)]' = [b \in Bindings |-> EffectorOf(b)]
  <1>1. AtMostOnce'
    BY DEF AtMostOnce
  <1>2. (\A b \in Bindings : /\ \A r \in crossed : bind[r] = b => EffectorOf(b) = r
                             /\ (\A r \in crossed : bind[r] # b) => EffectorOf(b) = None)'
    BY <1>1, EffectorIsNext
  <1>3. ASSUME NEW b \in Bindings
        PROVE  EffectorOf(b)' = EffectorOf(b)
    BY <1>2, EffectorIs
  <1> QED
    BY <1>3

(* And its view of what was made, by one that persists no launch's run.    *)
LEMMA SameMade ==
    ASSUME TypeOK, TypeOK',
           \A r \in Requests : <<r, "child">> \in runs' <=> <<r, "child">> \in runs,
           \A r \in Requests : <<r, "child">> \in runs => bind'[r] = bind[r]
    PROVE  MadeFor' = MadeFor
  <1>1. \A x \in runs \cup runs' : x[1] \in Requests /\ x = <<x[1], x[2]>>
    BY DEF TypeOK, Runs
  <1>2. {y \in runs' : y[2] = "child"} = {y \in runs : y[2] = "child"}
    BY <1>1
  <1>3. \A x \in {y \in runs : y[2] = "child"} : bind'[x[1]] = bind[x[1]]
    BY <1>1
  <1> QED
    BY <1>2, <1>3 DEF MadeFor

(* A step that shows a caller nothing.                                     *)
LEMMA ContractStutters ==
    ASSUME AccountInv, TypeOK',
           UNCHANGED <<task, ask, crossed>>,
           \A r \in crossed : bind'[r] = bind[r],
           \A r \in Requests : <<r, "child">> \in runs' <=> <<r, "child">> \in runs,
           \A b \in Bindings : OutcomeOf(state'[b]) = OutcomeOf(state[b])
    PROVE  UNCHANGED Contract!contractVars
  <1>1. [b \in Bindings |-> EffectorOf(b)]' = [b \in Bindings |-> EffectorOf(b)]
    BY SameEffectors DEF AccountInv, LedgerInv
  <1>2. MadeFor' = MadeFor
    BY SameMade, AccountFacts
  <1>3. [b \in Bindings |-> OutcomeOf(state[b])]' = [b \in Bindings |-> OutcomeOf(state[b])]
    OBVIOUS
  <1> QED
    BY <1>1, <1>2, <1>3 DEF Contract!contractVars

(* A step that puts an outcome on record for one binding.                  *)
LEMMA ContractDecides ==
    ASSUME AccountInv, TypeOK', NEW b \in Bindings, NEW o \in {"completed", "failed", "unresolved"},
           UNCHANGED <<task, ask, crossed, bind, runs>>,
           state' = [state EXCEPT ![b] = o],
           \/ state[b] \in {"recorded", "effecting"}
           \/ /\ state[b] = "unresolved" /\ o = "completed"
              /\ \E r \in Requests : <<r, "child">> \in runs /\ bind[r] = b,
           o = "completed" => \E r \in crossed : bind[r] = b,
           o = "failed" => \A r \in Requests : bind[r] = b => <<r, "child">> \notin runs
    PROVE  Contract!Next
  <1>1. TypeOK /\ AtMostOnce /\ task[b] # None
    BY NoneAssumption DEF AccountInv, LedgerInv, TasksAreCarried
  <1>2. [c \in Bindings |-> EffectorOf(c)]' = [c \in Bindings |-> EffectorOf(c)]
    BY <1>1, SameEffectors
  <1>3. MadeFor' = MadeFor
    BY <1>1, SameMade
  <1>4. [c \in Bindings |-> OutcomeOf(state[c])]' = [[c \in Bindings |-> OutcomeOf(state[c])] EXCEPT ![b] = o]
    <2>1. OutcomeOf(o) = o
      BY DEF OutcomeOf
    <2>2. \A c \in Bindings : state'[c] = IF c = b THEN o ELSE state[c]
      BY <1>1 DEF TypeOK
    <2>3. \A c \in Bindings : OutcomeOf(state'[c]) = IF c = b THEN o ELSE OutcomeOf(state[c])
      BY <2>1, <2>2
    <2> QED
      BY <2>3
  <1>5. o = "completed" => [c \in Bindings |-> EffectorOf(c)][b] # None
    BY <1>1, EffectorIs, NoneAssumption DEF TypeOK
  <1>6. o = "failed" => b \notin MadeFor
    BY <1>1, MadeIs
  <1>7. \/ [c \in Bindings |-> OutcomeOf(state[c])][b] = "open"
        \/ [c \in Bindings |-> OutcomeOf(state[c])][b] = "unresolved" /\ o = "completed" /\ b \in MadeFor
    BY <1>1, MadeIs DEF OutcomeOf
  <1>8. Contract!Decide(b, o)
    BY <1>1, <1>2, <1>3, <1>4, <1>5, <1>6, <1>7 DEF Contract!Decide
  <1> QED
    BY <1>8 DEF Contract!Next

(* Arrive is Ask.                                                          *)
LEMMA ContractArrive ==
    ASSUME AccountInv, TypeOK', NEW r \in Requests, NEW b \in Bindings, NEW t \in Tasks, Arrive(r, b, t)
    PROVE  Contract!Next
  <1>1. /\ UNCHANGED <<task, state, runs, crossed>> /\ pc[r] = "idle" /\ ask' = [ask EXCEPT ![r] = t]
        /\ bind' = [bind EXCEPT ![r] = b]
    BY DEF Arrive, record, world, history
  <1>2. TypeOK /\ AtMostOnce /\ ask[r] = None /\ r \notin crossed
    BY <1>1 DEF AccountInv, LedgerInv, TasksAreCarried, CrossingIsRecorded
  <1>3. \A q \in Requests : q # r => bind'[q] = bind[q]
    BY <1>1, <1>2 DEF TypeOK
  <1>4. \A q \in crossed : q \in Requests /\ bind'[q] = bind[q]
    BY <1>2, <1>3, AccountFacts
  <1>5. \A q \in Requests : <<q, "child">> \in runs => bind'[q] = bind[q]
    BY <1>4, AccountFacts
  <1>6. [c \in Bindings |-> EffectorOf(c)]' = [c \in Bindings |-> EffectorOf(c)]
    BY <1>1, <1>2, <1>4, SameEffectors
  <1>7. MadeFor' = MadeFor
    BY <1>1, <1>2, <1>5, SameMade
  <1>8. Contract!Ask(r, t)
    BY <1>1, <1>2, <1>6, <1>7 DEF Contract!Ask
  <1> QED
    BY <1>8 DEF Contract!Next

(* begin on an absent record is BindTask when the record lands.            *)
LEMMA ContractBegin ==
    ASSUME AccountInv, TypeOK', NEW r \in Requests, NEW w \in Writes, BeginNew(r, w)
    PROVE  [Contract!Next]_Contract!contractVars
  <1>1. /\ UNCHANGED <<bind, ask, runs, crossed>> /\ pc[r] = "begin" /\ state[bind[r]] = "absent"
        /\ \/ UNCHANGED <<state, task>>
           \/ /\ state' = [state EXCEPT ![bind[r]] = "recorded"]
              /\ task' = [task EXCEPT ![bind[r]] = ask[r]]
    BY DEF BeginNew, world
  <1>2. TypeOK /\ AtMostOnce /\ bind[r] \in Bindings /\ ask[r] \in Tasks /\ task[bind[r]] = None
    BY <1>1 DEF AccountInv, LedgerInv, TasksAreCarried, TypeOK
  <1>3. CASE UNCHANGED <<state, task>>
    <2>1. UNCHANGED Contract!contractVars
      BY <1>1, <1>3, ContractStutters
    <2> QED
      BY <2>1
  <1>4. CASE /\ state' = [state EXCEPT ![bind[r]] = "recorded"]
             /\ task' = [task EXCEPT ![bind[r]] = ask[r]]
    <2>1. [c \in Bindings |-> EffectorOf(c)]' = [c \in Bindings |-> EffectorOf(c)]
      BY <1>1, <1>2, SameEffectors
    <2>2. MadeFor' = MadeFor
      BY <1>1, <1>2, SameMade
    <2>3. \A c \in Bindings : OutcomeOf(state'[c]) = OutcomeOf(state[c])
      BY <1>1, <1>2, <1>4 DEF OutcomeOf, TypeOK
    <2>4. [c \in Bindings |-> OutcomeOf(state[c])]' = [c \in Bindings |-> OutcomeOf(state[c])]
      BY <2>3
    <2>5. [c \in Bindings |-> OutcomeOf(state[c])][bind[r]] = "open"
      BY <1>1, <1>2 DEF OutcomeOf
    <2>6. Contract!BindTask(bind[r], ask[r])
      BY <1>1, <1>2, <1>4, <2>1, <2>2, <2>4, <2>5 DEF Contract!BindTask
    <2> QED
      BY <1>2, <2>6 DEF Contract!Next
  <1> QED
    BY <1>1, <1>3, <1>4

(* markEffecting is Effect when it lets the request through.               *)
LEMMA ContractMark ==
    ASSUME AccountInv, AtMostOnce', TypeOK', NEW r \in Requests, NEW w \in Writes, MarkEffecting(r, w)
    PROVE  [Contract!Next]_Contract!contractVars
  <1> DEFINE b == bind[r]
  <1>1. /\ UNCHANGED <<bind, ask, task, runs>> /\ pc[r] = "routing"
        /\ \/ /\ state[b] = "recorded" /\ state' = [state EXCEPT ![b] = "effecting"]
              /\ crossed' = crossed \cup {r} \/ crossed' = crossed
           \/ UNCHANGED <<state, crossed>>
    BY DEF MarkEffecting, MarkExpect, Lands, world
  <1>2. TypeOK /\ AtMostOnce /\ b \in Bindings /\ task[b] = ask[r]
    BY <1>1 DEF AccountInv, LedgerInv, TypeOK, BegunIsBound, Executing
  <1>3. \A c \in Bindings : OutcomeOf(state'[c]) = OutcomeOf(state[c])
    BY <1>1, <1>2 DEF OutcomeOf, TypeOK
  <1>4. CASE crossed' = crossed
    <2>1. UNCHANGED Contract!contractVars
      BY <1>1, <1>3, <1>4, ContractStutters
    <2> QED
      BY <2>1
  <1>5. CASE state[b] = "recorded" /\ crossed' = crossed \cup {r}
    <2>1. \A q \in crossed : bind[q] # b
      BY <1>5, AccountFacts
    <2>2. (\A c \in Bindings : /\ \A q \in crossed : bind[q] = c => EffectorOf(c) = q
                               /\ (\A q \in crossed : bind[q] # c) => EffectorOf(c) = None)'
      BY EffectorIsNext
    <2>3. EffectorOf(b) = None
      BY <1>2, <2>1, EffectorIs
    <2>4. \A c \in Bindings : EffectorOf(c)' = IF c = b THEN r ELSE EffectorOf(c)
      <3>1. \A c \in Bindings \ {b} : EffectorOf(c)' = EffectorOf(c)
        <4> SUFFICES ASSUME NEW c \in Bindings, c # b
                     PROVE  EffectorOf(c)' = EffectorOf(c)
          OBVIOUS
        <4>1. CASE \E q \in crossed : bind[q] = c
          BY <1>1, <1>2, <1>5, <2>2, <4>1, EffectorIs
        <4>2. CASE \A q \in crossed : bind[q] # c
          BY <1>1, <1>2, <1>5, <2>2, <4>2, EffectorIs
        <4> QED
          BY <4>1, <4>2
      <3>2. \A c \in Bindings : c = b => EffectorOf(c)' = r
        <4>1. r \in crossed' /\ bind'[r] = b
          BY <1>1, <1>5
        <4> QED
          BY <1>2, <2>2, <4>1
      <3> QED
        BY <3>1, <3>2
    <2>5. [c \in Bindings |-> EffectorOf(c)]' = [[c \in Bindings |-> EffectorOf(c)] EXCEPT ![b] = r]
      BY <2>4
    <2>6. MadeFor' = MadeFor
      BY <1>1, <1>2, SameMade
    <2>7. [c \in Bindings |-> OutcomeOf(state[c])]' = [c \in Bindings |-> OutcomeOf(state[c])]
      BY <1>3
    <2>8. [c \in Bindings |-> OutcomeOf(state[c])][b] = "open" /\ [c \in Bindings |-> EffectorOf(c)][b] = None
      BY <1>2, <1>5, <2>3 DEF OutcomeOf
    <2>9. Contract!Effect(b, r)
      BY <1>1, <1>2, <2>5, <2>6, <2>7, <2>8 DEF Contract!Effect
    <2> QED
      BY <1>2, <2>9 DEF Contract!Next
  <1> QED
    BY <1>1, <1>4, <1>5

(* persist is MakeRun.                                                     *)
LEMMA ContractPersist ==
    ASSUME AccountInv, TypeOK', NEW r \in Requests, Persist(r)
    PROVE  Contract!Next
  <1> DEFINE b == bind[r]
  <1>1. /\ UNCHANGED <<bind, ask, task, state, crossed>> /\ pc[r] = "effecting" /\ runs' = runs \cup {<<r, "child">>}
    BY DEF Persist, record, history
  <1>2. TypeOK /\ AtMostOnce /\ b \in Bindings /\ r \in crossed /\ state[b] = "effecting"
    BY <1>1 DEF AccountInv, LedgerInv, TypeOK, ActingHasCrossed, Acting
  <1>3. [c \in Bindings |-> EffectorOf(c)]' = [c \in Bindings |-> EffectorOf(c)]
    BY <1>1, <1>2, SameEffectors
  <1>4. MadeFor' = MadeFor \cup {b}
    <2>1. {y \in runs' : y[2] = "child"} = {y \in runs : y[2] = "child"} \cup {<<r, "child">>}
      BY <1>1
    <2>2. MadeFor' = {bind[x[1]] : x \in {y \in runs : y[2] = "child"} \cup {<<r, "child">>}}
      BY <1>1, <2>1 DEF MadeFor
    <2>3. MadeFor' = {bind[x[1]] : x \in {y \in runs : y[2] = "child"}} \cup {bind[<<r, "child">>[1]]}
      BY <2>2, Zenon
    <2> QED
      BY <2>3 DEF MadeFor
  <1>5. EffectorOf(b) = r
    BY <1>2, EffectorIs
  <1>6. [c \in Bindings |-> OutcomeOf(state[c])][b] = "open" /\ [c \in Bindings |-> EffectorOf(c)][b] # None
    BY <1>2, <1>5, NoneAssumption DEF OutcomeOf
  <1>7. Contract!MakeRun(b)
    BY <1>1, <1>3, <1>4, <1>6 DEF Contract!MakeRun
  <1> QED
    BY <1>2, <1>7 DEF Contract!Next

(* A settle that lands is Decide, and an honest one while no second write  *)
(* has gone wrong.                                                         *)
LEMMA ContractSettle ==
    ASSUME AccountInv, TypeOK', NEW r \in Requests, NEW w \in Writes, Settle(r, w), faults <= 1
    PROVE  [Contract!Next]_Contract!contractVars
  <1> DEFINE b == bind[r]
  <1>1. /\ UNCHANGED <<bind, ask, task, runs, crossed>> /\ pc[r] = "settling" /\ phase = "serving"
        /\ \/ state[b] \in SettleExpect(r) /\ state' = [state EXCEPT ![b] = SettleState(r)]
           \/ state' = state
    BY DEF Settle, world, Serving
  <1>2. b \in Bindings
    BY <1>1, AccountFacts DEF TypeOK
  <1>3. CASE state' = state
    <2>1. UNCHANGED Contract!contractVars
      BY <1>1, <1>3, ContractStutters
    <2> QED
      BY <2>1
  <1>4. CASE state[b] \in SettleExpect(r) /\ state' = [state EXCEPT ![b] = SettleState(r)]
    <2>1. /\ SettleState(r) \in {"completed", "failed", "unresolved"} /\ state[b] \in {"recorded", "effecting"}
          /\ SettleState(r) = "completed" => verdict[r] = "launched"
      BY <1>4 DEF SettleState, SettleExpect, CompleteExpect, FailExpect
    <2>2. SettleState(r) = "completed" => \E q \in crossed : bind[q] = b
      BY <1>1, <2>1 DEF AccountInv, ActingHasCrossed
    <2>3. SettleState(r) = "failed" => \A q \in Requests : bind[q] = b => <<q, "child">> \notin runs
      BY <1>1, <1>4, FailedMeansNothing
    <2>4. Contract!Next
      <3> HIDE DEF b
      <3> QED
        BY <1>1, <1>2, <1>4, <2>1, <2>2, <2>3, ContractDecides
    <2> QED
      BY <2>4
  <1> QED
    BY <1>1, <1>3, <1>4

(* A reconcile that completes a record is Decide: its children are of the  *)
(* launch that made the binding's run.                                     *)
LEMMA ContractReconcile ==
    ASSUME AccountInv, TypeOK', NEW b \in Bindings, NEW d \in [Names -> Dispositions],
           UNCHANGED <<bind, ask, runs, crossed>>,
           \/ state[b] = "unresolved" /\ Reconcile(b, d)
           \/ UNCHANGED <<state, task>>
    PROVE  [Contract!Next]_Contract!contractVars
  <1>1. /\ UNCHANGED task
        /\ \/ UNCHANGED state
           \/ /\ state[b] = "unresolved" /\ state' = [state EXCEPT ![b] = "completed"]
              /\ AllAccounted(Kids(b), MergeDisp(b, d))
    BY DEF Reconcile
  <1>2. CASE UNCHANGED state
    <2>1. UNCHANGED Contract!contractVars
      BY <1>1, <1>2, ContractStutters
    <2> QED
      BY <2>1
  <1>3. CASE /\ state[b] = "unresolved" /\ state' = [state EXCEPT ![b] = "completed"]
             /\ AllAccounted(Kids(b), MergeDisp(b, d))
    <2>1. PICK n \in Names : child[b][n] # None
      BY <1>3 DEF AllAccounted, Kids
    <2>2. child[b][n] \in crossed /\ bind[child[b][n]] = b /\ <<child[b][n], n>> \in runs /\ child[b][n] \in Requests
      BY <2>1, ChildFacts
    <2>3. /\ \E q \in crossed : bind[q] = b
          /\ \E q \in Requests : <<q, "child">> \in runs /\ bind[q] = b
      BY <2>2, AccountFacts
    <2>4. Contract!Next
      BY <1>1, <1>3, <2>3, ContractDecides
    <2> QED
      BY <2>4
  <1> QED
    BY <1>1, <1>2, <1>3

(* Every step of the ledger is a step of the contract, or shows nothing,   *)
(* while at most one write has been faulty.                                *)
LEMMA ContractStep ==
    ASSUME AccountInv, [Next]_vars, faults <= 1
    PROVE  [Contract!Next]_Contract!contractVars
  <1>0. TypeOK /\ TypeOK' /\ AtMostOnce'
    BY TypeStep, LedgerStep DEF AccountInv, LedgerInv
  <1>1. CASE UNCHANGED <<task, ask, crossed, bind, runs, state>>
    <2>1. UNCHANGED Contract!contractVars
      BY <1>0, <1>1, ContractStutters
    <2> QED
      BY <2>1
  <1>2. ASSUME NEW r \in Requests, NEW b \in Bindings, NEW t \in Tasks, Arrive(r, b, t)
        PROVE  [Contract!Next]_Contract!contractVars
    BY <1>0, <1>2, ContractArrive
  <1>3. ASSUME NEW r \in Requests, NEW b \in Bindings, NEW d \in [Names -> Dispositions], ReconcileRead(r, b, d)
        PROVE  [Contract!Next]_Contract!contractVars
    <2>1. UNCHANGED <<task, ask, crossed, runs, state>> /\ pc[r] = "idle" /\ bind' = [bind EXCEPT ![r] = b]
      BY <1>3 DEF ReconcileRead, record, world, history
    <2>2. r \notin crossed
      BY <2>1 DEF AccountInv, LedgerInv, CrossingIsRecorded
    <2>3. \A q \in crossed : bind'[q] = bind[q]
      BY <1>0, <2>1, <2>2 DEF TypeOK
    <2>4. UNCHANGED Contract!contractVars
      BY <1>0, <2>1, <2>3, ContractStutters
    <2> QED
      BY <2>4
  <1>4. ASSUME NEW r \in Requests, Step(r)
        PROVE  [Contract!Next]_Contract!contractVars
    <2>1. ASSUME NEW w \in Writes, BeginNew(r, w) \/ MarkEffecting(r, w) \/ Settle(r, w)
          PROVE  [Contract!Next]_Contract!contractVars
      BY <1>0, <2>1, ContractBegin, ContractMark, ContractSettle
    <2>2. CASE Persist(r)
      BY <1>0, <2>2, ContractPersist
    <2>3. ASSUME NEW w \in Writes, ReconcileWrite(r, w)
          PROVE  [Contract!Next]_Contract!contractVars
      <3>1. /\ UNCHANGED <<bind, ask, runs, crossed>> /\ pc[r] = "reconcile"
            /\ \/ state[bind[r]] = "unresolved" /\ Reconcile(bind[r], found[r])
               \/ UNCHANGED <<state, task>>
        BY <2>3 DEF ReconcileWrite, record, world
      <3>2. bind[r] \in Bindings /\ found[r] \in [Names -> Dispositions]
        BY <1>0, <3>1 DEF TypeOK
      <3> QED
        BY <1>0, <3>1, <3>2, ContractReconcile
    <2>4. CASE \/ Peek(r) \/ Enter(r) \/ AwaitPrior(r) \/ Wake(r) \/ Finish(r) \/ StartAgent(r) \/ BindAndPrompt(r)
               \/ \E w \in Writes : BeginExisting(r, w) \/ RecordChildren(r, w)
               \/ \E v \in {"threw_absent", "threw_unknown"} : PipelineThrows(r, v)
               \/ \E v \in {"failed", "launched"} : EndsBeforeRun(r, v) \/ PipelineEnds(r, v)
      <3>1. UNCHANGED <<task, ask, crossed, bind, runs, state>>
        BY <2>4 DEF Peek, Enter, AwaitPrior, Wake, Finish, StartAgent, BindAndPrompt, BeginExisting, RecordChildren,
           PipelineThrows, EndsBeforeRun, PipelineEnds, record, world, history
      <3> QED
        BY <1>1, <3>1
    <2> QED
      BY <1>4, <2>1, <2>2, <2>3, <2>4 DEF Step
  <1>5. ASSUME NEW r \in Requests, RelaunchPersist(r)
        PROVE  [Contract!Next]_Contract!contractVars
    <2>1. UNCHANGED <<task, ask, crossed, bind, state>> /\ runs' = runs \cup {<<r, "relaunch">>}
      BY <1>5 DEF RelaunchPersist, record, history
    <2>2. UNCHANGED Contract!contractVars
      BY <1>0, <2>1, ContractStutters
    <2> QED
      BY <2>2
  <1>6. ASSUME NEW r \in Requests, NEW w \in Writes, RelaunchRecord(r, w)
        PROVE  [Contract!Next]_Contract!contractVars
    BY <1>1, <1>6 DEF RelaunchRecord
  <1>7. ASSUME NEW x \in Runs, AgentExits(x)
        PROVE  [Contract!Next]_Contract!contractVars
    BY <1>1, <1>7 DEF AgentExits, record, calls, history
  <1>8. CASE Crash
    BY <1>1, <1>8 DEF Crash, record, world
  <1>9. CASE Restart
    <2>1. CASE StartDaemon \/ RecoveryDone \/ Serve \/ \E b \in Bindings : SweepSkips(b)
      BY <1>1, <2>1 DEF StartDaemon, RecoveryDone, Serve, SweepSkips, record, calls, world, history
    <2>2. ASSUME NEW b \in Bindings, NEW w \in Writes, RecoverInterrupted(b, w)
          PROVE  [Contract!Next]_Contract!contractVars
      <3>1. /\ UNCHANGED <<bind, ask, task, runs, crossed>> /\ state[b] = "effecting"
            /\ state' = state \/ state' = [state EXCEPT ![b] = "unresolved"]
        BY <2>2 DEF RecoverInterrupted, Interrupted, calls, world
      <3>2. CASE state' = [state EXCEPT ![b] = "unresolved"]
        <4>1. Contract!Next
          BY <1>0, <3>1, <3>2, ContractDecides
        <4> QED
          BY <4>1
      <3> QED
        BY <1>1, <3>1, <3>2
    <2>3. ASSUME NEW b \in Bindings, NEW w \in Writes, NEW d \in [Names -> Dispositions], SweepIntent(b, w, d)
          PROVE  [Contract!Next]_Contract!contractVars
      <3>1. /\ UNCHANGED <<bind, ask, runs, crossed>> /\ state[b] = "unresolved"
            /\ Reconcile(b, d) \/ UNCHANGED <<state, task>>
        BY <2>3 DEF SweepIntent, record, calls, world
      <3> QED
        BY <1>0, <3>1, ContractReconcile
    <2> QED
      BY <1>9, <2>1, <2>2, <2>3 DEF Restart
  <1>10. CASE UNCHANGED vars
    BY <1>1, <1>10 DEF vars, record, calls, world, history
  <1> QED
    BY <1>2, <1>3, <1>4, <1>5, <1>6, <1>7, <1>8, <1>9, <1>10 DEF Next

(* The initial states are the contract's.                                  *)
LEMMA ContractInit == Init => Contract!Init
  <1> SUFFICES ASSUME Init PROVE Contract!Init
    OBVIOUS
  <1>1. AtMostOnce /\ crossed = {} /\ runs = {}
    BY DEF Init, AtMostOnce
  <1>2. \A b \in Bindings : EffectorOf(b) = None
    BY <1>1, EffectorIs
  <1>3. MadeFor = {}
    BY <1>1 DEF MadeFor
  <1>4. \A b \in Bindings : OutcomeOf(state[b]) = "open"
    BY DEF Init, OutcomeOf
  <1> QED
    BY <1>2, <1>3, <1>4 DEF Contract!Init, Init

(* The store, the handler and the restart sweep implement the contract of  *)
(* an idempotency key in every behaviour with at most one faulty write,    *)
(* for any number of keys, requests and crashes.                           *)
THEOREM LedgerImplementsContract == Spec /\ [](faults <= 1) => ImplementsContract
  <1>1. Init => Contract!Init
    BY ContractInit
  <1>2. AccountInv /\ faults <= 1 /\ [Next]_vars => [Contract!Next]_Contract!contractVars
    BY ContractStep
  <1> QED
    BY <1>1, <1>2, AccountsHold, PTL DEF Spec, ImplementsContract, Contract!Spec
=============================================================================
